------------------------------ MODULE SamServer ------------------------------
(***************************************************************************)
(* sam_service::SamServer: one task per accepted connection (a session     *)
(* here), each awaiting its registration, then pumping messages both ways, *)
(* then disconnecting, all of them over the one SamService.                *)
(*                                                                         *)
(* The sessions of one application may overlap: it reconnects while the    *)
(* task of its previous connection still runs.  The peers are arbitrary:   *)
(* they may send anything, stop, or vanish at any time.                    *)
(***************************************************************************)
EXTENDS SamService

CONSTANT MaxSession   \* Bound: the number of connections accepted.

ASSUME SessionAssumption == MaxSession \in Nat

VARIABLES
  stage,      \* How far each session's task has come.
  identity,   \* Registered sessions: application and connection_id.
  leftover    \* What a replaced session's queue still holds.

sessionVars == <<stage, identity, leftover>>
serverVars == <<vars, sessionVars>>

Session == 1 .. MaxSession

Stage == {"none", "accepted", "registered", "closing", "ended"}

Registered == DOMAIN identity

ServerTypeOK ==
  /\ stage \in [Session -> Stage]
  /\ identity \in [Registered -> [app : App, id : ConnectionId]]
  /\ \A s \in Session :
       /\ stage[s] \in {"registered", "closing"} => s \in Registered
       /\ stage[s] \in {"none", "accepted"} => s \notin Registered
       /\ leftover[s] # << >> => s \in Registered
       /\ Len(leftover[s]) <= QueueDepth
  /\ leftover \in [Session -> Seq(SamToApplication)]

ServerInit ==
  /\ Init
  /\ stage = [s \in Session |-> "none"]
  /\ identity = [s \in {} |-> 0]
  /\ leftover = [s \in Session |-> << >>]

\* The service still has this session's connection as its application's.
IsCurrent(s) == s \in Registered /\ VerifyConnection(identity[s].app, identity[s].id)

Move(s, from, to) == stage[s] = from /\ stage' = [stage EXCEPT ![s] = to]

-----------------------------------------------------------------------------
\* run: the accept loop

Accept(s) ==
  /\ Move(s, "none", "accepted")
  /\ \A r \in 1 .. s - 1 : stage[r] # "none"
  /\ UNCHANGED <<vars, identity, leftover>>

-----------------------------------------------------------------------------
\* serve_connection, up to the registration

\* The registration times out, the peer vanishes, its first message is not
\* Register or has another protocol version.
EndUnregistered(s) ==
  /\ Move(s, "accepted", "ended")
  /\ UNCHANGED <<vars, identity, leftover>>

\* The sending half of a connection that is replaced is dropped; the queue
\* lives on in the replaced session until it is drained.
RegisterSession(s, a, wait) ==
  /\ Move(s, "accepted", "registered")
  /\ Register(a, wait)
  /\ identity' = [r \in Registered \cup {s} |->
       IF r = s THEN [app |-> a, id |-> nextConnectionId] ELSE identity[r]]
  /\ leftover' = [r \in Session |->
       IF IsCurrent(r) /\ identity[r].app = a THEN clients[a].outbound ELSE leftover[r]]

-----------------------------------------------------------------------------
\* run_registered_session

\* The branch of outbound_rx.recv(): Some.
Forward(s) ==
  /\ stage[s] = "registered"
  /\ IF IsCurrent(s)
       THEN Take(identity[s].app) /\ UNCHANGED leftover
       ELSE /\ leftover[s] # << >>
            /\ leftover' = [leftover EXCEPT ![s] = Tail(@)]
            /\ UNCHANGED vars
  /\ UNCHANGED <<stage, identity>>

\* Fault: the session keeps a sender of its own queue, so that recv() waits
\* for ever and never returns None.
Replaced_OwnSender(s) ==
  /\ FALSE
  /\ Move(s, "registered", "closing")
  /\ UNCHANGED <<vars, identity, leftover>>

\* The same branch: None, once every sender is gone and the queue is empty.
Replaced(s) ==
  /\ Move(s, "registered", "closing")
  /\ s \in Registered /\ ~IsCurrent(s)
  /\ leftover[s] = << >>
  /\ UNCHANGED <<vars, identity, leftover>>

\* The branch of reader.receive(): a message that handle_message accepts.
Receive(s, wait) ==
  /\ stage[s] = "registered"
  /\ LET a == identity[s].app
         c == identity[s].id
     IN  \/ \E h \in ReportedHealth, m \in ReportedMode :
              HandleHeartbeat(a, c, Heartbeat(a, h, m), wait)
         \/ \E t \in 1 .. MaxTransition :
              \/ HandleModeReady(a, c, ModeReady(a, t))
              \/ HandleModeRejected(a, c, ModeRejected(a, t))
              \/ \E m \in ReportedMode :
                   HandleModeCommitted(a, c, ModeCommitted(a, t, m), wait)
  /\ UNCHANGED sessionVars

\* Either branch fails, or the peer is gone, or handle_message returns an
\* error: StaleConnection, ApplicationMismatch, DuplicateRegistration or
\* WrongCommittedMode.  Any peer can bring one of these about.
Break(s) ==
  /\ Move(s, "registered", "closing")
  /\ UNCHANGED <<vars, identity, leftover>>

-----------------------------------------------------------------------------
\* serve_connection, after the session: always disconnect.

\* Fault: a session that was replaced takes its successor down with it.
Teardown_WhoeverIsThere(s, wait) ==
  /\ Move(s, "closing", "ended")
  /\ IF identity[s].app \in Connected
       THEN Disconnect(identity[s].app, clients[identity[s].app].id, wait)
       ELSE UNCHANGED vars
  /\ UNCHANGED <<identity, leftover>>

\* Fault: the session's error returns before the disconnect.
Teardown_Skipped(s, wait) ==
  /\ Move(s, "closing", "ended")
  /\ UNCHANGED <<vars, identity, leftover>>

Teardown(s, wait) ==
  /\ Move(s, "closing", "ended")
  /\ IF IsCurrent(s)
       THEN Disconnect(identity[s].app, identity[s].id, wait)
       ELSE UNCHANGED vars
  /\ UNCHANGED <<identity, leftover>>

-----------------------------------------------------------------------------
SessionNext(s) ==
  \/ Accept(s)
  \/ EndUnregistered(s)
  \/ Forward(s) \/ Replaced(s) \/ Break(s)
  \/ \E wait \in LockWait :
       \/ \E a \in App : RegisterSession(s, a, wait)
       \/ Receive(s, wait)
       \/ Teardown(s, wait)

ServerNext ==
  \/ \E s \in Session : SessionNext(s)
  \/ /\ \/ \E m \in RequestedMode : RequestMode(m)
        \/ \E wait \in LockWait : RefreshHealth(wait)
        \/ Tick
     /\ UNCHANGED sessionVars

\* A session's task is polled while it can go on.  That it can go on writing is
\* an assumption on the peer, which has to read what it is sent (server.rs:172
\* waits for room in the socket); whether the peer says anything is left open.
SessionFairness ==
  \A s \in Session :
    /\ WF_serverVars(Forward(s))
    /\ WF_serverVars(Replaced(s))
    /\ WF_serverVars(\E wait \in LockWait : Teardown(s, wait))

ServerSpec == ServerInit /\ [][ServerNext]_serverVars

FairServerSpec == ServerSpec /\ SessionFairness

-----------------------------------------------------------------------------
\* Properties

\* server.rs:145-147: no "stale connected entry" is left behind.  Whoever the
\* service takes for connected has exactly one session, and that session is
\* still to disconnect it.
ClientHasSession ==
  \A a \in Connected :
    \E s \in Session :
      /\ stage[s] \in {"registered", "closing"}
      /\ identity[s] = [app |-> a, id |-> clients[a].id]
      /\ \A r \in Registered \ {s} : identity[r].id # clients[a].id

\* service.rs:19-24: the teardown of an old session cannot remove a newer one.
\* Among the sessions of an application, only the one that registered last
\* can be current, and it stays so until its own teardown.
NewestSessionCounts ==
  \A s \in Registered :
    (\A r \in Registered : identity[r].app = identity[s].app => identity[r].id <= identity[s].id)
      => (IsCurrent(s) <=> stage[s] # "ended")

\* An old session does not linger: once replaced it runs out of messages and
\* ends, though its peer may say nothing more, as long as the peer reads what
\* it is sent.
ReplacedSessionEnds ==
  \A s \in Session : (stage[s] = "registered" /\ ~IsCurrent(s)) ~> stage[s] = "ended"

\* A session that broke is not the application's for ever: its connection
\* leaves the service.
BrokenSessionLeaves ==
  \A s \in Session : stage[s] = "closing" ~> ~IsCurrent(s)
=============================================================================
