----------------------------- MODULE ClientRuntime -----------------------------
(***************************************************************************)
(* sam_client::ApplicationRuntime: one application's side of its sessions. *)
(* Each session connects, registers, brings its ModeHandler to the mode    *)
(* that SAM announces, and then reads in a task of its own, which fills a  *)
(* bounded queue, while the main loop sends heartbeats and answers what it *)
(* takes from the queue.  When the session ends its reader is not stopped: *)
(* it goes on reading the old connection, with nobody to hand a message    *)
(* to, while the next session is already under way.                        *)
(*                                                                         *)
(* SAM is what its server lets a client see: an answer to the              *)
(* registration, then any messages, then, at any time, the end.  The       *)
(* handler is any ModeHandler: it may refuse to prepare, or fail to commit.*)
(***************************************************************************)
EXTENDS SamProtocol, Sequences

CONSTANTS
  Me,             \* The application.
  InboundDepth,   \* INBOUND_QUEUE_DEPTH
  MaxSession,     \* Bound: the number of connections made.
  MaxTold,        \* Bound: the number of messages SAM sends in a session.
  Announced,      \* Bound: the modes that SAM announces at registration.
  Message         \* Bound: the messages that SAM sends after it.

ASSUME ClientAssumption ==
  /\ Me \in App
  /\ InboundDepth \in Nat \ {0}
  /\ MaxSession \in Nat \ {0}
  /\ MaxTold \in Nat
  /\ Announced \subseteq SystemMode
  /\ Message \subseteq SamToApplication

VARIABLES
  stage,      \* "idle" (connecting, or waiting to), "registering", "running", "stopped"
  session,    \* The connection made last.
  mode,       \* handler.current_mode()
  inbound,    \* The queue between the session's reader and its main loop.
  reader,     \* Each connection's reader task: "none", "reading" or "ended".
  held,       \* What a reader has read and not handed over yet.
  wire,       \* What SAM sent on each connection and nobody read.
  sam,        \* SAM's end of each connection: "none", "asked", "accepted", "closed"
  told,       \* History: all that SAM sent on each connection.
  sent        \* History: the answers sent on each connection, and to which message.

clientVars == <<stage, session, mode, inbound, reader, held>>
samVars == <<wire, sam, told>>
vars == <<clientVars, samVars, sent>>

Session == 1 .. MaxSession

\* RegisterRejected, or RegisterAccepted with a version the client does not speak.
Refused == [type |-> "RegisterRejected"]

\* What receive() returns on a connection that ended: an error.
Closed == [type |-> "Closed"]

Incoming == SamToApplication \cup {Refused, Closed}

\* What the application answers to a request (lib.rs, SamSender).
Outgoing ==
  {ModeReady(Me, t) : t \in TransitionId} \cup {ModeRejected(Me, t) : t \in TransitionId}
    \cup {ModeCommitted(Me, t, m) : t \in TransitionId, m \in SystemMode}

TypeOK ==
  /\ stage \in {"idle", "registering", "running", "stopped"}
  /\ session \in 0 .. MaxSession
  /\ mode \in SystemMode
  /\ inbound \in Seq(Incoming) /\ Len(inbound) <= InboundDepth
  /\ reader \in [Session -> {"none", "reading", "ended"}]
  /\ held \in [Session -> Seq(Incoming)]
  /\ wire \in [Session -> Seq(Incoming)]
  /\ sam \in [Session -> {"none", "asked", "accepted", "closed"}]
  /\ told \in [Session -> Seq(Incoming)]
  /\ sent \in [Session -> Seq([to : Nat \ {0}, answer : Outgoing])]
  /\ \A s \in Session : (sam[s] = "none") <=> (s > session)
  /\ \A s \in Session : Len(held[s]) <= 1 /\ (reader[s] = "reading" \/ held[s] = << >>)

Init ==
  /\ stage = "idle"
  /\ session = 0
  /\ mode = "Startup"
  /\ inbound = << >>
  /\ reader = [s \in Session |-> "none"]
  /\ held = [s \in Session |-> << >>]
  /\ wire = [s \in Session |-> << >>]
  /\ sam = [s \in Session |-> "none"]
  /\ told = [s \in Session |-> << >>]
  /\ sent = [s \in Session |-> << >>]

-----------------------------------------------------------------------------
\* SAM

Tell(s, messages) ==
  /\ wire' = [wire EXCEPT ![s] = @ \o messages]
  /\ told' = [told EXCEPT ![s] = @ \o messages]
  /\ UNCHANGED <<clientVars, sent>>

SamAccepts(s, m) ==
  /\ sam[s] = "asked"
  /\ sam' = [sam EXCEPT ![s] = "accepted"]
  /\ Tell(s, <<RegisterAccepted(m, "Healthy")>>)

SamRefuses(s) ==
  /\ sam[s] = "asked"
  /\ sam' = [sam EXCEPT ![s] = "closed"]
  /\ Tell(s, <<Refused, Closed>>)

SamSends(s, message) ==
  /\ sam[s] = "accepted"
  /\ Len(told[s]) < MaxTold
  /\ Tell(s, <<message>>)
  /\ UNCHANGED sam

\* SAM ends the session, ends itself, or crashes.
SamCloses(s) ==
  /\ sam[s] \in {"asked", "accepted"}
  /\ sam' = [sam EXCEPT ![s] = "closed"]
  /\ Tell(s, <<Closed>>)

-----------------------------------------------------------------------------
\* run, and run_session up to the registration

\* The outcome of a session that run retries after reconnect_delay.  The
\* session's queue is dropped with it.
EndSession == stage' = "idle" /\ inbound' = << >>

\* A connect() that fails changes nothing.
Connect ==
  /\ stage = "idle"
  /\ session < MaxSession
  /\ stage' = "registering"
  /\ session' = session + 1
  /\ sam' = [sam EXCEPT ![session + 1] = "asked"]
  /\ UNCHANGED <<mode, inbound, reader, held, wire, told, sent>>

RegistrationTimeout ==
  /\ stage = "registering"
  /\ wire[session] = << >>
  /\ EndSession
  /\ UNCHANGED <<session, mode, reader, held, samVars, sent>>

\* The session begins: a reader of its own, and a fresh queue.
Begin ==
  /\ stage' = "running"
  /\ inbound' = << >>
  /\ reader' = [reader EXCEPT ![session] = "reading"]

\* Fault: an application in another mode is not reconciled.
Synchronize_Skipped(m) == Begin /\ UNCHANGED mode

\* synchronize_mode as ModeHandler has it: nothing to do, or prepare and then
\* commit, each of which may fail; run does not retry that failure.
Synchronize(m) ==
  \/ Begin /\ mode' = m
  \/ /\ mode # m
     /\ stage' = "stopped"
     /\ UNCHANGED <<mode, inbound, reader>>

ReceiveRegistration ==
  /\ stage = "registering"
  /\ wire[session] # << >>
  /\ wire' = [wire EXCEPT ![session] = Tail(@)]
  /\ LET answer == Head(wire[session])
     IN  \/ answer.type = "RegisterAccepted" /\ Synchronize(answer.mode)
         \/ answer = Refused /\ stage' = "stopped" /\ UNCHANGED <<mode, inbound, reader>>
         \/ answer = Closed /\ EndSession /\ UNCHANGED <<mode, reader>>
  /\ UNCHANGED <<session, held, sam, told, sent>>

-----------------------------------------------------------------------------
\* The reader task

Read(s) ==
  /\ reader[s] = "reading"
  /\ held[s] = << >>
  /\ wire[s] # << >>
  /\ held' = [held EXCEPT ![s] = <<Head(wire[s])>>]
  /\ wire' = [wire EXCEPT ![s] = Tail(@)]
  /\ UNCHANGED <<stage, session, mode, inbound, reader, sam, told, sent>>

Hand(s) ==
  /\ held' = [held EXCEPT ![s] = << >>]
  /\ UNCHANGED <<stage, session, mode, samVars, sent>>

HasReceiver(s) == s = session /\ stage = "running"

\* Faults: the queue has no bound; it is the runtime's, not the session's; a
\* message that finds it full is dropped; the end is not passed on.
HandOver_Unbounded(s) ==
  /\ held[s] # << >> /\ HasReceiver(s) /\ Hand(s)
  /\ inbound' = inbound \o held[s]
  /\ UNCHANGED reader
HandOver_ToWhoeverRuns(s) ==
  /\ held[s] # << >> /\ stage = "running" /\ Len(inbound) < InboundDepth /\ Hand(s)
  /\ inbound' = inbound \o held[s]
  /\ reader' = [reader EXCEPT ![s] = IF held[s] = <<Closed>> THEN "ended" ELSE @]
HandOver_Dropping(s) ==
  /\ held[s] # << >> /\ HasReceiver(s) /\ Hand(s)
  /\ inbound' = IF Len(inbound) < InboundDepth THEN inbound \o held[s] ELSE inbound
  /\ reader' = [reader EXCEPT ![s] = IF held[s] = <<Closed>> THEN "ended" ELSE @]
HandOver_KeepsTheEnd(s) ==
  /\ held[s] # << >> /\ held[s] # <<Closed>>
  /\ HasReceiver(s) /\ Len(inbound) < InboundDepth /\ Hand(s)
  /\ inbound' = inbound \o held[s]
  /\ UNCHANGED reader

\* inbound_tx.send() waits for room, and fails once the session is over.
HandOver(s) ==
  /\ held[s] # << >>
  /\ HasReceiver(s) => Len(inbound) < InboundDepth
  /\ inbound' = IF HasReceiver(s) THEN inbound \o held[s] ELSE inbound
  /\ reader' = [reader EXCEPT ![s] =
       IF HasReceiver(s) /\ held[s] # <<Closed>> THEN "reading" ELSE "ended"]
  /\ Hand(s)

-----------------------------------------------------------------------------
\* The main loop

\* A write fails only on a connection whose other end is closed, and need not
\* fail even there.
WriteFails == sam[session] = "closed" /\ EndSession

\* A heartbeat that is written reports handler.current_mode() and changes
\* nothing here.
HeartbeatFails ==
  /\ stage = "running"
  /\ WriteFails
  /\ UNCHANGED <<session, mode, reader, held, samVars, sent>>

\* Of connection s, what was sent to the main loop of its session and did not
\* get there yet, and how many messages did.
Coming(s) == inbound \o held[s] \o wire[s]

Taken(s) == Len(told[s]) - Len(Coming(s))

\* The answer to the next message is written, or the session ends with the
\* attempt.
Answer(answer) ==
  \/ /\ sent' = [sent EXCEPT ![session] =
                   Append(@, [to |-> Taken(session) + 1, answer |-> answer])]
     /\ inbound' = Tail(inbound)
     /\ UNCHANGED stage
  \/ WriteFails /\ UNCHANGED sent

HandlePrepareMode(message) ==
  /\ message.type = "PrepareMode"
  /\ \/ Answer(ModeReady(Me, message.id))
     \/ Answer(ModeRejected(Me, message.id))
  /\ UNCHANGED mode

\* A commit that fails ends the session; one that succeeds stays, even when
\* its confirmation cannot be written.
HandleCommitMode(message) ==
  /\ message.type = "CommitMode"
  /\ \/ mode' = message.mode /\ Answer(ModeCommitted(Me, message.id, message.mode))
     \/ EndSession /\ UNCHANGED <<mode, sent>>

\* AbortMode and StateBroadcast reach the handler and are not answered.
HandleNotice(message) ==
  /\ message.type \in {"AbortMode", "StateBroadcast"}
  /\ inbound' = Tail(inbound)
  /\ UNCHANGED <<stage, mode, sent>>

HandleEnd(message) ==
  /\ message.type \in {"Closed", "RegisterAccepted", "RegisterRejected"}
  /\ EndSession
  /\ UNCHANGED <<mode, sent>>

Handle ==
  /\ stage = "running"
  /\ inbound # << >>
  /\ LET message == Head(inbound)
     IN  \/ HandlePrepareMode(message) \/ HandleCommitMode(message)
         \/ HandleNotice(message) \/ HandleEnd(message)
  /\ UNCHANGED <<session, reader, held, samVars>>

-----------------------------------------------------------------------------
SamNext ==
  \E s \in Session :
    \/ \E m \in Announced : SamAccepts(s, m)
    \/ SamRefuses(s)
    \/ \E message \in Message : SamSends(s, message)
    \/ SamCloses(s)

Next ==
  \/ SamNext
  \/ Connect \/ RegistrationTimeout \/ ReceiveRegistration
  \/ \E s \in Session : Read(s) \/ HandOver(s)
  \/ HeartbeatFails \/ Handle

\* The client's tasks run while they can and the handler's callbacks return.
\* select! picks a ready branch at random, so heartbeats do not keep the queue
\* waiting for ever.  Of SAM it is assumed that it goes on reading what it is
\* sent, so that no write blocks for ever (it may fail); not that SAM sends or
\* answers anything, nor that it can be reached.
Fairness ==
  /\ \A s \in Session : WF_vars(Read(s)) /\ WF_vars(HandOver(s))
  /\ WF_vars(Handle)
  /\ WF_vars(ReceiveRegistration \/ RegistrationTimeout)

Spec == Init /\ [][Next]_vars /\ Fairness

-----------------------------------------------------------------------------
\* Properties

IsRequest(message) == message.type \in {"PrepareMode", "CommitMode"}

Answers(answer, request) ==
  /\ answer.id = request.id
  /\ IF request.type = "PrepareMode"
       THEN answer.type \in {"ModeReady", "ModeRejected"}
       ELSE answer.type = "ModeCommitted" /\ answer.mode = request.mode

\* What SAM asks on a connection is answered on that connection, once and in
\* order, though it goes through the reader and its queue and though the
\* readers of earlier sessions still run: while a session runs, what SAM told
\* it is either taken, and answered if it was a request, or still on its way to
\* the main loop, with nothing lost, added or out of order.
RequestsInStep ==
  \A s \in Session :
    /\ \A i \in 1 .. Len(sent[s]) :
         /\ sent[s][i].to \in 1 .. Len(told[s])
         /\ IsRequest(told[s][sent[s][i].to])
         /\ Answers(sent[s][i].answer, told[s][sent[s][i].to])
         /\ \A j \in 1 .. i - 1 : sent[s][j].to < sent[s][i].to
    /\ HasReceiver(s) =>
         /\ \A k \in 1 .. Taken(s) :
              IsRequest(told[s][k]) => \E i \in 1 .. Len(sent[s]) : sent[s][i].to = k
         /\ \A i \in 1 .. Len(Coming(s)) : Coming(s)[i] = told[s][Taken(s) + i]

\* runtime.rs:43-45: the application is reconciled "before the runtime starts
\* heartbeating".  The mode its next heartbeat would report is always one that
\* SAM announced or ordered on that same connection, whatever mode an earlier
\* session had left it in.
ReportsOnlyOrders ==
  stage = "running" =>
    \E i \in 1 .. Len(told[session]) :
      LET order == told[session][i]
      IN  order.type \in {"RegisterAccepted", "CommitMode"} /\ order.mode = mode

\* However many messages arrive, and however small the queue: as long as the
\* session goes on, and its writes do not block for ever, every request is
\* answered in the end.
EveryRequestAnswered ==
  \A s \in Session : \A k \in 1 .. MaxTold :
    (HasReceiver(s) /\ k <= Len(told[s]) /\ IsRequest(told[s][k]))
      ~> ((\E i \in 1 .. Len(sent[s]) : sent[s][i].to = k) \/ ~HasReceiver(s))

\* A connection that SAM closed is noticed, behind all that SAM sent before,
\* though the application's heartbeats may still seem to be written.
EndIsNoticed ==
  \A s \in Session : (HasReceiver(s) /\ sam[s] = "closed") ~> ~HasReceiver(s)
=============================================================================
