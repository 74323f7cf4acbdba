------------------------------ MODULE SamSystem ------------------------------
(***************************************************************************)
(* SAM and its applications closed into one system: each connection of     *)
(* SamServer has at its other end a process that runs                      *)
(* sam_client::ApplicationRuntime with a ModeHandler, which is             *)
(* sam_demo_app::DemoHandler or one whose commit may fail.                 *)
(*                                                                         *)
(* The pipeline inside a process (socket, reader task, inbound queue, main *)
(* loop) is the subject of ClientRuntime; here it is one FIFO per          *)
(* connection and direction, because what comes out of it is what was      *)
(* sent, in order, up to the end (RequestsInStep, EndIsNoticed there).     *)
(* SAM's end has no such pipeline: its session may drop a frame that it    *)
(* has read in part (Cuts), and is out of step with its peer from then on. *)
(* StateBroadcast and AbortMode vanish where they are written: the handler *)
(* answers neither, and neither changes its mode.                          *)
(* No time passes: a heartbeat that expires is SamService's subject, and   *)
(* here a process that is gone is noticed by the end of its connection.    *)
(***************************************************************************)
EXTENDS SamServer

CONSTANT Transit   \* Bound: messages in one direction of a connection; a writer waits for room.

\* DemoHandler by its flags, and a handler whose commit may fail.
Policy == {"agrees", "rejects", "rejectsOnce", "faulty"}

ASSUME SystemAssumption ==
  /\ Transit \in Nat \ {0}
  /\ ReportedMode = SystemMode
  /\ MaxTransition + 1 < IdSpace     \* no id wraps

VARIABLES
  runtime,   \* Each application's process, see Process.
  holder,    \* The application whose process holds the far end of a connection open.
  up,        \* What was written towards SAM on each connection and is not handled yet.
  down       \* What SAM wrote on each connection and is not handled yet.

clientVars == <<runtime, holder, up, down>>
systemVars == <<serverVars, clientVars>>

\* at: "off" without a process, "idle" between sessions.  mode and handler are
\* the ModeHandler's.  reported: this session has sent a heartbeat in this mode.
Process ==
  [at : {"off", "idle", "registering", "running"}, session : 0 .. MaxSession,
   mode : SystemMode, handler : Policy, reported : BOOLEAN]

RegisterMessage(a) == [type |-> "Register", app |-> a]

\* What is left of a frame whose beginning was read and dropped.
Fragment == [type |-> "Fragment"]

\* What SAM's end of a connection may come upon.
ApplicationToSam ==
  [type : {"Register"}, app : App]
    \cup [type : {"Heartbeat"}, app : App, health : ReportedHealth, mode : SystemMode]
    \cup [type : {"ModeReady", "ModeRejected"}, app : App, id : TransitionId]
    \cup [type : {"ModeCommitted"}, app : App, id : TransitionId, mode : SystemMode]
    \cup {Fragment}

InSession(a, s) == runtime[a].session = s /\ runtime[a].at \in {"registering", "running"}

Running(a, s) == runtime[a].at = "running" /\ runtime[a].session = s

SystemTypeOK ==
  /\ ServerTypeOK
  /\ runtime \in [App -> Process]
  /\ holder \in [Session -> SUBSET App]
  /\ up \in [Session -> Seq(ApplicationToSam)]
  /\ down \in [Session -> Seq(SamToApplication)]
  /\ \A s \in Session :
       /\ Len(up[s]) <= Transit /\ Len(down[s]) <= Transit
       /\ stage[s] = "none" => holder[s] = {} /\ up[s] = << >>
       /\ holder[s] = {} => down[s] = << >>
       /\ \A a \in App : InSession(a, s) =>
            /\ holder[s] = {a}
            /\ runtime[a].at = "registering" /\ down[s] # << >>
                 => Head(down[s]).type = "RegisterAccepted"

\* DemoHandler::new
Started(h) ==
  [at |-> "idle", session |-> 0, mode |-> "Startup", handler |-> h, reported |-> FALSE]

NotStarted == [Started("agrees") EXCEPT !.at = "off"]

SystemInit ==
  /\ ServerInit
  /\ runtime \in [App -> {Started(h) : h \in Policy}]
  /\ holder = [s \in Session |-> {}]
  /\ up = [s \in Session |-> << >>]
  /\ down = [s \in Session |-> << >>]

-----------------------------------------------------------------------------
\* The session's task at SAM's end of connection s

Drained(s) == up' = [up EXCEPT ![s] = Tail(@)]

Unread(s) == up' = [up EXCEPT ![s] = << >>]

Registers(s) ==
  /\ up[s] # << >> /\ Head(up[s]).type = "Register"
  /\ RegisterSession(s, Head(up[s]).app, 0)
  /\ Drained(s)
  /\ UNCHANGED down

Outgoing(s) == IF IsCurrent(s) THEN clients[identity[s].app].outbound ELSE leftover[s]

\* The session receives from its queue and writes to the socket.
Sends(s) ==
  /\ Forward(s)
  /\ holder[s] # {}
  /\ LET message == Head(Outgoing(s))
     IN  IF message.type \in {"StateBroadcast", "AbortMode"}
           THEN UNCHANGED down
           ELSE Len(down[s]) < Transit /\ down' = [down EXCEPT ![s] = Append(@, message)]

Delivers(s) == Sends(s) /\ UNCHANGED up

\* The session takes its next length from the middle of a frame.
OutOfStep(s) == up[s] # << >> /\ Head(up[s]) = Fragment

\* A frame is on its way: one of up, or a heartbeat that only repeats the last,
\* which does not show in up.
FrameComes(s) == up[s] # << >> \/ \E a \in App : Running(a, s) /\ runtime[a].reported

\* Part of the next frame is read already when select! takes the other branch:
\* the future of receive() is dropped, and what it read with it.  The rest of
\* this frame and all that follows are lost on the session.
Cuts(s) ==
  /\ Sends(s)
  /\ FrameComes(s) /\ ~OutOfStep(s)
  /\ up' = [up EXCEPT ![s] = <<Fragment>>]

Accepts(a, message) ==
  \/ message.type = "ModeReady" /\ Modes!AcceptsReady(a, message.id)
  \/ message.type = "ModeRejected" /\ Modes!AcceptsRejection(a, message.id)
  \/ message.type = "ModeCommitted" /\ Modes!AcceptsCommit(a, message.id, message.mode)

\* handle_message returns StaleConnection or WrongCommittedMode, or receive()
\* fails: what it took for a length is too large, or the rest is no message.
IsError(s, message) ==
  \/ ~IsCurrent(s)
  \/ message = Fragment
  \/ message.type = "ModeCommitted" /\ Modes!WrongCommittedMode(message.id, message.mode)

\* is_late_transition_response
IsLate(a, message) == message.type # "Heartbeat" /\ ~Accepts(a, message)

HandleMessage(a, c, message) ==
  \/ message.type = "Heartbeat" /\ HandleHeartbeat(a, c, message, 0)
  \/ message.type = "ModeReady" /\ HandleModeReady(a, c, message)
  \/ message.type = "ModeRejected" /\ HandleModeRejected(a, c, message)
  \/ message.type = "ModeCommitted" /\ HandleModeCommitted(a, c, message, 0)
  \/ IsLate(a, message) /\ UNCHANGED vars

Handles(s) ==
  /\ stage[s] = "registered"
  /\ up[s] # << >> /\ ~IsError(s, Head(up[s]))
  /\ HandleMessage(identity[s].app, identity[s].id, Head(up[s]))
  /\ Drained(s)
  /\ UNCHANGED <<sessionVars, down>>

Refuses(s) ==
  /\ up[s] # << >> /\ IsError(s, Head(up[s]))
  /\ Break(s)
  /\ Unread(s)
  /\ UNCHANGED down

\* The peer is gone: all it wrote has been read, or a write fails.
SeesEnd(s) ==
  /\ holder[s] = {}
  /\ up[s] = << >> \/ Outgoing(s) # << >>
  /\ Break(s)
  /\ Unread(s)
  /\ UNCHANGED down

\* The peer is gone before all of its registration is read.
Misses(s) ==
  /\ holder[s] = {}
  /\ EndUnregistered(s)
  /\ Unread(s)
  /\ UNCHANGED down

Ends(s) ==
  /\ Replaced(s) \/ Teardown(s, 0)
  /\ Unread(s)
  /\ UNCHANGED down

ServerStep(s) ==
  /\ UNCHANGED <<runtime, holder>>
  /\ \/ Registers(s) \/ Misses(s)
     \/ Delivers(s) \/ Handles(s)
     \/ Refuses(s) \/ SeesEnd(s) \/ Ends(s)

-----------------------------------------------------------------------------
\* DemoHandler::prepare_mode: its verdict, and what is left of its flags.

Prepares(h, m) == ~(m = "Working" /\ h \in {"rejects", "rejectsOnce"})

\* Fault: the flag of one rejection is never cleared.
AfterPrepare_StillRejects(h, m) == h

AfterPrepare(h, m) == IF m = "Working" /\ h = "rejectsOnce" THEN "agrees" ELSE h

-----------------------------------------------------------------------------
\* The application's process

MoveTo(a, place) == runtime' = [runtime EXCEPT ![a].at = place]

Runs(a, m, h) ==
  runtime' = [runtime EXCEPT ![a] =
    [@ EXCEPT !.at = "running", !.mode = m, !.handler = h, !.reported = FALSE]]

LetGo(s) ==
  /\ holder' = [holder EXCEPT ![s] = {}]
  /\ down' = [down EXCEPT ![s] = << >>]

\* The process ends, its connections are closed for it, and another may follow.
Becomes(a, process) ==
  /\ runtime' = [runtime EXCEPT ![a] = process]
  /\ holder' = [s \in Session |-> holder[s] \ {a}]
  /\ down' = [s \in Session |-> IF a \in holder[s] THEN << >> ELSE down[s]]

\* SAM takes no message more from this connection: what is written is lost, or
\* is swallowed with what an out-of-step session takes for the rest of a frame.
Deaf(s) == stage[s] \in {"closing", "ended"} \/ OutOfStep(s)

\* Fault: messages are buffered without limit.
CanWrite_Unbounded(s) == TRUE

CanWrite(s) == Deaf(s) \/ Len(up[s]) < Transit

Write(s, message) == up' = IF Deaf(s) THEN up ELSE [up EXCEPT ![s] = Append(@, message)]

Connect(a, s) ==
  /\ runtime[a].at = "idle"
  /\ Accept(s)
  /\ runtime' = [runtime EXCEPT ![a] = [@ EXCEPT !.at = "registering", !.session = s]]
  /\ holder' = [holder EXCEPT ![s] = {a}]
  /\ up' = [up EXCEPT ![s] = <<RegisterMessage(a)>>]
  /\ UNCHANGED down

\* synchronize_mode.  A failed reconciliation ends run, and with it the process.
Synchronize(a, s, m) ==
  LET h == runtime[a].handler
      needed == runtime[a].mode # m
  IN  \/ /\ needed => Prepares(h, m)
         /\ Runs(a, m, h)
         /\ down' = [down EXCEPT ![s] = Tail(@)]
         /\ UNCHANGED holder
      \/ /\ needed /\ (~Prepares(h, m) \/ h = "faulty")
         /\ Becomes(a, NotStarted)

ReceivesRegistration(a, s) ==
  /\ InSession(a, s) /\ runtime[a].at = "registering"
  /\ down[s] # << >> /\ Head(down[s]).type = "RegisterAccepted"
  /\ Synchronize(a, s, Head(down[s]).mode)
  /\ UNCHANGED <<sessionVars, up>>

\* The end of the connection instead of an answer.
RegistrationEnds(a, s) ==
  /\ InSession(a, s) /\ runtime[a].at = "registering"
  /\ down[s] = << >> /\ stage[s] = "ended"
  /\ MoveTo(a, "idle") /\ LetGo(s)
  /\ UNCHANGED <<sessionVars, up>>

\* Fault: the mode is read once, before the loop that sends heartbeats.
Beats_OneMode(a, s) ==
  /\ Running(a, s) /\ ~runtime[a].reported
  /\ CanWrite(s)
  /\ \E h \in ReportedHealth : Write(s, Heartbeat(a, h, "Startup"))
  /\ runtime' = [runtime EXCEPT ![a].reported = TRUE]
  /\ UNCHANGED <<sessionVars, holder, down>>

\* Heartbeats go on; those after the first in a mode tell SAM nothing new.
Beats(a, s) ==
  /\ Running(a, s) /\ ~runtime[a].reported
  /\ CanWrite(s)
  /\ \E h \in ReportedHealth : Write(s, Heartbeat(a, h, runtime[a].mode))
  /\ runtime' = [runtime EXCEPT ![a].reported = TRUE]
  /\ UNCHANGED <<sessionVars, holder, down>>

\* Fault: the mode is applied as soon as the application is prepared for it.
Prepare_AppliesAtOnce(a, s, message) ==
  LET h == runtime[a].handler
      m == message.mode
  IN  /\ message.type = "PrepareMode"
      /\ Write(s, IF Prepares(h, m) THEN ModeReady(a, message.id) ELSE ModeRejected(a, message.id))
      /\ runtime' = [runtime EXCEPT ![a] =
           [@ EXCEPT !.handler = AfterPrepare(h, m), !.mode = IF Prepares(h, m) THEN m ELSE @]]

Prepare(a, s, message) ==
  LET h == runtime[a].handler
      m == message.mode
  IN  /\ message.type = "PrepareMode"
      /\ Write(s, IF Prepares(h, m) THEN ModeReady(a, message.id) ELSE ModeRejected(a, message.id))
      /\ runtime' = [runtime EXCEPT ![a].handler = AfterPrepare(h, m)]

\* Fault: a commit that fails is not confirmed, and the session goes on.
Commit_Unconfirmed(a, s, message) ==
  /\ message.type = "CommitMode"
  /\ \/ /\ Write(s, ModeCommitted(a, message.id, message.mode))
        /\ Runs(a, message.mode, runtime[a].handler)
     \/ runtime[a].handler = "faulty" /\ UNCHANGED <<up, runtime>>

\* A commit that fails ends the session, but not the connection.
Commit(a, s, message) ==
  /\ message.type = "CommitMode"
  /\ \/ /\ Write(s, ModeCommitted(a, message.id, message.mode))
        /\ Runs(a, message.mode, runtime[a].handler)
     \/ /\ runtime[a].handler = "faulty"
        /\ MoveTo(a, "idle") /\ UNCHANGED up

Answers(a, s) ==
  /\ Running(a, s) /\ CanWrite(s)
  /\ down[s] # << >>
  /\ Prepare(a, s, Head(down[s])) \/ Commit(a, s, Head(down[s]))
  /\ down' = [down EXCEPT ![s] = Tail(@)]
  /\ UNCHANGED <<sessionVars, holder>>

\* Fault: the end of the connection is taken for silence.
SessionEnds_Unnoticed(a, s) ==
  /\ FALSE
  /\ MoveTo(a, "idle") /\ LetGo(s)
  /\ UNCHANGED <<sessionVars, up>>

\* The end is read behind all messages, or a write fails before.
SessionEnds(a, s) ==
  /\ Running(a, s) /\ stage[s] = "ended"
  /\ MoveTo(a, "idle") /\ LetGo(s)
  /\ UNCHANGED <<sessionVars, up>>

\* The reader of a session that is over finds nobody to take what it reads,
\* which may be a broadcast that never shows in down.
ReaderEnds(a, s) ==
  /\ holder[s] = {a} /\ ~InSession(a, s)
  /\ LetGo(s)
  /\ UNCHANGED <<sessionVars, runtime, up>>

ClientStep(a, s) ==
  /\ UNCHANGED vars
  /\ \/ Connect(a, s) \/ ReceivesRegistration(a, s) \/ RegistrationEnds(a, s)
     \/ Beats(a, s) \/ Answers(a, s) \/ SessionEnds(a, s) \/ ReaderEnds(a, s)

-----------------------------------------------------------------------------
\* What may happen to a process or a connection at any time

\* registration_timeout of the server: Register is still not there.
Expires(s) ==
  /\ holder[s] # {}
  /\ EndUnregistered(s)
  /\ Unread(s)
  /\ UNCHANGED <<runtime, holder, down>>

Cut(s) == Cuts(s) /\ UNCHANGED <<runtime, holder>>

\* registration_timeout of the client
TimesOut(a, s) ==
  /\ InSession(a, s) /\ runtime[a].at = "registering"
  /\ down[s] = << >>
  /\ MoveTo(a, "idle") /\ LetGo(s)
  /\ UNCHANGED <<serverVars, up>>

Crash(a) ==
  /\ runtime[a].at # "off"
  /\ Becomes(a, NotStarted)
  /\ UNCHANGED <<serverVars, up>>

Launch(a, h) ==
  /\ runtime[a].at = "off"
  /\ Becomes(a, Started(h))
  /\ UNCHANGED <<serverVars, up>>

-----------------------------------------------------------------------------
\* The monitor and the operator

Monitor == RefreshHealth(0) /\ UNCHANGED <<sessionVars, clientVars>>

Command(m) ==
  /\ m \in RequestedMode
  /\ RequestMode(m)
  /\ UNCHANGED <<sessionVars, clientVars>>

SystemStep ==
  \/ \E s \in Session : ServerStep(s) \/ \E a \in App : ClientStep(a, s)
  \/ Monitor

Trouble ==
  \/ \E s \in Session : Expires(s) \/ Cut(s)
  \/ \E a \in App :
       \/ \E s \in Session : TimesOut(a, s)
       \/ Crash(a) \/ \E h \in Policy : Launch(a, h)

SystemNext ==
  \/ SystemStep
  \/ Trouble
  \/ \E m \in SystemMode : Command(m)

SystemSpec == SystemInit /\ [][SystemNext]_systemVars
=============================================================================
