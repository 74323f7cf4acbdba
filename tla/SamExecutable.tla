---------------------------- MODULE SamExecutable ----------------------------
(***************************************************************************)
(* apps/sam: the process around SamService and SamServer with whoever      *)
(* drives it.  Either an operator types commands, or one of the scripts of *)
(* auto_demo.rs issues them, polls what the service shows, and gives up at *)
(* a deadline.  The showcase runs under scripts/run_demo.sh, which cuts    *)
(* telemetry's power once and restores it with an interlock that refuses   *)
(* the first Working; under the operator processes crash as they like.     *)
(***************************************************************************)
EXTENDS SamSystem

CONSTANTS
  Telemetry,    \* The application that the launcher restarts, and whose process fails.
  Driver,       \* Bound: the arguments with which it is started.
  Handler,      \* Bound: its policies under the operator.
  Commanded,    \* Bound: the modes that the operator types.
  MaxCommand,   \* Bound: the operator's accepted commands.
  MaxTrouble,   \* Bound: crashes and registration timeouts, and frames dropped half-read.
  Lossy         \* Bound: the arguments with which SAM's sessions drop frames.

ASSUME ExecutableAssumption ==
  /\ Telemetry \in App
  /\ App # {Telemetry}     \* The launcher starts three.
  /\ Driver \subseteq {"console", "demo", "showcase"}
  /\ Handler \subseteq Policy
  /\ Commanded \subseteq SystemMode
  /\ MaxCommand \in 0 .. MaxTransition
  /\ MaxTrouble \in Nat
  /\ Lossy \subseteq Driver

VARIABLES
  script,     \* The arguments of main: "console", "demo" or "showcase".
  line,       \* The script's next instruction.
  outcome,    \* "running"; what the script returns: "passed", "timedOut", "failed".
  checked,    \* The script has read the mode and not yet issued the command.
  original,   \* What it read: original_mode in expect_rejected_transition.
  trouble,    \* How often a process crashed or timed out, or lost and regained power.
  cuts,       \* How often a session dropped a half-read frame.
  \* History:
  decided,    \* the modes that every participant was ready for, and the first;
  asked,      \* the connection on which each application was sent the round's message;
  timely      \* nothing went wrong so far that a script's deadline is there for.

driverVars == <<script, line, outcome, checked, original, trouble, cuts>>
historyVars == <<decided, asked, timely>>
allVars == <<systemVars, driverVars, historyVars>>

-----------------------------------------------------------------------------
\* The scripts, as sequences of what they wait for and command.

Request(m) == [do |-> "request", mode |-> m]
RequestRefused(m) == [do |-> "requestRefused", mode |-> m]
Reached(m) == [do |-> "reached", mode |-> m]
HealthIs(h) == [do |-> "health", health |-> h]
Until(what) == [do |-> what]

\* transition_to is a request, unless the mode is there already, and what follows it.

Demo ==
  <<Until("applications"),
    Request("Standby"), Reached("Standby"),
    Request("Working"), Reached("Working"),
    Request("Standby"), Reached("Standby")>>

Showcase ==
  <<Until("applications"),
    Request("Standby"), Reached("Standby"),
    Until("absent"), HealthIs("Failed"), Until("recovered"), HealthIs("Healthy"),
    RequestRefused("Working"), Until("settled"), Until("unchanged"),
    Request("Working"), Reached("Working"),
    Request("Standby"), Reached("Standby")>>

Instructions == IF script = "showcase" THEN Showcase ELSE Demo

Now == Instructions[line]

-----------------------------------------------------------------------------
\* auto_demo.rs

Active == script # "console" /\ line <= Len(Instructions)

Polls == {"applications", "reached", "absent", "recovered", "health", "settled"}

\* Fault: a rejection is concluded from the mode, not from the transition.
Holds_ModeUnchanged(i) ==
  CASE i.do = "applications" -> \A a \in App : a \in Known /\ Synchronized(a)
    [] i.do = "reached" -> systemMode = i.mode
    [] i.do = "absent" -> Telemetry \in Known /\ ~applications[Telemetry].connected
    [] i.do = "recovered" -> Telemetry \in Known /\ Synchronized(Telemetry)
    [] i.do = "health" -> systemHealth = i.health
    [] i.do = "settled" -> systemMode = original

Holds(i) ==
  CASE i.do = "applications" -> \A a \in App : a \in Known /\ Synchronized(a)
    [] i.do = "reached" -> systemMode = i.mode
    [] i.do = "absent" -> Telemetry \in Known /\ ~applications[Telemetry].connected
    [] i.do = "recovered" -> Telemetry \in Known /\ Synchronized(Telemetry)
    [] i.do = "health" -> systemHealth = i.health
    [] i.do = "settled" -> phase = "Stable"

Goto(n) ==
  /\ line' = n
  /\ outcome' = IF n > Len(Instructions) THEN "passed" ELSE "running"

Return(result) == outcome' = result /\ UNCHANGED line

Poll ==
  /\ Now.do \in Polls /\ Holds(Now)
  /\ Goto(line + 1)
  /\ UNCHANGED <<systemVars, checked, original>>

\* A poll that finds nothing is repeated, unless the deadline has passed.
GiveUp ==
  /\ Now.do \in Polls /\ ~Holds(Now)
  /\ Return("timedOut")
  /\ UNCHANGED <<systemVars, checked, original>>

\* transition_to with nothing to do.
Skip ==
  /\ Now.do = "request" /\ ~checked /\ systemMode = Now.mode
  /\ Goto(line + 2)
  /\ UNCHANGED <<systemVars, checked, original>>

\* snapshot() before request_mode(): others may take the lock in between.
Check ==
  /\ ~checked
  /\ \/ Now.do = "request" /\ systemMode # Now.mode
     \/ Now.do = "requestRefused"
  /\ checked' = TRUE
  /\ original' = systemMode
  /\ UNCHANGED <<systemVars, line, outcome>>

Issue ==
  /\ checked
  /\ checked' = FALSE
  /\ \/ Command(Now.mode) /\ Goto(line + 1)
     \/ /\ ~Modes!AcceptsRequest(Now.mode, Connected)
        /\ Return("failed") /\ UNCHANGED systemVars
  /\ UNCHANGED original

Verify ==
  /\ Now.do = "unchanged"
  /\ IF systemMode = original THEN Goto(line + 1) ELSE Return("failed")
  /\ UNCHANGED <<systemVars, checked, original>>

DriverStep ==
  /\ Active
  /\ Poll \/ GiveUp \/ Skip \/ Check \/ Issue \/ Verify
  /\ UNCHANGED <<script, trouble, cuts>>

-----------------------------------------------------------------------------
\* The operator, the launcher, and processes that fail

Operate ==
  /\ script = "console"
  /\ nextTransitionId <= MaxCommand
  /\ \E m \in Commanded : Command(m)
  /\ UNCHANGED driverVars

Fail ==
  /\ script = "console" /\ trouble + cuts < MaxTrouble
  /\ Crash(Telemetry) \/ \E s \in Session : TimesOut(Telemetry, s) \/ Expires(s)
  /\ trouble' = trouble + 1
  /\ UNCHANGED <<script, line, outcome, checked, original, cuts>>

ComeBack ==
  /\ script = "console"
  /\ \E h \in Handler : Launch(Telemetry, h)
  /\ UNCHANGED driverVars

PowerOff ==
  /\ script = "showcase" /\ trouble = 0
  /\ Crash(Telemetry)
  /\ trouble' = 1
  /\ UNCHANGED <<script, line, outcome, checked, original, cuts>>

PowerOn ==
  /\ script = "showcase" /\ trouble = 1
  /\ Launch(Telemetry, "rejectsOnce")
  /\ trouble' = 2
  /\ UNCHANGED <<script, line, outcome, checked, original, cuts>>

\* Whatever drives SAM, its sessions write while their peers do.
LoseFrame ==
  /\ script \in Lossy /\ trouble + cuts < MaxTrouble
  /\ \E s \in Session : Cut(s)
  /\ cuts' = cuts + 1
  /\ UNCHANGED <<script, line, outcome, checked, original, trouble>>

-----------------------------------------------------------------------------
ExecutableInit ==
  /\ SystemInit
  /\ script \in Driver
  /\ \A a \in App :
       runtime[a].handler \in IF script = "console" /\ a = Telemetry THEN Handler ELSE {"agrees"}
  /\ line = 1
  /\ outcome = "running"
  /\ checked = FALSE
  /\ original = "Startup"
  /\ trouble = 0
  /\ cuts = 0
  /\ decided = {"Startup"}
  /\ asked = [a \in App |-> 0]
  /\ timely = TRUE

\* No frame was dropped half-read so far.
Intact == cuts = 0

NeverFull == \A a \in Connected : Len(clients[a].outbound) < QueueDepth

\* The power goes when the script is done with its first transition, and comes
\* back when the script has seen telemetry absent and the system Failed.
WellTimed ==
  /\ outcome # "timedOut" /\ NeverFull /\ Intact
  /\ trouble = 1 => line >= 4
  /\ trouble = 2 => line >= 6

\* A step that opens a round sends its message to those whose queue changes.
NewRound ==
  [a \in App |-> IF a \in Connected /\ clients'[a] # clients[a] THEN clients[a].id ELSE 0]

Remember ==
  /\ decided' = IF phase' = "Committing" THEN decided \cup {target'} ELSE decided
  /\ asked' = IF phase' = phase THEN asked
              ELSE IF phase' = "Stable" THEN [a \in App |-> 0]
              ELSE NewRound
  /\ timely' = (timely /\ (script = "console" \/ WellTimed'))

\* When the script returns, main aborts the server and the process ends.
While(action) == outcome = "running" /\ action /\ Remember

Alone(step) == While(UNCHANGED driverVars /\ step)

ExecutableNext ==
  \/ Alone(SystemStep)
  \/ While(DriverStep)
  \/ While(Operate) \/ While(Fail) \/ While(ComeBack)
  \/ While(PowerOff) \/ While(PowerOn)
  \/ While(LoseFrame)

\* What goes on by itself: the tasks of SAM, the processes, the script and the
\* launcher.  Not a command, a fault or a deadline.
Progress ==
  \/ Alone(SystemStep)
  \/ While(DriverStep) /\ outcome' # "timedOut"
  \/ While(PowerOff) \/ While(PowerOn)

\* The system does not stop while any of that can go on.  This is less than
\* WF_allVars(Progress), because a fault will do for the step to come; but of
\* faults there are only so many.
ExecutableFairness == []<>(~ENABLED <<Progress>>_allVars) \/ []<><<TRUE>>_allVars

ExecutableSpec == ExecutableInit /\ [][ExecutableNext]_allVars /\ ExecutableFairness

-----------------------------------------------------------------------------
\* Properties

\* DEMO_GUIDE.md:45: "No application changes mode merely because it received a
\* request".  Whatever crashes, times out, reconnects or fails to commit, no
\* process is ever in a mode for which SAM had not every participant's consent.
UnanimousOrNobody == \A a \in App : runtime[a].mode \in decided

\* What the console shows of an application is what it is: once a heartbeat of
\* this session in this mode is handled, the registry has the process's mode,
\* and no message still to come of an earlier session takes it back.
RecordIsTrue ==
  \A a \in App, s \in Session :
    /\ Running(a, s) /\ runtime[a].reported
    /\ stage[s] = "registered" /\ up[s] = << >> /\ IsCurrent(s)
    => applications[a].current_mode = runtime[a].mode

\* DEMO_GUIDE.md:58-66: what SHOWCASE PASSED means, whenever the power goes and
\* comes back.  Telemetry was restarted and has refused once, all three modes
\* were decided, and every process is in Standby and shown as synchronized.
\* As long as no frame was dropped: an application whose last heartbeat is cut
\* is disconnected, and the poll at auto_demo.rs:214 does not look at it.
PassedMeansAll ==
  Intact /\ script = "showcase" /\ outcome = "passed" =>
    /\ trouble = 2 /\ runtime[Telemetry].handler = "agrees"
    /\ decided = SystemMode
    /\ \A a \in App : Synchronized(a) /\ runtime[a].mode = "Standby"

\* auto_demo.rs:210: a script issues a command only when SAM takes it, and the
\* transition it expects to be rejected is: with any timing it passes or times
\* out, and never ends with TransitionInProgress or an unexpected state.  As
\* long as no frame was dropped: without telemetry nobody rejects anything.
CommandsInTurn == Intact => outcome # "failed"

RoundMessage == IF phase = "Preparing" THEN "PrepareMode" ELSE "CommitMode"

\* The round's message or its answer is between SAM and the process.
InFlight(s) ==
  \/ \E q \in {Outgoing(s), down[s]} : \E i \in 1 .. Len(q) :
       q[i].type = RoundMessage /\ q[i].id = transitionId
  \/ \E i \in 1 .. Len(up[s]) :
       up[s][i].type \notin {"Register", "Heartbeat", "Fragment"} /\ up[s][i].id = transitionId

\* A transition waits for nobody in vain who is still there: as long as a
\* participant is in the session in which the round's message was queued for
\* it, the message or the answer is on its way.  (Those who are gone, or whose
\* queue was full, are waited for in vain: service.rs:154 and :437.)
AnswerIsComing ==
  phase # "Stable" => \A a \in waitingFor, s \in Session :
    /\ stage[s] = "registered" /\ IsCurrent(s) /\ InSession(a, s) /\ asked[a] = identity[s].id
    => InFlight(s) \/ OutOfStep(s)

Exhausted(a) == runtime[a].at = "idle" /\ \A s \in Session : stage[s] # "none"

IsBack(a) ==
  \/ \E s \in Session :
       Running(a, s) /\ IsCurrent(s) /\ applications[a].current_mode = runtime[a].mode
  \/ runtime[a].at = "off" \/ Exhausted(a)

\* In the end all is well.  A script passes, unless a deadline came too early,
\* the launcher was out of step with it, a full queue dropped a message or a
\* session a frame.  Then, and under the operator, every process is back in a
\* session that SAM takes for its current one, and rightly recorded, after a
\* registration that timed out, arrived late and evicted a live session, and
\* after a frame was lost (README.md:161-162: the runtime "reconnects after
\* transient transport failures").  Not so a process that was killed, nor one
\* that has no session left of the bound's.
Settles ==
  <>[](\/ outcome = "passed"
       \/ ~timely /\ outcome # "running"
       \/ (script = "console" \/ ~timely) /\ \A a \in App : IsBack(a))

\* crates/sam-demo-app/src/lib.rs:23-26: a DemoHandler with reject_working
\* "rejects any transition into SystemMode::Working".  So the process that was
\* started with --reject-working never is in that mode.
InterlockHolds ==
  \A a \in App : runtime[a].handler = "rejects" => runtime[a].mode # "Working"
=============================================================================
