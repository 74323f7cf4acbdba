# SAM: models, checks and proofs

SAM is a small service that keeps a set of local applications in one agreed
mode (`Startup`, `Standby`, `Working`) and reports one aggregated health. This
directory holds TLA+ models of it, configurations that TLC checks, and theorems
that TLAPS proves. Paths below are relative to the repository root.

Contents: [the system](#the-system) · [modules](#modules) · [runs](#runs) ·
[bounds](#bounds) · [fairness](#fairness) · [proofs](#proofs) ·
[disagreements found](#disagreements-found) · [not modelled](#not-modelled) ·
[plan](#plan)

## The system

| part | state | operations | talks to |
|---|---|---|---|
| `sam-protocol` | none | message and enum types | everybody |
| `sam-core::ModeManager` (`mode.rs`) | stable mode, or the transition in progress: its id, target, `waiting_for`, `ready`/`committed`; the next id | `request_transition`, `application_ready`, `application_rejected`, `application_committed` | called by the service |
| `sam-core::ApplicationRegistry` (`registry.rs`) | per application: reported mode and health, last heartbeat, connected | `register`, `mark_disconnected`, `update_heartbeat`, `set_mode` | called by the service |
| `sam-core::HealthManager` (`health.rs`) | none (a timeout) | `calculate`, `calculate_application` | reads the registry |
| `sam-service::SamService` (`service.rs`) | all of the above behind a mutex, the announced mode and health, the table of clients with their outbound queues | `register`, `disconnect`, `handle_message`, `request_mode`, `refresh_health`, and the console's reads | fills the sessions' queues |
| `sam-service::SamServer` (`server.rs`) | one task per connection, one monitor task | accept, registration with a timeout, a `select!` that writes outgoing and handles incoming messages, teardown | calls the service |
| `sam-transport` | the bytes of a half-read or half-written frame; the socket file | `send`, `receive`; bind, accept, connect | operating system |
| `sam-client::ApplicationRuntime` (`runtime.rs`) | the session: reader task, inbound queue of 32, heartbeat timer | connect, register, synchronize, answer prepare/commit/abort, reconnect | the server; calls a `ModeHandler` |
| `sam-demo-app` and the applications | the `ModeHandler`: a mode and two flags | its verdict on a preparation, its commit | called by the runtime |
| `apps/sam` (`main.rs`, `auto_demo.rs`) | a console, or a script with its next instruction and deadline | commands a transition, polls what the service shows, gives up | calls the service |
| `scripts/run_demo` | which processes run | starts them, cuts telemetry's power and restores it | operating system |

How they interact: a connection task registers an application with the service
and hands it the sending half of a queue of 32 messages. Every operation of the
service locks the mutex once, holds it to its end and never awaits, and speaks to
applications only by `try_send` on their queues: what a full queue cannot take
is dropped. The session's task writes what it receives from the queue to the
socket and passes what it reads from the socket to `handle_message`. The
monitor calls `refresh_health` every 100 ms. An application may reconnect under
the same name before its old session has ended; `ConnectionId`s tell them
apart.

Where it is hard: answers that arrive late, twice, from somebody who was not
asked or for an earlier transition; participants that vanish, come back or join
in the middle; the announced mode and the `connected` flag, both kept twice;
health that depends on time, on modes and on reports and is recalculated at some
places only; a `now` that grows old while its caller waits for the lock; queues
that overflow; a `select!` that cancels a read; a process that crashes, times out
or fails to commit, and comes back while its old connection is still being
taken for the current one; a socket file that outlives its process; a script
that looks at one thing after the other while the launcher acts on its own. `PROJECT.json` lists these
hazards at their lines with the properties that cover each.

What makes each part correct:

- mode manager: all or nothing. The mode moves only when everyone who was asked
  agreed and then confirmed; after the last agreement there is no way back; a
  transition never waits for nobody.
- registry and health: the verdict on the system is the worst of its
  applications', no fault is hidden, none outlives its cause, silence is noticed.
- service: its duplicated state agrees; commands and announcements follow from
  the answers; a stale session disturbs nothing; a change is announced.
- server: whoever the service takes for connected has a session that will
  disconnect it; an old session neither lingers nor harms its successor.
- client: each request is answered once, in order, on the connection it came on;
  the mode it reports is one SAM named on that connection.
- transport: the receiver gets the messages sent, whole and in order.
- listener: never two that can be reached, always one that can be while one
  runs, and only a crash leaves a file behind.
- the whole: no process is ever in a mode that not everybody asked agreed to;
  what the console shows of a process is so; in the end every process that is
  not dead is back, and the showcase passes when it should and only then.

## Modules

| module | models | correspondence |
|---|---|---|
| `SamProtocol` | `types.rs`, `messages.rs` | messages without reasons and versions, which carry no state |
| `ModeConsensus` | (abstract) | a unanimous vote: propose, agree, refuse, confirm, adopt. No phase, no counting, no ids |
| `ModeManager` | `mode.rs` | the enum `ModeManagerState` laid out flat; `AcceptsX` is the condition under which an operation returns `Ok`, the action of the same operation is that case; errors change nothing |
| `ApplicationRegistry` | `registry.rs` | the map, with `last_heartbeat` as an age |
| `HealthManager` | `health.rs`, `recalculate_health` | the verdict as an operator |
| `HealthScan` | the loop of `calculate` | the fold that the loop computes, over any order of the map |
| `SamService` | `service.rs` | one action per operation, and per message kind of `handle_message`; `clients[a].outbound` is the queue; `Take` is the session's `recv` |
| `SamServiceHistory` | the same | adds who was asked, what was answered, what was queued |
| `SamServer` | `server.rs` | `stage[s]` is how far the task of connection `s` has come, `identity[s]` what it registered as; `Forward`, `Replaced`, `Receive` and `Break` are the branches of its `select!`; `EndUnregistered` is a connection on which no acceptable registration came; `Teardown` is the `disconnect` that always follows |
| `ClientRuntime` | `runtime.rs`, the sends of `lib.rs` | one application's sessions; `reader[s]` and `held[s]` are the reader task of connection `s`, `inbound` the queue to the main loop; SAM and the `ModeHandler` are arbitrary |
| `SamSystem` | `server.rs` and `runtime.rs` with `sam-demo-app`'s `DemoHandler` between them | `up[s]` and `down[s]` are what is on its way on connection `s`; `runtime[a]` is the process of an application, `holder[s]` whose process holds the far end of `s` open; a step of `ServerStep` is a step of `SamServer` together with what it takes from or puts on the wire; `Cut` is the same with a frame lost half-read, `Fragment` what is left of it |
| `SamExecutable` | `apps/sam`, `scripts/run_demo.sh` | `Demo` and `Showcase` are the scripts as sequences of instructions, `line` the next one; `Check` and `Issue` are the two calls of a command, `snapshot` and `request_mode`, between which others may take the lock; `Operate` is the console, `Fail` and `ComeBack` what happens to processes under it, `PowerOff` and `PowerOn` the launcher |
| `LocalListener` | `unix.rs`, `windows.rs`, `connect`, the service manager of the README | `path` is whose socket the file is, `pending` each listener's pipe instance, `at[p]` how far SAM process `p` has come |
| `Framing` | `frame.rs`, the readers of `server.rs` and `runtime.rs` | bytes, with the future of `receive()` and its cancellation |
| `ModeManagerProofs`, `SamServiceProofs`, `SamServiceHistoryProofs`, `SamSystemProofs`, `SamExecutableProofs`, `ClientRuntimeProofs`, `FramingProofs`, `LocalListenerProofs` | | theorems about the module each is named after; `SamSystemProofs` has those about `SamServer`, too |
| `MC...` | | instances for TLC |

`SamService` composes the others: it EXTENDS the health manager and through it
the registry, and takes the mode manager by `Modes == INSTANCE ModeManager`, so
that an operation of the service is the conjunction of the operations it calls.
`SamServer` EXTENDS `SamService`: a step of a session is the service's operation
with the session's own application and connection id. `SamSystem` EXTENDS
`SamServer` and gives each connection the process at its other end;
`SamExecutable` EXTENDS `SamSystem` with whoever drives it, and with three
history variables for its properties (`decided`, `asked`, `timely`).

Some modelling decisions deserve a word.

*Time.* The code compares `now - last_heartbeat` with a timeout. The registry
keeps the difference, an age in ticks that stops growing one tick past what any
comparison can distinguish (`AgeCap`), so the state space stays finite without
bounding how long the system runs. Callers read the clock before they wait for
the lock, so each call has a `wait`: its `now` is that many ticks old, a heartbeat
stamped with it starts at that age, and the ages it compares are younger by
that much, not below 0 (`saturating_duration_since`). A session's calls follow one
another, so its `wait` never reaches back before its previous one (`OwnWait`);
the monitor's may, by up to `MaxLockWait` ticks, which allows slightly more
than the code.

*Errors.* A call that returns an error, a stale disconnect and a late answer
leave the state alone; they are stuttering steps. What the server then does with
the error (it ends the session, which calls `disconnect`) is a later step:
`Break` and `Teardown` in `SamServer`, allowed at any time.

*Messages.* In `SamService` an application may send any message at any time, in
its own or another's name: the service's properties assume nothing of clients.
In `SamServer` the peers are as free, but a message that `verify_application`
would refuse is a `Break`. In `ClientRuntime` it is SAM that is free. In
`SamSystem` nobody is: each end does what its code does with what the other
sent.

*One FIFO instead of a pipeline.* Between `ClientRuntime`'s main loop and its
socket are a reader task and a queue. `SamSystem` keeps one sequence per
connection and direction in their place; `RequestsInStep` and `EndIsNoticed`, on
the finer model, are the reason for the direction towards the client: what comes
out is what went in, in order, up to the end. State broadcasts and aborts vanish
where they are written, because the `DemoHandler` answers neither and neither
changes its mode. A writer waits when `Transit` messages are under way; a message
to a connection whose task has ended is lost.

*Frames cut in SAM's sessions.* Towards SAM there is no such task: the session
reads inside its `select!`, and when it takes an outgoing message while a frame is
half read, what it has read is gone (`Framing`, run `FramingServer`). `SamSystem`
has this step, too (`Cuts`), at any time when the session writes and a frame is on
its way, be it a message of `up` or a heartbeat that only repeats the last. From
then on the session is out of step (`OutOfStep`): it takes its next length from the
middle of a frame, then finds a length over the limit or bytes that do not
decode, and ends with an error (`Refuses`). What the process writes until then is
swallowed (`Deaf`). Two things are simplified. That the bytes out of step never
happen to decode to a message: an id, a mode and a name would have to come out
right by chance. And that the session ends after a while: it may wait for as many
bytes as it took for a length, but heartbeats keep coming. Cutting is a fault that
the runs bound (`MaxTrouble`, `Lossy`) and that is never forced.

*Heartbeats in `SamSystem`.* Only the first in a mode is sent: later ones tell SAM
what it knows already (they may still be cut, see above). No time passes there; a process that is gone is noticed
by the end of its connection, and expiry is `SamService`'s subject.

*Processes that end.* `Becomes` stands for an exit, a crash or a `kill`: the
operating system closes the connections, SAM reads what had been written and then
the end (`SeesEnd`). A commit that fails ends the session only; its reader task
keeps the connection open until the next message (`ReaderEnds`), and SAM takes
the application for connected meanwhile. `ReaderEnds` may come at any time after the
session, where the code's reader waits for a message or the end: the broadcasts
that would wake it are not on the wire here, so the model allows more.

*Deadlines.* A poll of a script may give up whenever what it waits for is not
there, so the real deadline, whatever its length, is among the behaviours.
`timely` records whether anything went wrong that a deadline, or the launcher's
own timing, is there for; only liveness depends on it.

*Replaced sessions.* `register` drops the sending half of the connection it
replaces; what was queued stays readable. In `SamService` that queue is gone; in
`SamServer` it moves to `leftover[s]`, which the old session forwards before its
`recv` returns `None`.

*Reader tasks of old sessions.* The client does not abort its reader when a
session ends (`runtime.rs:214`); the task reads on until it finds that nobody
takes its message. `ClientRuntime` keeps one reader per connection for that.

## Runs

Passing:

| run | module | what it asks |
|---|---|---|
| `MCModeManager` | `MCModeManager` | three applications, ids that wrap at 4. `TransitionWellFormed`; `ImplementsConsensus` (refinement of `ModeConsensus`); `NoWayBack` |
| `ServiceHealth` | `MCSamService` | no transitions; all healths, two modes, timeout and lock wait of one tick. `NoHiddenFault`, `NoFalseAlarm`; `ConsoleAgreesWithAggregate` of every step that changes the aggregate; `ScanAgrees` in every reachable registry and order; under fairness `SilenceIsDetected` and `HealthRecovers` |
| `ServiceHistory` | `MCSamServiceHistory` | two transitions with memory: `AuthoritativeModeAgrees`, `ClientsAreConnected`, `StateChangeIsTold`, `OneVerdict`, `VerdictsAreEarned`, `ModeChangesByConsent`; and `NoHiddenFault` while confirmations move modes without a recalculation |
| `ServerSessions` | `MCSamServer` | two sessions, of two applications or of one, in the course of a transition: `ClientHasSession`, `NewestSessionCounts`; under fairness `ReplacedSessionEnds` (if the peer reads what it is sent) and `BrokenSessionLeaves` |
| `ClientSessions` | `MCClientRuntime` | two sessions of one application: `RequestsInStep`, `ReportsOnlyOrders`; under fairness `EveryRequestAnswered`, `EndIsNoticed` |
| `Framing` | `MCFraming` | a reader that may be cancelled, and one that is not (`cut` FALSE): `IntactUnlessCut`, `NothingLostAtEnd`, `AllDelivered` |
| `SamExecutable` | `MCSamExecutable` | SAM and two processes under an operator, with a process that crashes, times out or fails to commit, or a frame that is cut; under the demo; and under the showcase with its power cut: `UnanimousOrNobody`, `RecordIsTrue`, `AnswerIsComing`, `PassedMeansAll`, `CommandsInTurn`; under fairness `Settles` |
| `LocalListener` | `MCLocalListener` | three SAM processes that start, end and crash on either platform: `OneReachableListener`, `StaleOnlyByCrash`; under fairness `ClientsAreServed` |

`ServiceHealth`, `ClientSessions`, `Framing` and `SamExecutable` also check the type
invariant of their modules (`SystemTypeOK` contains the server's). Every type
invariant is proved. The runs `FramingServer`,
`ExpiryIsBroadcast`, `SomeoneCanConfirm` and `InterlockHolds` end
in a counterexample; see [disagreements found](#disagreements-found).

Every property of a passing run has a *fault*: an operator next to the
definition it replaces, named after it with a suffix (`AcceptsRejection_TooLate`),
that changes it the way a plausible mistake would. With the fault in place TLC
reports that property violated. `PROJECT.json` pairs them.

`CHECK_DEADLOCK FALSE` is set where the system really stops: a closed connection
transfers nothing more (`Framing`, `FramingServer`); a client that was refused,
or has used up its `MaxSession` connections, is done (`ClientSessions`); a
script returns and the process with it, or sessions run out (the runs of
`MCSamExecutable`).

## Bounds

| constant | value | why it is enough |
|---|---|---|
| `App` | 3 in `MCModeManager`, 1 in `ClientSessions`, 2 elsewhere | a first, a middle and a last answer; in the service, one application about which something happens and one that is told; in the system, one that fails and one that stays |
| `IdSpace` | 4, 8 in `MCSamExecutable` | stands for 2^64: ids wrap within a few transitions in `MCModeManager`; in the service `MaxTransition < IdSpace`, no wrap |
| `MaxConnection` | 3 (2 in `ServiceHealth`, `ServerSessions`, `InterlockHolds`) | both applications connected and one of them replaced or reconnected; with 2, one replaced or both connected |
| `MaxTransition` | 4 in `MCSamExecutable`; 2 in `ServiceHistory`; 1 in `ServerSessions`; 0 in `ServiceHealth` | the showcase's transitions, the rejected one included, are 4; a transition and a successor that may receive its late answers; where transitions only disturb, one |
| `MaxSession` | 3 in `MCSamExecutable`, 2 elsewhere | both applications' sessions and one that timed out, broke or was cut off; an old session and a new one of one application, or one of each; a reader that outlives its session |
| `Transit` | 1 | a writer that has to wait for the message before |
| `MaxCommand`, `Commanded` | 1, `{"Working"}` | under the operator one transition, beginning at any moment of the processes' comings and goings; the scripts command more |
| `MaxTrouble`, `Handler` | 1, `{"faulty"}` (0, `{"rejects"}` in `InterlockHolds`) | one crash, one registration timeout of the client or of SAM, or one cut frame, besides any number of failed commits and reconciliations of the process that may fail; one cut ends a session, a second would end its successor in the same way; the launcher's power cut under the showcase is not counted |
| `Lossy` | the operator (nobody in `InterlockHolds`) | who drives SAM is nothing to a session that cuts a frame; `CommandsInTurn` and `PassedMeansAll` speak of executions without a cut |
| `Driver` | all three (the operator in `InterlockHolds`) | the arguments `main` knows; a late joiner and a request need no script |
| `Sam`, `Client` in `LocalListener` | 3 and 2 processes | one that left something behind, one that finds it, one that comes meanwhile; two clients that want the same pipe instance |
| `MaxTold` | 3 | the acceptance and two requests, or a request and the end |
| `QueueDepth`, `InboundDepth` | 1 (`QueueDepth` 2 in `MCSamExecutable`) | 32 in the code; a queue of one is full after the first message, so every message meets both a full queue and one with room; with 2 the acceptance and a command fit, and a third message does not |
| `HeartbeatTimeout`, `MaxLockWait` | 1 and 1 in `ServiceHealth` and `ExpiryIsBroadcast`, 0 and 0 elsewhere | below, at and above the timeout, with a fresh and a stale `now` |
| `ReportedHealth`, `ReportedMode`, `RequestedMode` | up to all healths and two modes | the code compares modes for equality only, so one to be in and another to go to suffice |
| `Announced`, `Message` | one mode; a prepare, a commit and an abort of one transition | a mode to be reconciled with that is not the one ordered later; each kind of request and a notice |
| `HeaderSize`, `PayloadSize`, `MaxFrameSize`, `PipeCapacity` | 4, <<1, 4, 3, 0>>, 3, 3 | a payload inside, over and at the limit and an empty one; frames larger than the pipe |

`SYMMETRY` over the applications is used where only invariants and action
properties are checked: no definition singles out an application.

`ServiceHistory` leaves out the clock (silence plays no part in it), and so does
`SamExecutable`.

## Fairness

`SamService!Fairness`: time passes, and the monitor's `refresh_health` is called
again and again. The monitor is a task of its own on a 100 ms timer
(`server.rs:50-60`), it does not wait for any connection, and the mutex is never
held across an await. Nothing is assumed of applications, sessions or the
operator; in particular nobody need ever answer, so the runs claim nothing about
the end of a transition.

`SamServer!SessionFairness`: a session's task is polled while it can go on, and its
peer reads what it is sent. The first is Tokio's; the second is an assumption
about the peer, since `send` waits for a peer that does not read. Nothing
is assumed of what the peer sends: a session that is neither broken nor replaced
may wait for ever.

`ClientRuntime!Fairness`: the reader tasks and the main loop go on while they can,
the registration is answered or times out, and the handler's callbacks return.
`select!` chooses among ready branches at random, so a busy heartbeat timer does
not starve the queue. SAM may send what it likes, or nothing, and nobody need
reconnect; but it is assumed to go on reading, so that no write blocks for ever
(see [not modelled](#not-modelled)).

`Framing!Fairness`: each end goes on while it can. Neither the end of the sender
nor the cancellation of a read is ever forced.

`SamExecutable!ExecutableFairness`: the system does not stop while anything can go on
by itself (`Progress`), be it a task of SAM, a process, the script or the launcher. That
is less than weak fairness of `Progress`, let alone of each task, because any step will
do. It is enough because every step uses something up (a message, a connection, a line
of the script, a fault of the bound's), so none can go on for ever at the expense of
another. Commands, crashes, timeouts, restarts under the operator, cut frames and a
script's giving up are never forced.

`LocalListener!Fairness`: the accept loop accepts, a process that is ending
ends, and the runtime goes on connecting (`runtime.rs` retries after its reconnect
delay). Whether a process is started, crashes or is cleaned up after is left
open. That a given client's `Open` is weakly fair is enough on Unix, where the
socket's backlog takes everybody, and on Windows because there the instance is
armed again by every accept and an accepted client no longer competes.

## Proofs

The proofs are for every value of the constants, from the assumptions named in
the modules (`IdSpaceAssumption`, `TimeAssumption`, `QueueAssumption`,
`BoundAssumption`, `HistoryAssumption`, `SessionAssumption`, `SystemAssumption`,
`ExecutableAssumption`, `NobodyAssumption`, `ClientAssumption`,
`FramingAssumption`), which only give the constants their types, a queue at least
one place, and fewer transitions than ids (`HistoryAssumption`,
`SystemAssumption`: no id wraps, so that an id names one transition).
`ExecutableAssumption` has an application besides telemetry (`run_demo.sh` starts
three).
`FramingAssumption` also lets at most one message be empty: every message of the
system is an enum and has at least the byte of its variant, and of two empty ones
nobody could say which was received.

The modules form a chain, ExecutableSpec => SystemSpec => ServerSpec => Spec of
the service => Spec of the mode manager, and each implication is a theorem
(`ExecutableIsSystem`, `SystemUsesServer`, `ServerUsesService`,
`ServiceRunsManager`). So what is proved of a part holds of it inside every larger
composition, down to the unanimous vote of `ModeConsensus`.

`ModeManagerProofs`:

- `Correct`: `Spec => [](TypeOK /\ TransitionWellFormed)`. The two together are
  inductive (`IInv`). The conjunct that matters is `waitingFor # {}` while a
  transition runs: an answer is accepted only from a member of `waitingFor`, and
  when it is the only member the same step leaves the phase, either to the
  commit, waiting for everybody who is ready (among them the sender, so again
  somebody), or to `Stable`. The disjointness of `waitingFor` and `responded` is
  what makes a vote well defined below.
- `Committed`: `Spec => NoWayBack`, one case per action; no invariant is needed,
  because the guards of the other actions demand another phase.
- `Refinement`: `Spec => ImplementsConsensus`. `VoteOf` reads a vote off the two
  sets and the phase. Each accepted answer is one step of the vote: ready is
  `Agree` (also when it is the last and relabels both sets), rejected is `Refuse`
  (`waitingFor # {}` provides the application that has yet to agree), committed
  is `Confirm`, or `Adopt` when it is the last.

`SamServiceProofs`, with the inductive invariant `SInv`: the types, the mode
manager's own `IInv`, and `Agreement` (one mode, connected flags as the table of
clients).

- `ServiceRunsManager`: `Spec => Manager!Spec`, where `Manager` is the mode manager
  on the service's variables. Every step of the service is a step of
  the manager or leaves it alone, so the three theorems above hold inside the
  service. It is also how `IInv` is preserved.
- `TypeCorrect`: `Spec => []TypeOK`. The queues stay within their depth because
  every append goes through `Post`.
- `OneMode`: `AuthoritativeModeAgrees`. The manager's mode moves only when the last
  confirmation names its target, and that is the step that copies it.
- `ConnectionsAgree`: `ClientsAreConnected`. A message acts only if its connection
  is the current one, and then its application's flag is already set.
- `FaultsAreSeen`: `NoHiddenFault`, inductive together with `SInv`. The steps that
  recalculate the health establish it (`VerdictCoversEach`); the others change
  nothing it depends on, except a confirmation that is not the last, which
  happens while the phase is "Committing" and may cost an application its
  synchronization only then; and a rejection, which leaves "Preparing".
- `AlarmsAreTrue`: `NoFalseAlarm`. A failure seen with an old `now` is one with a
  fresh `now`, too (`FailureLasts`), so a recalculation leaves a verdict with a
  cause (`VerdictHasCause`). In between, time only makes things worse, and a
  confirmation that is not the last moves its application to the target, which
  is not the announced mode (`TransitionWellFormed`): it is out of step, as bad
  as it was.
- `ChangesAreTold`: `StateChangeIsTold`. The calls that move the announced mode
  or health are the ones that broadcast, a registration aside; `Post` puts what
  it has room for at the end (`PostTells`).
- `ConsoleAndAggregateAgree`: `ConsoleAgreesWithAggregate`. Whichever call changes the
  stored aggregate, it recalculates it (`ChangeIsRecalculation`), and what it
  stores is the worst that the console would show at that moment, in the registry
  and the mode that the call leaves behind (`WouldBeShown`). The aggregate's test of the
  modes skips who is not connected, the console's does not; that comes to the same
  because such a client has failed in either (`ConsoleAgrees`).
- `ScanIsRight`: `ScanAgrees`, in every order of the map. The fold is defined by a
  recursive function, whose existence is shown by writing it down: `VerdictOf`, the
  verdict on the entries seen so far. That every such function has its value is the
  induction over the entries, by the least length at which it had not. It needs the
  registry finite, which it is because applications enter it one at a time
  (`KnownIsFinite`, an invariant of its own: `App` need not be finite).

`SamServiceHistoryProofs`, with the inductive invariant `HInv`: `SInv`, ids handed
out in order (`IdsInOrder`), no trace of a transition that was not requested yet
(`NothingAhead`), and `RoundIsRecorded`: those who were asked for the transition in
progress are the ones it waits for and the ones who responded, nobody was
told to abort it, and each set says what the record says (ready so far, while
preparing; ready all of them and committed so far, while committing). Without
the last the properties are not inductive: the service forgets who said
ready the moment it starts to commit, and everything when it settles.

- `OutcomeIsUnique` (`OneVerdict`), `VerdictsFollowAnswers` (`VerdictsAreEarned`) and
  `Consent` (`ModeChangesByConsent`). A step that is not about a transition commands
  nothing (`ElsewhereIsSilent`: what it appends to any queue is a state); one that
  is adds at most its own command (`HeardOfBroadcast`), named by the id in
  progress. That ids do not come back (`HistoryAssumption`) is what makes the
  record of a transition final once its successor is requested.

`SamSystemProofs`, first on `SamServer`, with the inductive invariant `VInv`: `SInv`,
the sessions' types, unique connection ids (`IdsAreUnique`), a live session behind every connection
and none newer (`ConnectionsHaveSessions`), and `NewestSessionCounts`.

- `ServerUsesService`: `ServerSpec => Spec`; what is proved of the service holds for
  any number of sessions.
- `ServerTypeCorrect`, `NoStaleEntry` (`ClientHasSession`), `NewestStays`
  (`NewestSessionCounts`). Only registration and teardown matter: every other
  step keeps the set of connections and their ids (`SameIds`), and nothing about
  the sessions depends on more. Registration gives the new session the largest
  id; a teardown removes a connection only if it is the session's own, and then
  uniqueness leaves no other session of the application as new.

`SamSystemProofs`, then on `SamSystem`, with the inductive invariant `YInv`: `VInv`,
the types of what is on its way, and ids within the bound (`IdsInBound`).

- `SystemUsesServer`: `SystemSpec => ServerSpec`. `SamServer` lets a peer send any
  well-typed message with an id up to `MaxTransition`. A real process sends
  more than that on paper, any id it was ever sent; but an answer that is
  accepted has the id of the transition in progress, and that is within the
  bound. The types on the wire are needed to know that what arrives is such a
  message at all.
- `SystemHasNoStaleEntry`: `ClientHasSession` in the closed system, by that chain.
- `SystemType`: `SystemTypeOK`. What a process may take for granted about its
  connection needs three more conjuncts (`CInv`). `EndsOK`: what is on a connection
  is bounded and is there only while somebody may read it, and one that is not
  registered yet carries its registration. `OneProcess`: a process in a session
  has the connection to itself, and SAM takes the session for its.
  `AcceptanceFirst`: a process that awaits its registration finds the acceptance
  before all else, on the wire or, if nothing is there, in the queue: `register`
  puts it into a fresh one.
- What SAM records of a process (`RecordComes`): once a process has sent a heartbeat
  in its mode it is recorded in it, or that heartbeat is the last thing on its
  connection that says anything about its mode.

`SamExecutableProofs`, with the inductive invariant `EInv`.

- `ExecutableIsSystem`: `ExecutableSpec => SystemSpec`, one case for each actor.
- `Unanimous`: `ExecutableSpec => []UnanimousOrNobody`. Only a registration's
  acceptance and a `CommitMode` move a process (`ModesAreAgreed`), and each carries a
  mode. `EInv` says that every such message, in a service's queue, in what a
  replaced session has left over, or on the wire, carries a mode that was
  decided; so are the announced mode and the target of a commit. Appending,
  taking and dropping keep that (`FreeOfMore`, `FreeOfRest`); a process
  that starts is in Startup, which is decided from the beginning; and the
  decided modes only grow (`StepRemembers`).
- `RecordsAreTrue`: `RecordIsTrue`, from `RecordComes` of `SamSystemProofs`. A message
  of an earlier session cannot take the record back, because only messages of the
  current connection are heard (`IsCurrent`) and a process writes on its newest.
- `AnswersAreComing`: `AnswerIsComing`. A participant that is waited for and in the
  session the round's message was queued for has that message in the queue, on
  the wire, or has answered it on the wire (`AnswersCome`), or its session is out of
  step and about to be ended by SAM: it never falls back into step
  (`OutOfStepStays`). Otherwise every step moves the message on:
  the service queues for everybody it is going to wait for, `Forward` puts on
  the wire what it takes from the queue, a process that takes the message
  answers it or leaves the session, and SAM, when it takes the answer, no longer
  waits. Order and answer both carry the id in progress; the history variable
  `asked` says in which session a participant was asked.

- `ScriptsAreInTurn`: `ExecutableSpec => []CommandsInTurn`, with the inductive invariant
  `DInv`. The property speaks of executions in which no session has dropped a frame
  half-read so far (`Intact`); otherwise it is false (see
  [disagreements found](#disagreements-found)). `DInv` adds
  to `CInv` and `EInv` what holds in any case, `OrdersTrue` and `DriverInv`; and what
  holds as long as nothing is cut (`TInv`, `NextKeepsTInv`), `OthersStay`,
  `TelemetryReturns` and `InTurn`, which is `CommandsInTurn`
  with the position of the script it follows from:
  - `OrdersTrue`. Every order carries an id that was given out, with the mode that
    belongs to it, and so does every answer. An answer to an earlier round, or
    one made up, cannot move this one.
  - `OthersStay`. A process other than telemetry, which refuses nothing, is
    connected for good from its registration on (`Stays`): its side of a
    connection and SAM's agree (`Faithful`), so SAM takes nobody else for it and
    it never has cause to leave. So there is always somebody to ask, and no
    request is refused for want of participants.
  - `DriverInv`. A round is open only while the script waits for its end: at an
    instruction "settled", or at "reached" with the target of the round. A round
    that is rejected leaves its mode behind, and the script waits at "reached"
    until its deadline; it never goes on to a command. From the first
    transition to the refusal the mode is Standby, which is `original`.
  - `TelemetryReturns`, up to the end of the round that is to be refused. Nothing
    asks for Working, or decided on it, but that round (`EarlyOrders`). Telemetry
    is as it was started, is off, or was started with the interlock, and the
    interlock is used up by that round only (`Powered`). SAM takes for telemetry
    what is telemetry, except for one thing, which is what makes this proof long:
    a `Register` that was written before the power cut and is handled after it
    (`Leftover`). Then SAM has seen no disconnect, so the script still waits for
    "absent"; when SAM has, every registration to come is the new process's
    (`Returned`). And in the round telemetry is asked, and what it answers first
    is a refusal (`Refused`): on its current connection no agreement is on the
    way before the rejection, so the round cannot become a commit.

  The lemmas go by operation: what a step does that cuts no power (`Regular`,
  `StaysOn`), who is connected after it (`NextKeepsReturned`, `IsBackOn`), how the
  round begins and goes on (`RefusalBegins`, `RefusalLasts`), and each line of the
  scripts (`ScriptSteps`, `DriverMoves`, `NextKeepsDriver`). `ExecutableAssumption`
  asks that telemetry not be the only application; `run_demo.sh` starts it with
  two others. Were it alone, a request while it is off would have no participants.

- `ShowcaseMeansAll`: `ExecutableSpec => []PassedMeansAll`, with the inductive invariant
  `PInv`: as long as nothing is cut, `AInv`, which adds to `TInv`:
  - `NothingPremature`. While a round is being prepared nothing anywhere commits it or
    confirms it.
  - `RejectedOnce`. There is no rejection on any connection until telemetry's new
    process has refused: the others and the old one refuse nothing. So a round that ends without a commit (`RoundRejected`), as the
    script waits for at "settled", is evidence of that refusal.
  - `TelemetryStays`. From then on telemetry is what the others are: its process
    agrees to everything and is connected for good (`RefusalEnds`, `AllStay`).
  - `Seen`. The mode is Working when the script asks for the last transition, and
    Working was decided.
  - `FinalRound`. In the last round everybody takes part (`RoundKeepsCrowd`), and each
    process is served in one session to the end of it (`SessionHolds`). `Closing`
    goes along that session's queues: behind the round's commit there is no commit
    to another mode, in SAM's queue or on the wire, and behind the round's
    confirmation there is no heartbeat of an earlier mode; a mark in one queue
    vouches for everything that comes after it, the queues behind it and the
    process in between included (`Clears`). So a process whose confirmation
    SAM has counted is in Standby, is recorded in it, and nothing on its way changes
    either (`Arrived`). The last confirmation makes that true of all
    (`LastConfirms`), and it remains so until the poll (`ArrivedLasts`).

  That the recorded mode is right at that moment needs the order of the queues: a late
  heartbeat of Working would undo what the confirmation recorded, and an old
  `CommitMode` would undo the mode. The lemmas go by what a step does to a session that
  goes on: SAM takes from its queue, hears, the process goes on, or both wait
  (`ServedMoves`, `GoesThen`, `HandledThen`).

`ClientRuntimeProofs`, with the inductive invariant `RInv`.

- `AnswersInStep`: `RequestsInStep`. The property speaks of a concatenation of
  three sequences; the invariant speaks of each of them, because a step moves a
  message from one to the next. `Within(q, t, n)`: the messages `q` are among
  those SAM told, `t`, next to one another, and `n` of them come later. What is in
  the socket is the end of what was told; what the session's reader holds
  comes before that, and what is in its queue before that (`InPlace`). Telling
  adds at one end (`WithinMore`, `WithinBoth`), reading and handing over shift a
  message (`WithinTail`, `WithinJoined`). So the next message of the queue is the
  one after those the session got (`NextMessage`), whose number is what `Answer`
  records. `InOrder` says that the answers are to requests, in their order, and up
  to the messages got to every one. That readers of old sessions do no harm is
  in the first case of each step of a reader: it is not the session's, and the
  session's sequences stay.
- `OrdersAreReported` (`ReportsOnlyOrders`): a session begins in the mode of its
  acceptance (`Begun`), and a commit is a message that was told (`Handles`).
- `ClientType` (`TypeOK`): the queue stays within its depth because a reader holds at
  most one message and waits for room.

`FramingProofs`, with the inductive invariant `FInv`. As long as no read was cut, what
the reader, the pipe and the writer hold is one sequence of bytes. A point of it
is a number of bytes `p` of a frame `k`; `After(k, p, byte)` says which byte comes
next behind the point, and `Done(k, p, end)` that nothing does. The reader knows
its point by the bytes it took (`ReaderAt`); the first byte in the pipe, or else
what is unwritten, comes next behind it (`StreamAt`); each byte in the pipe comes
next behind the one before (`PipeInStep`), and what is unwritten behind the last
(`WriterInStep`). A step moves a byte from one part to the one before. Messages
over the limit have no bytes and are stepped over.

- `BoundariesKept` (`IntactUnlessCut`), `EndLosesNothing` (`NothingLostAtEnd`): what is
  delivered is the accepted messages before the frame the reader is in
  (`DeliveredTo`), and with an empty pipe the reader's point is the writer's.
- `FramingType` (`TypeOK`).

`LocalListenerProofs`, with the inductive invariant `LInv`: the three properties and
two more conjuncts, peers of a stream run (`PeersRun`), and what the service
manager confirmed is still so when it removes the file (`StillStale`): nobody can
have bound the path in between, because the file is there.

- `ListenerSafe`: `OneReachableListener`.
- `CleanShutdown`: `StaleOnlyByCrash`.
- `ListenerType`: `TypeOK`.

Only model-checked:

- The liveness properties (`AllDelivered`, `BrokenSessionLeaves`, `ClientsAreServed`,
  `EndIsNoticed`, `EveryRequestAnswered`, `HealthRecovers`, `ReplacedSessionEnds`,
  `Settles`, `SilenceIsDetected`), which are beyond the prover.

## Disagreements found

- **A frame read in part is lost in the server** (run `FramingServer`,
  `server.rs:168`). The session's `select!` drops `reader.receive()` when an
  outgoing message is taken first. `read_exact` then loses the bytes it had
  consumed, and the next `receive()` takes its length from the middle of the
  stream. `frame.rs:12-14` promises that message boundaries survive. The client,
  which reads in a task of its own, is unaffected (`IntactUnlessCut`).
- **An expiry nobody is told of** (run `ExpiryIsBroadcast`, `service.rs:113`).
  `register` recalculates the health and tells only the newcomer. If that is what
  notices an expired heartbeat, the monitor afterwards sees no change.
  `README.md:59-61` says an expired heartbeat triggers a broadcast.
- **A transition that waits for nobody who is there** (run `SomeoneCanConfirm`,
  `service.rs:154`). A disconnect leaves the mode manager alone; the
  transition goes on waiting and every later request is refused, although
  `request_transition` refuses to start such a transition (`mode.rs:115-116`).
- **An interlock that is never asked** (run `InterlockHolds`, `service.rs:223`).
  `CommitMode` goes to all clients, those included that registered while others
  were preparing; the runtime commits whatever it is sent. So a `DemoHandler`
  with `reject_working`, which according to its comment "rejects any transition
  into `SystemMode::Working`" (`sam-demo-app/src/lib.rs:23-26`), ends up in
  Working. `runtime.rs:37-40` also speaks of a mode the application "already
  agreed was ready".

Noticed on the way, without a run of their own:

- A cut frame (the first of these disagreements) ends its session, and the application is out
  of the system until it reconnects. If that is telemetry between its return and
  the showcase's request for Working, for instance because the broadcast that says
  Healthy cuts its heartbeat, nobody is left to refuse: Working is committed and the
  script ends with `UnexpectedState` at `auto_demo.rs:251-254`, though
  `DEMO_GUIDE.md:50-52` says that telemetry's rejection aborts Working for the entire
  system. If the frame is an answer, its transition waits for ever; if it is a
  heartbeat before the last poll, the script passes with an application not
  connected. This is why `CommandsInTurn` and `PassedMeansAll` have `Intact` as a
  premise (without it TLC finds the script fail when `Lossy` is
  `{"showcase"}`), why `AnswerIsComing` excepts sessions that are out of step, and why
  `Settles` lets a script that met a cut run into its deadline.

- A participant that confirmed a commit and reconnects before the last
  confirmation is reconciled with the old mode, and its confirmation still
  counts: the transition completes with that application in the old mode. It is
  then shown as not synchronized (`RecordIsTrue`), against `DEMO_GUIDE.md:65` and
  `README.md:163-168`.
- `register` records `Startup` for an application that has not yet reported a mode
  (`registry.rs:24-31`), so that it is shown as synchronized while SAM is in
  `Startup`.
- The comment on `run` names fewer terminal errors than the code has
  (`runtime.rs:125-128`, `:134`: `InitialSynchronizationFailed`).
- `main` handles no signal, so `run_demo.sh`'s cleanup leaves the socket file
  behind; `LocalListener` counts a signal as a crash for that reason.

## Not modelled

The write that blocks on a full socket (`server.rs:172`, `runtime.rs:210-213`): a
session that writes reads nothing meanwhile, nor does the client's main loop, so
all four could wait for each other. It takes both socket buffers and both queues
full at once: with `select!` choosing at random between writing and reading,
thousands of choices in a row that favour writing. A model with buffers of one
message would reach that state in a few steps and say nothing about the program.

Of the launch scripts, everything but telemetry's power loss and restart: building,
process ids, arguments, logs. Of the executables, argument parsing and what is
printed. The wording of logs, reasons and errors, the version check's constant
and Postcard's encoding. The failure of `try_send` inside `register` cannot happen
with the only caller there is, which passes a fresh queue. A poisoned mutex
(`StateUnavailable`) needs a panic inside an operation, of which there is none.
`ModeHandler::synchronize_mode` is modelled as its default; an implementation that
overrides it is not. `SamClient` used without splitting it, which nothing but its
tests does, sends the same messages over the same connection.

## Plan

Every component is modelled as far as [not modelled](#not-modelled) says, and every
invariant and action property that a passing run checks is a theorem, too. What is left is
beyond the prover: the liveness properties above, which stay with TLC.
