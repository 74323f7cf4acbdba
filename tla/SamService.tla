------------------------------ MODULE SamService ------------------------------
(***************************************************************************)
(* sam_service::SamService: the one shared state behind a mutex, and the   *)
(* operations that the connection tasks, the health monitor and the        *)
(* operator's console call on it.  The mutex is held for the whole of each *)
(* operation and no operation awaits, so each is one action; what the      *)
(* caller did before it got the lock is its `wait', the age of its `now'   *)
(* (see ApplicationRegistry).                                              *)
(*                                                                         *)
(* A call that returns an error, a stale disconnect and a late transition  *)
(* response leave the state as it was: they are stuttering steps, and the  *)
(* conditions that let a call through are its action's guard.              *)
(***************************************************************************)
EXTENDS HealthManager, Sequences

CONSTANTS
  QueueDepth,         \* OUTBOUND_QUEUE_DEPTH of server.rs.
  MaxConnection,      \* Bound: the number of registrations.
  MaxTransition,      \* Bound: the number of accepted transition requests.
  ReportedHealth,     \* Bound: the healths that heartbeats report.
  ReportedMode,       \* Bound: the modes that messages name.
  RequestedMode       \* Bound: the modes that are requested.

ASSUME QueueAssumption == QueueDepth \in Nat \ {0}

ASSUME BoundAssumption ==
  /\ MaxConnection \in Nat
  /\ MaxTransition \in Nat
  /\ MaxTransition < IdSpace
  /\ ReportedHealth \subseteq HealthState
  /\ ReportedMode \subseteq SystemMode
  /\ RequestedMode \subseteq SystemMode

VARIABLES
  systemMode,         \* system.mode
  systemHealth,       \* system.health
  clients,            \* clients: ApplicationId -> ClientConnection
  nextConnectionId,   \* next_connection_id
  \* The fields of `modes', see ModeManager.
  phase, mode, target, transitionId, waitingFor, responded, nextTransitionId

Modes == INSTANCE ModeManager

modeVars ==
  <<phase, mode, target, transitionId, waitingFor, responded, nextTransitionId>>

vars ==
  <<applications, systemMode, systemHealth, clients, nextConnectionId, modeVars>>

ConnectionId == 1 .. MaxConnection

ClientConnection == [id : ConnectionId, outbound : Seq(SamToApplication)]

Connected == DOMAIN clients

TypeOK ==
  /\ RegistryTypeOK
  /\ Modes!TypeOK
  /\ systemMode \in SystemMode
  /\ systemHealth \in HealthState
  /\ Connected \subseteq App
  /\ clients \in [Connected -> ClientConnection]
  /\ \A a \in Connected : Len(clients[a].outbound) <= QueueDepth
  /\ nextConnectionId \in 1 .. MaxConnection + 1

Init ==
  /\ RegistryInit
  /\ Modes!New("Startup")
  /\ systemMode = "Startup"
  /\ systemHealth = "Healthy"
  /\ clients = [a \in {} |-> [id |-> 0, outbound |-> << >>]]
  /\ nextConnectionId = 1

-----------------------------------------------------------------------------
\* Helpers of service.rs

\* Fault: an unbounded queue.
Post_Unbounded(queue, m) == Append(queue, m)

\* try_send: what a full queue cannot take is dropped.
Post(queue, m) == IF Len(queue) < QueueDepth THEN Append(queue, m) ELSE queue

Broadcast(m) ==
  clients' = [a \in Connected |-> [clients[a] EXCEPT !.outbound = Post(@, m)]]

\* Fault: the broadcast is built from the health before the recalculation.
BroadcastState_Stale == Broadcast(StateBroadcast(systemMode', systemHealth))

BroadcastState == Broadcast(StateBroadcast(systemMode', systemHealth'))

BroadcastStateIfChanged ==
  IF systemHealth' # systemHealth THEN BroadcastState ELSE UNCHANGED clients

RecalculateHealth(wait) ==
  systemHealth' = RecalculatedHealth(applications', systemMode', wait)

\* Fault: any connection of a known application may speak for it.
VerifyConnection_AnyOfKnown(a, c) == a \in Known /\ c < nextConnectionId

VerifyConnection(a, c) == a \in Connected /\ clients[a].id = c

VerifyApplication(a, msg) == msg.app = a

\* A session takes `now' for a call after its previous call has returned, so
\* never before the last heartbeat it delivered or its own registration.
OwnWait(a, wait) == a \in Known /\ wait <= applications[a].age

-----------------------------------------------------------------------------
\* Connections

\* A new connection for an application replaces the one it had; the others
\* are told nothing.  The queue is the server's, fresh, so RegisterAccepted
\* always fits.
Register(a, wait) ==
  /\ nextConnectionId <= MaxConnection
  /\ nextConnectionId' = nextConnectionId + 1
  /\ RegisterStatus(a, wait)
  /\ UNCHANGED <<systemMode, modeVars>>
  /\ RecalculateHealth(wait)
  /\ clients' = [b \in Connected \cup {a} |->
       IF b = a
         THEN [id |-> nextConnectionId,
               outbound |-> <<RegisterAccepted(systemMode, systemHealth')>>]
         ELSE clients[b]]

Disconnect(a, c, wait) ==
  /\ VerifyConnection(a, c)     \* else a stale disconnect, ignored
  /\ OwnWait(a, wait)
  /\ MarkDisconnected(a)
  /\ UNCHANGED <<systemMode, nextConnectionId, modeVars>>
  /\ RecalculateHealth(wait)
  /\ clients' = [b \in Connected \ {a} |-> [clients[b] EXCEPT !.outbound =
                   Post(@, StateBroadcast(systemMode, systemHealth'))]]

-----------------------------------------------------------------------------
\* handle_message, one action for each kind of message

HandleHeartbeat(a, c, msg, wait) ==
  /\ VerifyConnection(a, c) /\ VerifyApplication(a, msg) /\ OwnWait(a, wait)
  /\ UpdateHeartbeat(a, msg.health, msg.mode, wait)
  /\ UNCHANGED <<systemMode, nextConnectionId, modeVars>>
  /\ RecalculateHealth(wait)
  /\ BroadcastStateIfChanged

HandleModeReady(a, c, msg) ==
  /\ VerifyConnection(a, c) /\ VerifyApplication(a, msg)
  /\ Modes!ApplicationReady(a, msg.id)
  /\ IF phase' = "Committing"                      \* PreparationComplete
       THEN Broadcast(CommitMode(transitionId, target))
       ELSE UNCHANGED clients
  /\ UNCHANGED <<applications, systemMode, systemHealth, nextConnectionId>>

HandleModeRejected(a, c, msg) ==
  /\ VerifyConnection(a, c) /\ VerifyApplication(a, msg)
  /\ Modes!ApplicationRejected(a, msg.id)
  /\ Broadcast(AbortMode(msg.id))
  /\ UNCHANGED <<applications, systemMode, systemHealth, nextConnectionId>>

\* Fault: the first confirmation makes the mode the system's.
HandleModeCommitted_FirstDecides(a, c, msg, wait) ==
  /\ VerifyConnection(a, c) /\ VerifyApplication(a, msg) /\ OwnWait(a, wait)
  /\ Modes!ApplicationCommitted(a, msg.id, msg.mode)
  /\ SetMode(a, msg.mode)
  /\ UNCHANGED nextConnectionId
  /\ systemMode' = msg.mode
  /\ RecalculateHealth(wait)
  /\ BroadcastState

\* Fault: the new mode is announced with the health of the old one.
HandleModeCommitted_NotRecalculated(a, c, msg, wait) ==
  /\ VerifyConnection(a, c) /\ VerifyApplication(a, msg) /\ OwnWait(a, wait)
  /\ Modes!ApplicationCommitted(a, msg.id, msg.mode)
  /\ SetMode(a, msg.mode)
  /\ UNCHANGED <<nextConnectionId, systemHealth>>
  /\ IF phase' = "Stable"
       THEN systemMode' = msg.mode /\ BroadcastState
       ELSE UNCHANGED <<systemMode, clients>>

HandleModeCommitted(a, c, msg, wait) ==
  /\ VerifyConnection(a, c) /\ VerifyApplication(a, msg) /\ OwnWait(a, wait)
  /\ Modes!ApplicationCommitted(a, msg.id, msg.mode)
  /\ SetMode(a, msg.mode)
  /\ UNCHANGED nextConnectionId
  /\ IF phase' = "Stable"                          \* TransitionComplete
       THEN /\ systemMode' = msg.mode
            /\ RecalculateHealth(wait)
            /\ BroadcastState
       ELSE UNCHANGED <<systemMode, systemHealth, clients>>

-----------------------------------------------------------------------------
\* The console, the monitor, the sessions' writers and the clock

RequestMode(m) ==
  /\ nextTransitionId <= MaxTransition
  /\ Modes!RequestTransition(m, Connected)
  /\ Broadcast(PrepareMode(nextTransitionId, m))
  /\ UNCHANGED <<applications, systemMode, systemHealth, nextConnectionId>>

RefreshHealth(wait) ==
  /\ UNCHANGED <<applications, systemMode, nextConnectionId, modeVars>>
  /\ RecalculateHealth(wait)
  /\ BroadcastStateIfChanged

\* outbound_rx.recv() in the session that holds the other end of the queue.
Take(a) ==
  /\ a \in Connected
  /\ clients[a].outbound # << >>
  /\ clients' = [clients EXCEPT ![a].outbound = Tail(@)]
  /\ UNCHANGED <<applications, systemMode, systemHealth, nextConnectionId, modeVars>>

Tick ==
  /\ GrowOlder
  /\ UNCHANGED <<systemMode, systemHealth, clients, nextConnectionId, modeVars>>

-----------------------------------------------------------------------------
Call(a, c, wait) ==
  \/ Disconnect(a, c, wait)
  \/ \E b \in App :
       \/ \E h \in ReportedHealth, m \in ReportedMode :
            HandleHeartbeat(a, c, Heartbeat(b, h, m), wait)
       \/ \E t \in 1 .. MaxTransition :
            \/ HandleModeReady(a, c, ModeReady(b, t))
            \/ HandleModeRejected(a, c, ModeRejected(b, t))
            \/ \E m \in ReportedMode :
                 HandleModeCommitted(a, c, ModeCommitted(b, t, m), wait)

Next ==
  \/ \E wait \in LockWait :
       \/ \E a \in App : Register(a, wait)
       \/ \E a \in App, c \in ConnectionId : Call(a, c, wait)
       \/ RefreshHealth(wait)
  \/ \E m \in RequestedMode : RequestMode(m)
  \/ \E a \in App : Take(a)
  \/ Tick

Spec == Init /\ [][Next]_vars

\* Time passes, and the monitor, a task of its own on a 100 ms timer
\* (server.rs:51-60), goes on calling refresh_health.  Nothing is assumed of
\* the applications or of the sessions that serve them.
Fairness ==
  /\ WF_vars(Tick)
  /\ WF_vars(\E wait \in LockWait : RefreshHealth(wait))

FairSpec == Spec /\ Fairness

-----------------------------------------------------------------------------
\* What the console shows (applications())

Synchronized(a) ==
  applications[a].connected /\ applications[a].current_mode = systemMode

EffectiveHealth(a, wait) ==
  LET base == CalculateApplication(applications[a], wait)
  IN  IF base = "Healthy" /\ ~Synchronized(a) THEN "Degraded" ELSE base

-----------------------------------------------------------------------------
\* Properties

\* The mode SAM announces is kept twice, in system.mode and inside the mode
\* manager; the two never differ between operations, whatever the order of
\* answers, aborts, disconnections and replacements.
AuthoritativeModeAgrees == systemMode = mode

\* The registry's `connected' flag and the table of clients are updated by
\* different calls (a heartbeat sets the one, only register and disconnect
\* touch the other), and yet never disagree: no message of a replaced or
\* closed connection brings an application back.
ClientsAreConnected ==
  \A a \in App : a \in Connected <=> (a \in Known /\ applications[a].connected)

\* recalculate_health is called at some places and not at others.  Still no
\* fault of an application is ever missing from the verdict on the system:
\* only silence (which the monitor looks for) and, while confirmations are
\* being collected, a lack of synchronization may go unnoticed for a while.
NoHiddenFault ==
  \A a \in Known :
    /\ ~applications[a].connected \/ applications[a].health = "Failed"
         => systemHealth = "Failed"
    /\ applications[a].health = "Degraded" \/ (phase # "Committing" /\ ~Synchronized(a))
         => systemHealth # "Healthy"

\* Conversely a verdict other than Healthy always has a cause that the console
\* shows at this very moment: none outlives what it was based on.
NoFalseAlarm ==
  /\ systemHealth = "Failed" => \E a \in Known : EffectiveHealth(a, 0) = "Failed"
  /\ systemHealth = "Degraded" => \E a \in Known : EffectiveHealth(a, 0) # "Healthy"

\* The verdict is the worst health the console shows of an application.
IsWorstShown(verdict, wait) ==
  LET shown == {EffectiveHealth(a, wait) : a \in Known}
  IN  /\ verdict = "Failed" <=> "Failed" \in shown
      /\ verdict = "Healthy" <=> shown \subseteq {"Healthy"}

\* The console's per-application healths (effective_application_health) and
\* the aggregate that SAM keeps and announces (recalculate_health) are two
\* computations of one thing: whichever operation changes the aggregate, it
\* leaves there the worst health that the console shows after it, at the same
\* `now'.
ConsoleAgreesWithAggregate ==
  [][systemHealth' # systemHealth =>
       \E wait \in LockWait : IsWorstShown(systemHealth, wait)']_vars

\* The step left the new state at the end of a's queue, or the queue was full,
\* or the step gave a a new connection (whose RegisterAccepted has the state).
ToldState(a) ==
  LET queue == clients'[a].outbound
  IN  \/ clients'[a].id # clients[a].id
      \/ Len(clients[a].outbound) = QueueDepth
      \/ queue # << >> /\ queue[Len(queue)] = StateBroadcast(systemMode', systemHealth')

\* Whenever the announced mode or health changes, every connection that was
\* there before and after the step finds the new state at the end of its queue,
\* or its queue was full.  Registrations are excepted: register() recalculates
\* the health and tells only the newcomer.
StateChangeIsTold ==
  [][(systemMode' # systemMode \/ systemHealth' # systemHealth)
       /\ nextConnectionId' = nextConnectionId =>
     \A a \in Connected \cap DOMAIN clients' : ToldState(a)]_vars

\* A heartbeat that stops arriving is noticed though nothing else happens: an
\* application that has fallen silent for good leaves the system Failed.
SilenceIsDetected ==
  \A a \in App :
    <>[](a \in Known /\ Elapsed(applications[a], MaxLockWait) > HeartbeatTimeout)
      => <>[](systemHealth = "Failed")

\* And when every application is and remains well, the system recovers.
Well(a) ==
  /\ applications[a].connected
  /\ applications[a].health = "Healthy"
  /\ applications[a].current_mode = systemMode
  /\ applications[a].age <= HeartbeatTimeout

HealthRecovers ==
  <>[](\A a \in Known : Well(a)) => <>[](systemHealth = "Healthy")

\* README.md:59-61: "an expired heartbeat changes system health to Failed and
\* triggers a state broadcast".  Whenever the system becomes Failed because of
\* nothing but heartbeats that expired, those who are connected are told.
ExpiryIsBroadcast ==
  [][(systemHealth' = "Failed" /\ systemHealth # "Failed"
        /\ \A a \in DOMAIN applications' :
             applications'[a].connected /\ applications'[a].health # "Failed") =>
     \A a \in Connected \cap DOMAIN clients' : ToldState(a)]_vars

\* mode.rs:115-116: a transition "with no one to confirm it could never
\* complete".  So whenever one is in progress, somebody it waits for is there
\* to answer.
SomeoneCanConfirm == phase # "Stable" => waitingFor \cap Connected # {}
=============================================================================
