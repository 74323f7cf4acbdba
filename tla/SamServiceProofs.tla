--------------------------- MODULE SamServiceProofs ---------------------------
(***************************************************************************)
(* SamService, for every set of applications, every timeout and every      *)
(* queue depth: what it does to its mode manager is what ModeManager       *)
(* specifies, so that the theorems about the manager hold in the service;  *)
(* type correctness; the agreement of the state it keeps twice; and what   *)
(* the loop over the applications computes.                                *)
(***************************************************************************)
EXTENDS SamService, HealthScan, TLAPS, WellFoundedInduction, FiniteSetTheorems

Manager == INSTANCE ModeManagerProofs

-----------------------------------------------------------------------------
\* Operators

LEMMA TransitionIds == 1 .. MaxTransition \subseteq TransitionId
BY IdSpaceAssumption, BoundAssumption, SMT DEF TransitionId

LEMMA MessageTypes ==
  /\ \A m \in SystemMode, h \in HealthState :
       StateBroadcast(m, h) \in SamToApplication /\ RegisterAccepted(m, h) \in SamToApplication
  /\ \A t \in TransitionId, m \in SystemMode :
       PrepareMode(t, m) \in SamToApplication /\ CommitMode(t, m) \in SamToApplication
  /\ \A t \in TransitionId : AbortMode(t) \in SamToApplication
BY DEF StateBroadcast, RegisterAccepted, PrepareMode, CommitMode, AbortMode, SamToApplication

LEMMA HealthType ==
  ASSUME NEW apps, NEW m, NEW wait
  PROVE  RecalculatedHealth(apps, m, wait) \in HealthState
BY DEF RecalculatedHealth, Calculate, HealthState

\* A message more, if there is room for it.
LEMMA PostType ==
  ASSUME NEW queue \in Seq(SamToApplication), Len(queue) <= QueueDepth,
         NEW m \in SamToApplication
  PROVE  Post(queue, m) \in Seq(SamToApplication) /\ Len(Post(queue, m)) <= QueueDepth
<1>1. CASE Len(queue) < QueueDepth
  BY <1>1, QueueAssumption, SMT DEF Post
<1>2. CASE ~(Len(queue) < QueueDepth)
  BY <1>2 DEF Post
<1> QED
  BY <1>1, <1>2

\* The part of the type invariant that is about the table of clients.
ClientsTypeOK ==
  /\ Connected \subseteq App
  /\ clients \in [Connected -> ClientConnection]
  /\ \A a \in Connected : Len(clients[a].outbound) <= QueueDepth

\* A broadcast changes the queues and nothing else of the table.
LEMMA BroadcastType ==
  ASSUME ClientsTypeOK, NEW m \in SamToApplication, Broadcast(m)
  PROVE  ClientsTypeOK' /\ Connected' = Connected
<1>1. ASSUME NEW a \in Connected
      PROVE  /\ [clients[a] EXCEPT !.outbound = Post(@, m)] \in ClientConnection
             /\ Len(Post(clients[a].outbound, m)) <= QueueDepth
  <2>1. clients[a] \in ClientConnection /\ Len(clients[a].outbound) <= QueueDepth
    BY <1>1 DEF ClientsTypeOK
  <2>2. clients[a].outbound \in Seq(SamToApplication)
    BY <2>1 DEF ClientConnection
  <2> QED
    BY <2>1, <2>2, PostType DEF ClientConnection
<1>2. clients' = [a \in Connected |-> [clients[a] EXCEPT !.outbound = Post(@, m)]]
  BY DEF Broadcast
<1>3. Connected' = Connected
  BY <1>2 DEF Connected
<1>4. \A a \in Connected : clients'[a].outbound = Post(clients[a].outbound, m)
  BY <1>2 DEF ClientsTypeOK, ClientConnection
<1> QED
  BY <1>1, <1>2, <1>3, <1>4 DEF ClientsTypeOK

\* And so do the broadcasts of the state, whether or not there is one.
LEMMA StateBroadcastType ==
  ASSUME ClientsTypeOK, systemMode' \in SystemMode, systemHealth' \in HealthState,
         BroadcastState \/ BroadcastStateIfChanged
  PROVE  ClientsTypeOK' /\ Connected' = Connected
<1>1. CASE BroadcastState
  BY <1>1, MessageTypes, BroadcastType DEF BroadcastState
<1>2. CASE UNCHANGED clients
  BY <1>2 DEF ClientsTypeOK, Connected
<1> QED
  BY <1>1, <1>2 DEF BroadcastStateIfChanged

-----------------------------------------------------------------------------
\* The invariant.  Everything in it is needed for the rest: the manager's
\* part gives a CommitMode its id, the table's part gives a request its
\* participants.

Agreement == AuthoritativeModeAgrees /\ ClientsAreConnected

ServiceTypeOK ==
  /\ RegistryTypeOK
  /\ systemMode \in SystemMode
  /\ systemHealth \in HealthState
  /\ ClientsTypeOK
  /\ nextConnectionId \in 1 .. MaxConnection + 1

SInv == ServiceTypeOK /\ Manager!IInv /\ Agreement

LEMMA InitSInv == Init => SInv
<1> SUFFICES ASSUME Init
             PROVE  SInv
  OBVIOUS
<1>1. Manager!Init
  BY DEF Init, Modes!New, Modes!NoTransition,
         Manager!Init, Manager!New, Manager!NoTransition, Manager!SystemMode
<1>2. Manager!IInv
  BY <1>1, IdSpaceAssumption, Manager!InitIInv
<1>3. Known = {} /\ Connected = {}
  BY DEF Init, RegistryInit, Known, Connected
<1>4. ServiceTypeOK
  BY <1>3, BoundAssumption
     DEF Init, RegistryInit, ServiceTypeOK, RegistryTypeOK, ClientsTypeOK, Known, Connected,
         SystemMode, HealthState
<1>5. Agreement
  BY <1>3 DEF Init, Modes!New, Agreement, AuthoritativeModeAgrees, ClientsAreConnected
<1> QED
  BY <1>2, <1>4, <1>5 DEF SInv

-----------------------------------------------------------------------------
\* What the service does to its mode manager is a step of the manager.

\* The manager's vocabulary is the service's.
LEMMA SameSets == Manager!SystemMode = SystemMode /\ Manager!TransitionId = TransitionId
BY DEF Manager!SystemMode, SystemMode, Manager!TransitionId, TransitionId

\* A request asks those who are connected.
LEMMA RequestIsManagers ==
  ASSUME SInv, NEW m \in SystemMode, RequestMode(m)
  PROVE  Manager!RequestTransition(m, Connected) /\ Connected \in SUBSET App
BY DEF RequestMode, SInv, ServiceTypeOK, ClientsTypeOK,
       Modes!RequestTransition, Manager!RequestTransition,
       Modes!AcceptsRequest, Manager!AcceptsRequest, Modes!NextId, Manager!NextId

\* Every call but the four of the mode protocol leaves the manager alone.
LEMMA CallIsManagers ==
  ASSUME SInv, NEW a \in App, NEW b \in App, NEW c, NEW wait, NEW t \in TransitionId,
         NEW m \in SystemMode,
         \/ HandleModeReady(a, c, ModeReady(b, t))
         \/ HandleModeRejected(a, c, ModeRejected(b, t))
         \/ HandleModeCommitted(a, c, ModeCommitted(b, t, m), wait)
  PROVE  Manager!Next
<1>1. CASE HandleModeReady(a, c, ModeReady(b, t))
  <2>1. Manager!ApplicationReady(a, t)
    BY <1>1 DEF HandleModeReady, ModeReady, Modes!ApplicationReady, Manager!ApplicationReady,
                Modes!AcceptsReady, Manager!AcceptsReady
  <2> QED
    BY <2>1, SameSets DEF Manager!Next
<1>2. CASE HandleModeRejected(a, c, ModeRejected(b, t))
  <2>1. Manager!ApplicationRejected(a, t)
    BY <1>2 DEF HandleModeRejected, ModeRejected,
                Modes!ApplicationRejected, Manager!ApplicationRejected,
                Modes!AcceptsRejection, Manager!AcceptsRejection,
                Modes!Settle, Manager!Settle, Modes!NoTransition, Manager!NoTransition
  <2> QED
    BY <2>1, SameSets DEF Manager!Next
<1>3. CASE HandleModeCommitted(a, c, ModeCommitted(b, t, m), wait)
  <2>1. Manager!ApplicationCommitted(a, t, m)
    BY <1>3 DEF HandleModeCommitted, ModeCommitted,
                Modes!ApplicationCommitted, Manager!ApplicationCommitted,
                Modes!AcceptsCommit, Manager!AcceptsCommit,
                Modes!Settle, Manager!Settle, Modes!NoTransition, Manager!NoTransition
  <2> QED
    BY <2>1, SameSets DEF Manager!Next
<1> QED
  BY <1>1, <1>2, <1>3

\* A step of a call, as in Next: what it may be, and with which arguments.
LEMMA ServiceSteps ==
  ASSUME Next
  PROVE  \/ \E a \in App, wait \in LockWait : Register(a, wait)
         \/ \E a \in App, c \in ConnectionId, wait \in LockWait : Disconnect(a, c, wait)
         \/ \E a \in App, b \in App, c \in ConnectionId, wait \in LockWait,
               h \in HealthState, m \in SystemMode :
              HandleHeartbeat(a, c, Heartbeat(b, h, m), wait)
         \/ \E a \in App, b \in App, c \in ConnectionId, wait \in LockWait,
               t \in TransitionId, m \in SystemMode :
              \/ HandleModeReady(a, c, ModeReady(b, t))
              \/ HandleModeRejected(a, c, ModeRejected(b, t))
              \/ HandleModeCommitted(a, c, ModeCommitted(b, t, m), wait)
         \/ \E m \in SystemMode : RequestMode(m)
         \/ \E wait \in LockWait : RefreshHealth(wait)
         \/ \E a \in App : Take(a)
         \/ Tick
<1>1. ReportedHealth \subseteq HealthState /\ ReportedMode \subseteq SystemMode
        /\ RequestedMode \subseteq SystemMode
  BY BoundAssumption
<1>2. "Startup" \in SystemMode
  BY DEF SystemMode
<1>3. ASSUME NEW a \in App, NEW c \in ConnectionId, NEW wait \in LockWait, Call(a, c, wait)
      PROVE  \/ Disconnect(a, c, wait)
             \/ \E b \in App, h \in HealthState, m \in SystemMode :
                  HandleHeartbeat(a, c, Heartbeat(b, h, m), wait)
             \/ \E b \in App, t \in TransitionId, m \in SystemMode :
                  \/ HandleModeReady(a, c, ModeReady(b, t))
                  \/ HandleModeRejected(a, c, ModeRejected(b, t))
                  \/ HandleModeCommitted(a, c, ModeCommitted(b, t, m), wait)
  BY <1>1, <1>2, <1>3, TransitionIds DEF Call
<1> QED
  BY <1>1, <1>3 DEF Next

LEMMA NextIsManagers == SInv /\ [Next]_vars => [Manager!Next]_(Manager!modeVars)
<1> SUFFICES ASSUME SInv, [Next]_vars
             PROVE  Manager!Next \/ UNCHANGED modeVars
  BY DEF modeVars, Manager!modeVars
<1>1. CASE UNCHANGED vars
  BY <1>1 DEF vars
<1>2. ASSUME NEW m \in SystemMode, RequestMode(m)
      PROVE  Manager!Next
  BY <1>2, RequestIsManagers, SameSets DEF Manager!Next
<1>3. CASE Next
  BY <1>2, <1>3, ServiceSteps, CallIsManagers
     DEF Register, Disconnect, HandleHeartbeat, RefreshHealth, Take, Tick
<1> QED
  BY <1>1, <1>3

-----------------------------------------------------------------------------
\* Type correctness, one lemma for each operation.

LEMMA RegisterKeepsType ==
  ASSUME SInv, NEW a \in App, NEW wait \in LockWait, Register(a, wait)
  PROVE  ServiceTypeOK'
<1> USE DEF SInv, ServiceTypeOK
<1>1. systemHealth' \in HealthState
  BY HealthType DEF Register, RecalculateHealth
<1>2. RegistryTypeOK'
  <2>1. NewStatus(wait) \in ApplicationStatus
    BY TimeAssumption DEF NewStatus, ApplicationStatus, SystemMode, HealthState, LockWait, AgeCap
  <2> QED
    BY <2>1 DEF Register, RegisterStatus, RegistryTypeOK, Known
<1>3. nextConnectionId \in ConnectionId /\ nextConnectionId' \in 1 .. MaxConnection + 1
  BY BoundAssumption DEF Register, ConnectionId
<1>4. ClientsTypeOK'
  <2> DEFINE fresh == [id |-> nextConnectionId,
                       outbound |-> <<RegisterAccepted(systemMode, systemHealth')>>]
  <2>1. fresh \in ClientConnection /\ Len(fresh.outbound) <= QueueDepth
    BY <1>1, <1>3, MessageTypes, QueueAssumption DEF ClientConnection
  <2>2. clients' = [b \in Connected \cup {a} |-> IF b = a THEN fresh ELSE clients[b]]
    BY DEF Register
  <2> HIDE DEF fresh
  <2> QED
    BY <2>1, <2>2 DEF ClientsTypeOK, Connected
<1> QED
  BY <1>1, <1>2, <1>3, <1>4 DEF Register

LEMMA DisconnectKeepsType ==
  ASSUME SInv, NEW a \in App, NEW c, NEW wait \in LockWait, Disconnect(a, c, wait)
  PROVE  ServiceTypeOK'
<1> USE DEF SInv, ServiceTypeOK
<1>1. systemHealth' \in HealthState
  BY HealthType DEF Disconnect, RecalculateHealth
<1>2. RegistryTypeOK'
  BY DEF Disconnect, MarkDisconnected, RegistryTypeOK, Known, ApplicationStatus
<1>3. ClientsTypeOK'
  <2> DEFINE told == StateBroadcast(systemMode, systemHealth')
  <2>1. told \in SamToApplication
    BY <1>1, MessageTypes
  <2>2. clients' = [b \in Connected \ {a} |->
                      [clients[b] EXCEPT !.outbound = Post(@, told)]]
    BY DEF Disconnect
  <2> HIDE DEF told
  <2>3. ASSUME NEW b \in Connected
        PROVE  /\ [clients[b] EXCEPT !.outbound = Post(@, told)] \in ClientConnection
               /\ [clients[b] EXCEPT !.outbound = Post(@, told)].outbound
                    = Post(clients[b].outbound, told)
               /\ Len(Post(clients[b].outbound, told)) <= QueueDepth
    BY <2>1, <2>3, PostType DEF ClientsTypeOK, ClientConnection
  <2> QED
    BY <2>2, <2>3 DEF ClientsTypeOK, Connected
<1> QED
  BY <1>1, <1>2, <1>3 DEF Disconnect

LEMMA HeartbeatKeepsType ==
  ASSUME SInv, NEW a \in App, NEW b \in App, NEW c, NEW wait \in LockWait,
         NEW h \in HealthState, NEW m \in SystemMode,
         HandleHeartbeat(a, c, Heartbeat(b, h, m), wait)
  PROVE  ServiceTypeOK' /\ Connected' = Connected
<1> USE DEF SInv, ServiceTypeOK
<1>1. systemHealth' \in HealthState
  BY HealthType DEF HandleHeartbeat, RecalculateHealth
<1>2. RegistryTypeOK'
  <2>1. wait \in 0 .. AgeCap
    BY TimeAssumption DEF LockWait, AgeCap
  <2> QED
    BY <2>1 DEF HandleHeartbeat, Heartbeat, UpdateHeartbeat, RegistryTypeOK, Known,
                ApplicationStatus
<1>3. ClientsTypeOK' /\ Connected' = Connected
  BY <1>1, StateBroadcastType DEF HandleHeartbeat
<1> QED
  BY <1>1, <1>2, <1>3 DEF HandleHeartbeat

LEMMA RefreshKeepsType ==
  ASSUME SInv, NEW wait \in LockWait, RefreshHealth(wait)
  PROVE  ServiceTypeOK' /\ Connected' = Connected
<1> USE DEF SInv, ServiceTypeOK
<1>1. systemHealth' \in HealthState
  BY HealthType DEF RefreshHealth, RecalculateHealth
<1>2. ClientsTypeOK' /\ Connected' = Connected
  BY <1>1, StateBroadcastType DEF RefreshHealth
<1> QED
  BY <1>1, <1>2 DEF RefreshHealth, RegistryTypeOK, Known

LEMMA ReadyKeepsType ==
  ASSUME SInv, NEW a \in App, NEW b \in App, NEW c, NEW t \in TransitionId,
         HandleModeReady(a, c, ModeReady(b, t))
  PROVE  ServiceTypeOK' /\ Connected' = Connected
<1> USE DEF SInv, ServiceTypeOK
<1>1. transitionId \in TransitionId /\ target \in SystemMode
  BY SameSets DEF HandleModeReady, Modes!ApplicationReady, Modes!AcceptsReady, ModeReady,
                  Manager!IInv, Manager!TypeOK
<1>2. ClientsTypeOK' /\ Connected' = Connected
  BY <1>1, MessageTypes, BroadcastType DEF HandleModeReady, ClientsTypeOK, Connected
<1> QED
  BY <1>2 DEF HandleModeReady, RegistryTypeOK, Known

LEMMA RejectedKeepsType ==
  ASSUME SInv, NEW a \in App, NEW b \in App, NEW c, NEW t \in TransitionId,
         HandleModeRejected(a, c, ModeRejected(b, t))
  PROVE  ServiceTypeOK' /\ Connected' = Connected
<1> USE DEF SInv, ServiceTypeOK
<1>1. Broadcast(AbortMode(t))
  BY DEF HandleModeRejected, ModeRejected
<1>2. ClientsTypeOK' /\ Connected' = Connected
  BY <1>1, MessageTypes, BroadcastType
<1> QED
  BY <1>2 DEF HandleModeRejected, RegistryTypeOK, Known

LEMMA CommittedKeepsType ==
  ASSUME SInv, NEW a \in App, NEW b \in App, NEW c, NEW wait, NEW t \in TransitionId,
         NEW m \in SystemMode,
         HandleModeCommitted(a, c, ModeCommitted(b, t, m), wait)
  PROVE  ServiceTypeOK' /\ Connected' = Connected
<1> USE DEF SInv, ServiceTypeOK
<1>1. RegistryTypeOK'
  BY DEF HandleModeCommitted, ModeCommitted, SetMode, RegistryTypeOK, Known, ApplicationStatus
<1>2. systemMode' \in SystemMode /\ systemHealth' \in HealthState
  BY HealthType DEF HandleModeCommitted, ModeCommitted, RecalculateHealth
<1>3. ClientsTypeOK' /\ Connected' = Connected
  BY <1>2, StateBroadcastType DEF HandleModeCommitted, ClientsTypeOK, Connected
<1> QED
  BY <1>1, <1>2, <1>3 DEF HandleModeCommitted

LEMMA RequestKeepsType ==
  ASSUME SInv, NEW m \in SystemMode, RequestMode(m)
  PROVE  ServiceTypeOK' /\ Connected' = Connected
<1> USE DEF SInv, ServiceTypeOK
<1>1. nextTransitionId \in TransitionId
  BY SameSets DEF Manager!IInv, Manager!TypeOK
<1>2. ClientsTypeOK' /\ Connected' = Connected
  BY <1>1, MessageTypes, BroadcastType DEF RequestMode
<1> QED
  BY <1>2 DEF RequestMode, RegistryTypeOK, Known

LEMMA TakeKeepsType ==
  ASSUME SInv, NEW a \in App, Take(a)
  PROVE  ServiceTypeOK' /\ Connected' = Connected
<1> USE DEF SInv, ServiceTypeOK
<1>1. clients' = [clients EXCEPT ![a].outbound = Tail(@)]
  BY DEF Take
<1>2. clients[a].outbound \in Seq(SamToApplication) /\ clients[a].outbound # << >>
  BY DEF Take, ClientsTypeOK, ClientConnection
<1>3. Tail(clients[a].outbound) \in Seq(SamToApplication)
        /\ Len(Tail(clients[a].outbound)) <= QueueDepth
  BY <1>2, QueueAssumption, SMT DEF ClientsTypeOK, Take
<1>4. [clients[a] EXCEPT !.outbound = Tail(@)] \in ClientConnection
  BY <1>3 DEF Take, ClientsTypeOK, ClientConnection
<1>5. ClientsTypeOK' /\ Connected' = Connected
  BY <1>1, <1>3, <1>4 DEF Take, ClientsTypeOK, Connected, ClientConnection
<1> QED
  BY <1>5 DEF Take, RegistryTypeOK, Known

LEMMA TickKeepsType ==
  ASSUME SInv, Tick
  PROVE  ServiceTypeOK' /\ Connected' = Connected
<1> USE DEF SInv, ServiceTypeOK
<1>1. ASSUME NEW a \in Known
      PROVE  [applications[a] EXCEPT !.age = IF @ < AgeCap THEN @ + 1 ELSE AgeCap]
               \in ApplicationStatus
  <2>1. applications[a] \in ApplicationStatus /\ AgeCap \in Nat
    BY <1>1, TimeAssumption DEF RegistryTypeOK, AgeCap
  <2>2. (IF applications[a].age < AgeCap THEN applications[a].age + 1 ELSE AgeCap) \in 0 .. AgeCap
    BY <2>1 DEF ApplicationStatus
  <2> QED
    BY <2>1, <2>2 DEF ApplicationStatus
<1>2. RegistryTypeOK'
  BY <1>1 DEF Tick, GrowOlder, RegistryTypeOK, Known
<1>3. ClientsTypeOK' /\ Connected' = Connected
  BY DEF Tick, ClientsTypeOK, Connected
<1> QED
  BY <1>2, <1>3 DEF Tick

-----------------------------------------------------------------------------
\* The agreement of what is kept twice.

\* Whatever leaves the connections and the flags alone keeps them in step.
LEMMA SameConnections ==
  ASSUME ClientsAreConnected, Connected' = Connected, Known' = Known,
         \A a \in Known : applications'[a].connected = applications[a].connected
  PROVE  ClientsAreConnected'
BY DEF ClientsAreConnected

LEMMA RegisterKeepsAgreement ==
  ASSUME SInv, NEW a \in App, NEW wait, Register(a, wait)
  PROVE  Agreement'
<1> USE DEF SInv, Agreement
<1>1. AuthoritativeModeAgrees'
  BY DEF Register, modeVars, AuthoritativeModeAgrees
<1>2. Connected' = Connected \cup {a} /\ Known' = Known \cup {a}
  BY DEF Register, RegisterStatus, Connected, Known
<1>3. \A b \in Known' : applications'[b].connected =
                          IF b = a THEN TRUE ELSE applications[b].connected
  BY DEF Register, RegisterStatus, NewStatus, Known
<1> QED
  BY <1>1, <1>2, <1>3 DEF ClientsAreConnected

LEMMA DisconnectKeepsAgreement ==
  ASSUME SInv, NEW a \in App, NEW c, NEW wait, Disconnect(a, c, wait)
  PROVE  Agreement'
<1> USE DEF SInv, Agreement
<1>1. AuthoritativeModeAgrees'
  BY DEF Disconnect, modeVars, AuthoritativeModeAgrees
<1>2. Connected' = Connected \ {a} /\ Known' = Known
  BY DEF Disconnect, MarkDisconnected, Connected, Known
<1>3. \A b \in Known : applications'[b].connected =
                         IF b = a THEN FALSE ELSE applications[b].connected
  BY DEF Disconnect, MarkDisconnected, Known, ServiceTypeOK, RegistryTypeOK, ApplicationStatus
<1> QED
  BY <1>1, <1>2, <1>3 DEF ClientsAreConnected

\* A heartbeat sets the flag; it was set already, because the connection it
\* came on was verified.
LEMMA HeartbeatKeepsAgreement ==
  ASSUME SInv, NEW a \in App, NEW b \in App, NEW c, NEW wait, NEW h, NEW m,
         HandleHeartbeat(a, c, Heartbeat(b, h, m), wait), Connected' = Connected
  PROVE  Agreement'
<1> USE DEF SInv, Agreement
<1>1. AuthoritativeModeAgrees'
  BY DEF HandleHeartbeat, modeVars, AuthoritativeModeAgrees
<1>2. applications[a].connected
  BY DEF HandleHeartbeat, VerifyConnection, ClientsAreConnected
<1>3. Known' = Known
        /\ \A d \in Known : applications'[d].connected = applications[d].connected
  BY <1>2 DEF HandleHeartbeat, UpdateHeartbeat, Known, ServiceTypeOK, RegistryTypeOK,
              ApplicationStatus
<1> QED
  BY <1>1, <1>3, SameConnections

\* The announced mode moves in the step in which the manager's does, and to
\* the same mode: the one that was just confirmed is the target.
LEMMA CommittedKeepsAgreement ==
  ASSUME SInv, NEW a \in App, NEW b \in App, NEW c, NEW wait, NEW t \in TransitionId,
         NEW m \in SystemMode,
         HandleModeCommitted(a, c, ModeCommitted(b, t, m), wait), Connected' = Connected
  PROVE  Agreement'
<1> USE DEF SInv, Agreement
<1>1. AuthoritativeModeAgrees'
  <2> USE DEF HandleModeCommitted, ModeCommitted, Modes!ApplicationCommitted,
              Modes!AcceptsCommit, AuthoritativeModeAgrees
  <2>1. CASE waitingFor = {a}
    BY <2>1 DEF Modes!Settle
  <2>2. CASE waitingFor # {a}
    BY <2>2
  <2> QED
    BY <2>1, <2>2
<1>2. Known' = Known
        /\ \A d \in Known : applications'[d].connected = applications[d].connected
  BY DEF HandleModeCommitted, SetMode, Known, ServiceTypeOK, RegistryTypeOK, ApplicationStatus
<1> QED
  BY <1>1, <1>2, SameConnections

LEMMA RejectedKeepsAgreement ==
  ASSUME SInv, NEW a \in App, NEW b \in App, NEW c, NEW t,
         HandleModeRejected(a, c, ModeRejected(b, t)), Connected' = Connected
  PROVE  Agreement'
BY SameConnections
   DEF SInv, Agreement, HandleModeRejected, Modes!ApplicationRejected, Modes!Settle,
       AuthoritativeModeAgrees, Known

LEMMA ReadyKeepsAgreement ==
  ASSUME SInv, NEW a \in App, NEW b \in App, NEW c, NEW t,
         HandleModeReady(a, c, ModeReady(b, t)), Connected' = Connected
  PROVE  Agreement'
BY SameConnections
   DEF SInv, Agreement, HandleModeReady, Modes!ApplicationReady, AuthoritativeModeAgrees, Known

LEMMA RequestKeepsAgreement ==
  ASSUME SInv, NEW m, RequestMode(m), Connected' = Connected
  PROVE  Agreement'
BY SameConnections
   DEF SInv, Agreement, RequestMode, Modes!RequestTransition, AuthoritativeModeAgrees, Known

\* The operations that touch neither.
LEMMA RestKeepsAgreement ==
  ASSUME SInv, Connected' = Connected,
         (\E wait \in LockWait : RefreshHealth(wait)) \/ (\E a \in App : Take(a)) \/ Tick
  PROVE  Agreement'
<1> USE DEF SInv, Agreement
<1>1. AuthoritativeModeAgrees'
  BY DEF RefreshHealth, Take, Tick, modeVars, AuthoritativeModeAgrees
<1>2. CASE UNCHANGED applications
  BY <1>1, <1>2, SameConnections DEF Known
<1>3. CASE Tick
  <2>1. Known' = Known
          /\ \A a \in Known : applications'[a].connected = applications[a].connected
    BY <1>3 DEF Tick, GrowOlder, Known, ServiceTypeOK, RegistryTypeOK, ApplicationStatus
  <2> QED
    BY <1>1, <2>1, SameConnections
<1> QED
  BY <1>2, <1>3 DEF RefreshHealth, Take

-----------------------------------------------------------------------------
LEMMA NextKeepsSInv == SInv /\ [Next]_vars => SInv'
<1> SUFFICES ASSUME SInv, [Next]_vars
             PROVE  SInv'
  OBVIOUS
<1>1. Manager!IInv'
  BY NextIsManagers, IdSpaceAssumption, Manager!NextKeepsIInv DEF SInv
<1>2. CASE UNCHANGED vars
  BY <1>1, <1>2
     DEF vars, modeVars, SInv, ServiceTypeOK, RegistryTypeOK, ClientsTypeOK, Known, Connected,
         Agreement, AuthoritativeModeAgrees, ClientsAreConnected
<1>3. ASSUME NEW a \in App, NEW wait \in LockWait, Register(a, wait)
      PROVE  ServiceTypeOK' /\ Agreement'
  BY <1>3, RegisterKeepsType, RegisterKeepsAgreement
<1>4. ASSUME NEW a \in App, NEW c, NEW wait \in LockWait, Disconnect(a, c, wait)
      PROVE  ServiceTypeOK' /\ Agreement'
  BY <1>4, DisconnectKeepsType, DisconnectKeepsAgreement
<1>5. ASSUME NEW a \in App, NEW b \in App, NEW c, NEW wait \in LockWait,
             NEW h \in HealthState, NEW m \in SystemMode,
             HandleHeartbeat(a, c, Heartbeat(b, h, m), wait)
      PROVE  ServiceTypeOK' /\ Agreement'
  BY <1>5, HeartbeatKeepsType, HeartbeatKeepsAgreement
<1>6. ASSUME NEW a \in App, NEW b \in App, NEW c, NEW t \in TransitionId,
             HandleModeReady(a, c, ModeReady(b, t))
      PROVE  ServiceTypeOK' /\ Agreement'
  BY <1>6, ReadyKeepsType, ReadyKeepsAgreement
<1>7. ASSUME NEW a \in App, NEW b \in App, NEW c, NEW t \in TransitionId,
             HandleModeRejected(a, c, ModeRejected(b, t))
      PROVE  ServiceTypeOK' /\ Agreement'
  BY <1>7, RejectedKeepsType, RejectedKeepsAgreement
<1>8. ASSUME NEW a \in App, NEW b \in App, NEW c, NEW wait, NEW t \in TransitionId,
             NEW m \in SystemMode, HandleModeCommitted(a, c, ModeCommitted(b, t, m), wait)
      PROVE  ServiceTypeOK' /\ Agreement'
  BY <1>8, CommittedKeepsType, CommittedKeepsAgreement
<1>9. ASSUME NEW m \in SystemMode, RequestMode(m)
      PROVE  ServiceTypeOK' /\ Agreement'
  BY <1>9, RequestKeepsType, RequestKeepsAgreement
<1>10. ASSUME (\E wait \in LockWait : RefreshHealth(wait)) \/ (\E a \in App : Take(a)) \/ Tick
       PROVE  ServiceTypeOK' /\ Agreement'
  BY <1>10, RefreshKeepsType, TakeKeepsType, TickKeepsType, RestKeepsAgreement
<1>11. CASE Next
  <2>1. ServiceTypeOK' /\ Agreement'
    BY <1>3, <1>4, <1>5, <1>6, <1>7, <1>8, <1>9, <1>10, <1>11, ServiceSteps
  <2> QED
    BY <1>1, <2>1 DEF SInv
<1> QED
  BY <1>2, <1>11

LEMMA AlwaysSInv == Spec => []SInv
BY InitSInv, NextKeepsSInv, PTL DEF Spec

\* The service is well typed, its queues never longer than QueueDepth.
THEOREM TypeCorrect == Spec => []TypeOK
<1>1. SInv => TypeOK
  BY SameSets
     DEF SInv, ServiceTypeOK, ClientsTypeOK, TypeOK, Manager!IInv, Manager!TypeOK,
         Modes!TypeOK, Modes!NoTransition, Manager!NoTransition,
         Modes!SystemMode, Modes!TransitionId, Manager!SystemMode, Manager!TransitionId
<1> QED
  BY <1>1, AlwaysSInv, PTL

\* The mode that SAM announces is the mode manager's, at all times.
THEOREM OneMode == Spec => []AuthoritativeModeAgrees
<1>1. SInv => AuthoritativeModeAgrees
  BY DEF SInv, Agreement
<1> QED
  BY <1>1, AlwaysSInv, PTL

\* The applications flagged as connected are those with a client connection:
\* no message of a replaced or closed connection brings one back.
THEOREM ConnectionsAgree == Spec => []ClientsAreConnected
<1>1. SInv => ClientsAreConnected
  BY DEF SInv, Agreement
<1> QED
  BY <1>1, AlwaysSInv, PTL

\* The service uses its mode manager as ModeManager specifies, whatever the
\* applications send; so the theorems about the manager hold inside it.
THEOREM ServiceRunsManager == Spec => Manager!Spec
<1>1. Init => Manager!Init
  BY DEF Init, Modes!New, Modes!NoTransition,
         Manager!Init, Manager!New, Manager!NoTransition, Manager!SystemMode
<1> QED
  BY <1>1, AlwaysSInv, NextIsManagers, PTL DEF Spec, Manager!Spec

-----------------------------------------------------------------------------
\* No fault is hidden.

\* What a verdict owes to each application, whatever the age of its `now'.
LEMMA VerdictCoversEach ==
  ASSUME NEW apps, NEW m, NEW wait, NEW a \in DOMAIN apps
  PROVE  LET verdict == RecalculatedHealth(apps, m, wait)
         IN  /\ ~apps[a].connected \/ apps[a].health = "Failed" => verdict = "Failed"
             /\ \/ apps[a].health = "Degraded"
                \/ ~(apps[a].connected /\ apps[a].current_mode = m)
                => verdict # "Healthy"
<1> DEFINE verdicts == {CalculateApplication(apps[b], wait) : b \in DOMAIN apps}
<1>1. CalculateApplication(apps[a], wait) \in verdicts
  OBVIOUS
<1>2. ~apps[a].connected \/ apps[a].health = "Failed" =>
        RecalculatedHealth(apps, m, wait) = "Failed"
  <2>1. ASSUME ~apps[a].connected \/ apps[a].health = "Failed"
        PROVE  "Failed" \in verdicts
    BY <1>1, <2>1 DEF CalculateApplication
  <2> QED
    BY <2>1 DEF RecalculatedHealth, Calculate
<1>3. apps[a].health = "Degraded" => RecalculatedHealth(apps, m, wait) # "Healthy"
  <2>1. ASSUME apps[a].health = "Degraded"
        PROVE  "Degraded" \in verdicts \/ "Failed" \in verdicts
    BY <1>1, <2>1 DEF CalculateApplication
  <2> QED
    BY <2>1 DEF RecalculatedHealth, Calculate
<1>4. apps[a].connected /\ apps[a].current_mode # m =>
        RecalculatedHealth(apps, m, wait) # "Healthy"
  BY DEF RecalculatedHealth, ModeMismatch
<1> QED
  BY <1>2, <1>3, <1>4

\* After a recalculation nothing is hidden, whatever was before it.
LEMMA RecalculationHidesNothing ==
  ASSUME NEW wait, RecalculateHealth(wait)
  PROVE  NoHiddenFault'
<1>1. ASSUME NEW a \in Known'
      PROVE  /\ ~applications'[a].connected \/ applications'[a].health = "Failed"
                  => systemHealth' = "Failed"
             /\ \/ applications'[a].health = "Degraded"
                \/ ~(applications'[a].connected /\ applications'[a].current_mode = systemMode')
                => systemHealth' # "Healthy"
  BY <1>1, VerdictCoversEach DEF RecalculateHealth, Known
<1> QED
  BY <1>1 DEF NoHiddenFault, Synchronized

\* The operations that do not recalculate change nothing that matters, or
\* only the mode of an application while confirmations are being collected.
LEMMA NextHidesNothing == SInv /\ NoHiddenFault /\ [Next]_vars => NoHiddenFault'
<1> SUFFICES ASSUME SInv, NoHiddenFault, [Next]_vars
             PROVE  NoHiddenFault'
  OBVIOUS
<1> USE DEF NoHiddenFault, Synchronized
<1>1. ASSUME UNCHANGED <<applications, systemMode, systemHealth>>,
             phase = "Committing" => phase' = "Committing"
      PROVE  NoHiddenFault'
  BY <1>1 DEF Known
<1>2. CASE UNCHANGED vars
  BY <1>1, <1>2 DEF vars, modeVars
<1>3. CASE \E a \in App, wait \in LockWait : Register(a, wait)
  BY <1>3, RecalculationHidesNothing DEF Register
<1>4. CASE \E a \in App, c \in ConnectionId, wait \in LockWait : Disconnect(a, c, wait)
  BY <1>4, RecalculationHidesNothing DEF Disconnect
<1>5. CASE \E a \in App, b \in App, c \in ConnectionId, wait \in LockWait,
             h \in HealthState, m \in SystemMode :
            HandleHeartbeat(a, c, Heartbeat(b, h, m), wait)
  BY <1>5, RecalculationHidesNothing DEF HandleHeartbeat
<1>6. ASSUME NEW a \in App, NEW b \in App, NEW c, NEW t \in TransitionId,
             HandleModeReady(a, c, ModeReady(b, t)) \/ HandleModeRejected(a, c, ModeRejected(b, t))
      PROVE  NoHiddenFault'
  BY <1>1, <1>6 DEF HandleModeReady, Modes!ApplicationReady, Modes!AcceptsReady,
                    HandleModeRejected, Modes!ApplicationRejected, Modes!AcceptsRejection
<1>7. ASSUME NEW a \in App, NEW b \in App, NEW c, NEW wait, NEW t \in TransitionId,
             NEW m \in SystemMode, HandleModeCommitted(a, c, ModeCommitted(b, t, m), wait)
      PROVE  NoHiddenFault'
  <2>1. CASE phase' = "Stable"
    BY <1>7, <2>1, RecalculationHidesNothing DEF HandleModeCommitted
  <2>2. CASE phase' # "Stable"
    <3>1. phase' = "Committing"
      BY <1>7, <2>2 DEF HandleModeCommitted, Modes!ApplicationCommitted, Modes!AcceptsCommit,
                        Modes!Settle
    <3>2. UNCHANGED systemHealth /\ Known' = Known
            /\ \A d \in Known : /\ applications'[d].connected = applications[d].connected
                                 /\ applications'[d].health = applications[d].health
      BY <1>7, <2>2 DEF HandleModeCommitted, SetMode, SInv, ServiceTypeOK, RegistryTypeOK,
                        ApplicationStatus, Known
    <3> QED
      BY <3>1, <3>2
  <2> QED
    BY <2>1, <2>2
<1>8. CASE \E m \in SystemMode : RequestMode(m)
  BY <1>1, <1>8 DEF RequestMode, Modes!RequestTransition, Modes!AcceptsRequest
<1>9. CASE \E wait \in LockWait : RefreshHealth(wait)
  BY <1>9, RecalculationHidesNothing DEF RefreshHealth
<1>10. CASE \E a \in App : Take(a)
  BY <1>1, <1>10 DEF Take, modeVars
<1>11. CASE Tick
  <2>1. Known' = Known /\ UNCHANGED <<systemMode, systemHealth, phase>>
          /\ \A d \in Known : /\ applications'[d].connected = applications[d].connected
                               /\ applications'[d].health = applications[d].health
                               /\ applications'[d].current_mode = applications[d].current_mode
    BY <1>11 DEF Tick, GrowOlder, modeVars, Known, SInv, ServiceTypeOK, RegistryTypeOK,
                 ApplicationStatus
  <2> QED
    BY <2>1
<1> QED
  BY <1>2, <1>3, <1>4, <1>5, <1>6, <1>7, <1>8, <1>9, <1>10, <1>11, ServiceSteps

\* No fault of an application is ever missing from the verdict on the system,
\* although some operations recalculate it and others do not.
THEOREM FaultsAreSeen == Spec => []NoHiddenFault
<1>1. Init => NoHiddenFault
  BY DEF Init, RegistryInit, NoHiddenFault, Known
<1> QED
  BY <1>1, AlwaysSInv, NextHidesNothing, PTL DEF Spec

-----------------------------------------------------------------------------
\* No alarm is false.

\* An application that fails for an old `now' fails for a fresh one.
LEMMA FailureLasts ==
  ASSUME NEW status \in ApplicationStatus, NEW wait \in LockWait
  PROVE  /\ CalculateApplication(status, wait) \in HealthState
         /\ CalculateApplication(status, wait) = "Failed" => CalculateApplication(status, 0) = "Failed"
         /\ CalculateApplication(status, wait) # "Healthy" => CalculateApplication(status, 0) # "Healthy"
<1>1. status.age \in Nat /\ wait \in Nat /\ HeartbeatTimeout \in Nat
  BY TimeAssumption DEF ApplicationStatus, AgeCap, LockWait
<1>2. Elapsed(status, wait) > HeartbeatTimeout => Elapsed(status, 0) > HeartbeatTimeout
  BY <1>1 DEF Elapsed
<1>3. status.health \in HealthState
  BY DEF ApplicationStatus
<1> QED
  BY <1>2, <1>3 DEF CalculateApplication, HealthState

\* What a fresh `now' would show of the application that a verdict stems from.
LEMMA VerdictHasCause ==
  ASSUME NEW apps, \A a \in DOMAIN apps : apps[a] \in ApplicationStatus,
         NEW m, NEW wait \in LockWait
  PROVE  LET verdict == RecalculatedHealth(apps, m, wait)
         IN  /\ verdict = "Failed" =>
                  \E a \in DOMAIN apps : CalculateApplication(apps[a], 0) = "Failed"
             /\ verdict = "Degraded" =>
                  \E a \in DOMAIN apps :
                    \/ CalculateApplication(apps[a], 0) # "Healthy"
                    \/ ~(apps[a].connected /\ apps[a].current_mode = m)
<1> DEFINE verdicts == {CalculateApplication(apps[a], wait) : a \in DOMAIN apps}
<1>1. ASSUME NEW h \in verdicts
      PROVE  \E a \in DOMAIN apps : CalculateApplication(apps[a], wait) = h
  OBVIOUS
<1>2. "Failed" \in verdicts => \E a \in DOMAIN apps : CalculateApplication(apps[a], 0) = "Failed"
  BY <1>1, FailureLasts
<1>3. "Degraded" \in verdicts => \E a \in DOMAIN apps : CalculateApplication(apps[a], 0) # "Healthy"
  BY <1>1, FailureLasts
<1> QED
  BY <1>2, <1>3 DEF RecalculatedHealth, Calculate, ModeMismatch

LEMMA RecalculationRaisesNoFalseAlarm ==
  ASSUME SInv', NEW wait \in LockWait, RecalculateHealth(wait)
  PROVE  NoFalseAlarm'
<1>1. \A a \in Known' : applications'[a] \in ApplicationStatus
  BY DEF SInv, ServiceTypeOK, RegistryTypeOK
<1>2. /\ systemHealth' = "Failed" =>
           \E a \in Known' : CalculateApplication(applications'[a], 0) = "Failed"
      /\ systemHealth' = "Degraded" =>
           \E a \in Known' :
             \/ CalculateApplication(applications'[a], 0) # "Healthy"
             \/ ~(applications'[a].connected /\ applications'[a].current_mode = systemMode')
  BY <1>1, VerdictHasCause DEF RecalculateHealth, Known
<1> QED
  BY <1>2 DEF NoFalseAlarm, EffectiveHealth, Synchronized

\* A verdict stands while whoever it is based on is as bad as before.
LEMMA AlarmStands ==
  ASSUME NoFalseAlarm, Known' = Known, UNCHANGED <<systemMode, systemHealth>>,
         \A a \in Known :
           /\ CalculateApplication(applications[a], 0) = "Failed" =>
                CalculateApplication(applications'[a], 0) = "Failed"
           /\ EffectiveHealth(a, 0) # "Healthy" => EffectiveHealth(a, 0)' # "Healthy"
  PROVE  NoFalseAlarm'
BY DEF NoFalseAlarm, EffectiveHealth

LEMMA NextRaisesNoFalseAlarm == SInv /\ NoFalseAlarm /\ [Next]_vars => NoFalseAlarm'
<1> SUFFICES ASSUME SInv, NoFalseAlarm, [Next]_vars
             PROVE  NoFalseAlarm'
  OBVIOUS
<1>1. SInv'
  BY NextKeepsSInv
<1>2. ASSUME UNCHANGED <<applications, systemMode, systemHealth>>
      PROVE  NoFalseAlarm'
  BY <1>2 DEF NoFalseAlarm, EffectiveHealth, Synchronized, Known
<1>3. ASSUME NEW a, NEW c, NEW wait \in LockWait, NEW msg,
             \/ Register(a, wait) \/ Disconnect(a, c, wait)
             \/ HandleHeartbeat(a, c, msg, wait) \/ RefreshHealth(wait)
      PROVE  NoFalseAlarm'
  BY <1>1, <1>3, RecalculationRaisesNoFalseAlarm
     DEF Register, Disconnect, HandleHeartbeat, RefreshHealth
<1>4. ASSUME NEW a, NEW c, NEW msg,
             \/ HandleModeReady(a, c, msg) \/ HandleModeRejected(a, c, msg)
             \/ RequestMode(msg) \/ Take(a)
      PROVE  NoFalseAlarm'
  BY <1>2, <1>4 DEF HandleModeReady, HandleModeRejected, RequestMode, Take
<1>5. ASSUME NEW a \in App, NEW b \in App, NEW c, NEW wait \in LockWait, NEW t, NEW m,
             HandleModeCommitted(a, c, ModeCommitted(b, t, m), wait)
      PROVE  NoFalseAlarm'
  <2>1. CASE phase' = "Stable"
    BY <1>1, <1>5, <2>1, RecalculationRaisesNoFalseAlarm DEF HandleModeCommitted
  <2>2. CASE phase' # "Stable"
    <3>1. m = target /\ phase = "Committing"
      BY <1>5 DEF HandleModeCommitted, ModeCommitted, Modes!ApplicationCommitted,
                  Modes!AcceptsCommit
    <3>2. m # systemMode
      BY <3>1 DEF SInv, Agreement, AuthoritativeModeAgrees, Manager!IInv,
                  Manager!TransitionWellFormed
    <3>3. UNCHANGED <<systemMode, systemHealth>> /\ SetMode(a, m)
      BY <1>5, <2>2 DEF HandleModeCommitted, ModeCommitted
    <3>4. /\ Known' = Known
          /\ \A d \in Known : /\ applications'[d].connected = applications[d].connected
                               /\ applications'[d].health = applications[d].health
                               /\ applications'[d].age = applications[d].age
                               /\ \/ applications'[d].current_mode = applications[d].current_mode
                                  \/ applications'[d].current_mode = m
      BY <3>3 DEF SetMode, SInv, ServiceTypeOK, RegistryTypeOK, ApplicationStatus, Known
    <3>5. \A d \in Known :
            CalculateApplication(applications'[d], 0) = CalculateApplication(applications[d], 0)
      BY <3>4 DEF CalculateApplication, Elapsed
    <3>6. \A d \in Known : EffectiveHealth(d, 0) # "Healthy" => EffectiveHealth(d, 0)' # "Healthy"
      BY <3>2, <3>3, <3>4, <3>5 DEF EffectiveHealth, Synchronized
    <3> QED
      BY <3>3, <3>4, <3>5, <3>6, AlarmStands
  <2> QED
    BY <2>1, <2>2
<1>6. CASE Tick
  <2>1. Known' = Known /\ UNCHANGED <<systemMode, systemHealth>>
    BY <1>6 DEF Tick, GrowOlder, Known
  <2>2. ASSUME NEW d \in Known
        PROVE  /\ applications'[d].connected = applications[d].connected
               /\ applications'[d].health = applications[d].health
               /\ applications'[d].current_mode = applications[d].current_mode
               /\ applications[d].age \in Nat /\ applications'[d].age \in Nat
               /\ applications'[d].age >= applications[d].age
    <3>1. applications[d] \in ApplicationStatus /\ AgeCap \in Nat
      BY <2>2, TimeAssumption DEF SInv, ServiceTypeOK, RegistryTypeOK, AgeCap
    <3>2. applications'[d] = [applications[d] EXCEPT !.age = IF @ < AgeCap THEN @ + 1 ELSE AgeCap]
      BY <1>6, <2>2 DEF Tick, GrowOlder
    <3> QED
      BY <3>1, <3>2 DEF ApplicationStatus
  <2>3. ASSUME NEW d \in Known
        PROVE  /\ CalculateApplication(applications[d], 0) = "Failed" =>
                    CalculateApplication(applications'[d], 0) = "Failed"
               /\ CalculateApplication(applications[d], 0) # "Healthy" =>
                    CalculateApplication(applications'[d], 0) # "Healthy"
    <3>1. Elapsed(applications[d], 0) > HeartbeatTimeout =>
            Elapsed(applications'[d], 0) > HeartbeatTimeout
      BY <2>2, TimeAssumption DEF Elapsed
    <3> QED
      BY <2>2, <3>1 DEF CalculateApplication
  <2>4. \A d \in Known : EffectiveHealth(d, 0) # "Healthy" => EffectiveHealth(d, 0)' # "Healthy"
    BY <2>1, <2>2, <2>3 DEF EffectiveHealth, Synchronized
  <2> QED
    BY <2>1, <2>3, <2>4, AlarmStands
<1>7. CASE UNCHANGED vars
  BY <1>2, <1>7 DEF vars
<1> QED
  BY <1>3, <1>4, <1>5, <1>6, <1>7, ServiceSteps

\* A verdict other than Healthy always has a cause that the console shows at
\* this moment, although confirmations and the passing of time change what it
\* is based on without a recalculation.
THEOREM AlarmsAreTrue == Spec => []NoFalseAlarm
<1>1. Init => NoFalseAlarm
  BY DEF Init, NoFalseAlarm
<1> QED
  BY <1>1, AlwaysSInv, NextRaisesNoFalseAlarm, PTL DEF Spec

-----------------------------------------------------------------------------
\* Whoever stays connected is told

\* What is posted is at the end of the queue, unless the queue was full.
LEMMA PostTells ==
  ASSUME NEW queue \in Seq(SamToApplication), Len(queue) <= QueueDepth, NEW m
  PROVE  \/ Len(queue) = QueueDepth
         \/ Post(queue, m) # << >> /\ Post(queue, m)[Len(Post(queue, m))] = m
<1>1. SUFFICES ASSUME Len(queue) < QueueDepth
               PROVE  Post(queue, m) # << >> /\ Post(queue, m)[Len(Post(queue, m))] = m
  BY QueueAssumption, SMT
<1>2. Post(queue, m) = Append(queue, m)
  BY <1>1 DEF Post
<1>3. Len(Append(queue, m)) = Len(queue) + 1 /\ Append(queue, m)[Len(queue) + 1] = m
  OBVIOUS
<1> QED
  BY <1>2, <1>3

LEMMA BroadcastTells ==
  ASSUME ClientsTypeOK, NEW a \in Connected,
         clients'[a].outbound =
           Post(clients[a].outbound, StateBroadcast(systemMode', systemHealth'))
  PROVE  ToldState(a)
<1>1. clients[a].outbound \in Seq(SamToApplication) /\ Len(clients[a].outbound) <= QueueDepth
  BY DEF ClientsTypeOK, ClientConnection
<1>2. PICK state : state = StateBroadcast(systemMode', systemHealth')
  OBVIOUS
<1> QED
  BY <1>1, <1>2, PostTells DEF ToldState

LEMMA ChangeIsTold ==
  ASSUME SInv, [Next]_vars, systemMode' # systemMode \/ systemHealth' # systemHealth,
         nextConnectionId' = nextConnectionId
  PROVE  \A a \in Connected \cap DOMAIN clients' : ToldState(a)
<1>1. ClientsTypeOK /\ nextConnectionId \in Nat
  BY BoundAssumption DEF SInv, ServiceTypeOK
<1>2. ASSUME BroadcastState \/ BroadcastStateIfChanged,
             systemMode' # systemMode => BroadcastState
      PROVE  \A a \in Connected \cap DOMAIN clients' : ToldState(a)
  <2>1. BroadcastState
    BY <1>2 DEF BroadcastStateIfChanged
  <2>2. \A a \in Connected : clients'[a].outbound =
          Post(clients[a].outbound, StateBroadcast(systemMode', systemHealth'))
    BY <1>1, <2>1 DEF BroadcastState, Broadcast, ClientsTypeOK, ClientConnection
  <2> QED
    BY <1>1, <2>2, BroadcastTells
<1>3. ASSUME NEW a \in App, NEW c \in ConnectionId, NEW wait \in LockWait, Call(a, c, wait)
      PROVE  \A b \in Connected \cap DOMAIN clients' : ToldState(b)
  <2>1. CASE Disconnect(a, c, wait)
    <3>1. \A b \in Connected \cap DOMAIN clients' : clients'[b].outbound =
            Post(clients[b].outbound, StateBroadcast(systemMode', systemHealth'))
      BY <1>1, <2>1 DEF Disconnect, ClientsTypeOK, ClientConnection
    <3> QED
      BY <1>1, <3>1, BroadcastTells
  <2>2. ASSUME NEW msg, HandleHeartbeat(a, c, msg, wait)
        PROVE  \A b \in Connected \cap DOMAIN clients' : ToldState(b)
    BY <1>2, <2>2 DEF HandleHeartbeat
  <2>3. ASSUME NEW msg, HandleModeReady(a, c, msg) \/ HandleModeRejected(a, c, msg)
        PROVE  FALSE
    BY <2>3 DEF HandleModeReady, HandleModeRejected
  <2>4. ASSUME NEW msg, HandleModeCommitted(a, c, msg, wait)
        PROVE  \A b \in Connected \cap DOMAIN clients' : ToldState(b)
    BY <1>2, <2>4 DEF HandleModeCommitted
  <2> QED
    BY <1>3, <2>1, <2>2, <2>3, <2>4 DEF Call
<1>4. ASSUME NEW a \in App, NEW wait, Register(a, wait)
      PROVE  FALSE
  BY <1>1, <1>4 DEF Register
<1>5. ASSUME NEW wait, RefreshHealth(wait)
      PROVE  \A a \in Connected \cap DOMAIN clients' : ToldState(a)
  BY <1>2, <1>5 DEF RefreshHealth
<1>6. ASSUME NEW m, RequestMode(m)
      PROVE  FALSE
  BY <1>6 DEF RequestMode
<1>7. ASSUME NEW a, Take(a)
      PROVE  FALSE
  BY <1>7 DEF Take
<1>8. ~Tick
  BY DEF Tick
<1>9. ~UNCHANGED vars
  BY DEF vars
<1> QED
  BY <1>3, <1>4, <1>5, <1>6, <1>7, <1>8, <1>9 DEF Next

\* Whenever the announced mode or health changes other than by a registration,
\* the new state is the last thing in the queue of every connection that stays,
\* unless there was no room for it.
THEOREM ChangesAreTold == Spec => StateChangeIsTold
<1>1. SInv /\ [Next]_vars =>
        [(systemMode' # systemMode \/ systemHealth' # systemHealth)
           /\ nextConnectionId' = nextConnectionId =>
         \A a \in Connected \cap DOMAIN clients' : ToldState(a)]_vars
  BY ChangeIsTold
<1> QED
  BY InitSInv, NextKeepsSInv, <1>1, PTL DEF Spec, StateChangeIsTold

-----------------------------------------------------------------------------
\* The console and the aggregate

\* A client that is not connected has failed, so that the aggregate's test of
\* the modes, which skips it, and the console's, which does not, come to the
\* same.
LEMMA ConsoleShows ==
  ASSUME ServiceTypeOK, NEW a \in Known, NEW wait \in LockWait
  PROVE  LET verdict == CalculateApplication(applications[a], wait)
             differs == applications[a].connected /\ applications[a].current_mode # systemMode
         IN  /\ verdict \in HealthState
             /\ EffectiveHealth(a, wait) =
                  IF verdict = "Healthy" /\ differs THEN "Degraded" ELSE verdict
<1>1. applications[a] \in ApplicationStatus
  BY DEF ServiceTypeOK, RegistryTypeOK
<1>2. applications[a].health \in HealthState /\ applications[a].connected \in BOOLEAN
  BY <1>1 DEF ApplicationStatus
<1>3. CalculateApplication(applications[a], wait) \in HealthState
  BY <1>2 DEF CalculateApplication, HealthState
<1>4. CalculateApplication(applications[a], wait) = "Healthy" => applications[a].connected
  BY DEF CalculateApplication
<1> QED
  BY <1>3, <1>4 DEF EffectiveHealth, Synchronized

\* What a recalculation would store now is the worst of what the console shows.
WouldBeShown ==
  \A wait \in LockWait :
    IsWorstShown(RecalculatedHealth(applications, systemMode, wait), wait)

LEMMA ConsoleAgrees == ServiceTypeOK => WouldBeShown
<1> SUFFICES ASSUME ServiceTypeOK, NEW wait \in LockWait
             PROVE  LET shown == {EffectiveHealth(a, wait) : a \in Known}
                        verdict == RecalculatedHealth(applications, systemMode, wait)
                    IN  /\ verdict = "Failed" <=> "Failed" \in shown
                        /\ verdict = "Healthy" <=> shown \subseteq {"Healthy"}
  BY DEF WouldBeShown, IsWorstShown
<1> DEFINE Verdict(a) == CalculateApplication(applications[a], wait)
           Differs(a) == applications[a].connected /\ applications[a].current_mode # systemMode
<1>1. \A a \in Known : /\ Verdict(a) \in HealthState
                      /\ EffectiveHealth(a, wait) =
                           IF Verdict(a) = "Healthy" /\ Differs(a) THEN "Degraded" ELSE Verdict(a)
  BY ConsoleShows
<1>2. ModeMismatch(applications, systemMode) <=> \E a \in Known : Differs(a)
  BY DEF ModeMismatch, Known
<1>3. Calculate(applications, wait) =
        IF \E a \in Known : Verdict(a) = "Failed" THEN "Failed"
        ELSE IF \E a \in Known : Verdict(a) = "Degraded" THEN "Degraded"
        ELSE "Healthy"
  BY DEF Calculate, Known
<1> HIDE DEF Verdict, Differs
<1>4. RecalculatedHealth(applications, systemMode, wait) =
        IF \E a \in Known : Verdict(a) = "Failed" THEN "Failed"
        ELSE IF \E a \in Known : Verdict(a) = "Degraded" \/ Differs(a) THEN "Degraded"
        ELSE "Healthy"
  BY <1>2, <1>3 DEF RecalculatedHealth
<1>5. RecalculatedHealth(applications, systemMode, wait) = "Failed"
        <=> \E a \in Known : EffectiveHealth(a, wait) = "Failed"
  BY <1>1, <1>4
<1>6. RecalculatedHealth(applications, systemMode, wait) = "Healthy"
        <=> \A a \in Known : EffectiveHealth(a, wait) = "Healthy"
  BY <1>1, <1>4 DEF HealthState
<1> QED
  BY <1>5, <1>6

\* The aggregate changes by a recalculation only.
LEMMA ChangeIsRecalculation ==
  ASSUME [Next]_vars, systemHealth' # systemHealth
  PROVE  \E wait \in LockWait : RecalculateHealth(wait)
<1>1. ASSUME NEW a, NEW c, NEW wait \in LockWait, NEW msg,
             \/ Register(a, wait) \/ Disconnect(a, c, wait)
             \/ HandleHeartbeat(a, c, msg, wait) \/ RefreshHealth(wait)
             \/ HandleModeCommitted(a, c, msg, wait)
      PROVE  RecalculateHealth(wait)
  BY <1>1 DEF Register, Disconnect, HandleHeartbeat, RefreshHealth, HandleModeCommitted
<1>2. ASSUME NEW a, NEW c, NEW msg,
             \/ HandleModeReady(a, c, msg) \/ HandleModeRejected(a, c, msg)
             \/ RequestMode(msg) \/ Take(a)
      PROVE  FALSE
  BY <1>2 DEF HandleModeReady, HandleModeRejected, RequestMode, Take
<1>3. ~Tick /\ ~UNCHANGED vars
  BY DEF Tick, vars
<1> QED
  BY <1>1, <1>2, <1>3, ServiceSteps

\* Whatever applications there are, and however long a recalculation waited for
\* the lock: the aggregate that it stores is the worst of the healths that the
\* console then computes one by one, and nothing else changes the aggregate.
THEOREM ConsoleAndAggregateAgree == Spec => ConsoleAgreesWithAggregate
<1>1. SInv => WouldBeShown
  BY ConsoleAgrees DEF SInv
<1>2. SInv' => WouldBeShown'
  BY <1>1, PTL
<1>3. SInv' /\ [Next]_vars =>
        [systemHealth' # systemHealth =>
           \E wait \in LockWait : IsWorstShown(systemHealth, wait)']_vars
  <2> SUFFICES ASSUME SInv', [Next]_vars, systemHealth' # systemHealth
               PROVE  \E wait \in LockWait : IsWorstShown(systemHealth, wait)'
    OBVIOUS
  <2>1. PICK wait \in LockWait : RecalculateHealth(wait)
    BY ChangeIsRecalculation
  <2>2. IsWorstShown(systemHealth, wait)'
    BY <1>2, <2>1 DEF WouldBeShown, RecalculateHealth, IsWorstShown
  <2> QED
    BY <2>2
<1> QED
  BY <1>3, InitSInv, NextKeepsSInv, PTL DEF Spec, ConsoleAgreesWithAggregate

-----------------------------------------------------------------------------
\* The loop of calculate

\* What the turns of the loop come to, in whatever order they were taken.
VerdictOf(verdicts, s) ==
  IF \E i \in s : verdicts[i] = "Failed" THEN "Failed"
  ELSE IF \E i \in s : verdicts[i] = "Degraded" THEN "Degraded" ELSE "Healthy"

\* The function FoldLeft defines: what the loop has after some of its n turns,
\* from what it had before the last of them.
Turns(it, verdicts, n) ==
  it = [s \in SUBSET (1 .. n) |->
         IF s = {} THEN "Healthy" ELSE Visit(it[s \ {Max(s)}], verdicts[Max(s)])]

\* FoldLeft chooses such a function, if there is one.
LEMMA FoldIsTurns ==
  ASSUME NEW n \in Nat, NEW verdicts \in [1 .. n -> HealthState],
         \E it : Turns(it, verdicts, n)
  PROVE  \E it : Turns(it, verdicts, n) /\ FoldLeft(Visit, "Healthy", verdicts) = it[1 .. n]
<1> DEFINE chosen == CHOOSE it : Turns(it, verdicts, n)
<1>1. Turns(chosen, verdicts, n)
  OBVIOUS
<1>2. DOMAIN verdicts = 1 .. n
  OBVIOUS
<1>3. FoldLeft(Visit, "Healthy", verdicts) = chosen[1 .. n]
  BY <1>2 DEF FoldLeft, MapThenFoldSet, Turns
<1> QED
  BY <1>1, <1>3

\* Induction over numbers: a set of them has a least one.
Less == OpToRel(<, Nat)

LEMMA LeastNumber ==
  ASSUME NEW T, T \subseteq Nat, T # {}
  PROVE  \E x \in T : \A y \in T : x <= y
<1>1. IsWellFoundedOn(Less, Nat)
  BY NatLessThanWellFounded, Zenon DEF Less
<1>2. PICK x \in T : \A y \in T : ~ (<<y, x>> \in Less)
  BY <1>1, WFMin
<1>3. Less = {p \in Nat \X Nat : p[1] < p[2]}
  BY DEF Less, OpToRel
<1>4. ASSUME NEW y \in T
      PROVE  x <= y
  <2>1. <<y, x>> \in Nat \X Nat /\ ~(y < x)
    BY <1>2, <1>3
  <2> QED
    BY <2>1
<1> QED
  BY <1>4

\* A set of some turns has a last one, as FoldLeft chooses it.
LEMMA MaxIsLast ==
  ASSUME NEW n \in Nat, NEW s \in SUBSET (1 .. n), s # {}
  PROVE  Max(s) \in s /\ \A i \in s : Max(s) >= i
<1> DEFINE gaps == {n - i : i \in s}
<1>1. gaps \subseteq Nat
  OBVIOUS
<1>2. gaps # {}
  <2>1. PICK i \in s : TRUE
    OBVIOUS
  <2>2. n - i \in gaps
    OBVIOUS
  <2> QED
    BY <2>2
<1>3. PICK g \in gaps : \A h \in gaps : g <= h
  <2> HIDE DEF gaps
  <2> QED
    BY <1>1, <1>2, LeastNumber
<1>4. PICK m \in s : g = n - m
  OBVIOUS
<1>5. \A i \in s : m >= i
  <2> TAKE i \in s
  <2>1. n - m <= n - i
    BY <1>3, <1>4
  <2> QED
    BY <2>1
<1> QED
  BY <1>5 DEF Max

LEMMA VerdictOfMore ==
  ASSUME NEW verdicts, NEW s, NEW x \in s, verdicts[x] \in HealthState
  PROVE  VerdictOf(verdicts, s) = Visit(VerdictOf(verdicts, s \ {x}), verdicts[x])
BY DEF VerdictOf, Visit, HealthState

LEMMA TurnsExist ==
  ASSUME NEW n \in Nat, NEW verdicts \in [1 .. n -> HealthState]
  PROVE  \E it : Turns(it, verdicts, n)
<1> DEFINE all == [s \in SUBSET (1 .. n) |-> VerdictOf(verdicts, s)]
<1>1. ASSUME NEW s \in SUBSET (1 .. n)
      PROVE  VerdictOf(verdicts, s) =
               IF s = {} THEN "Healthy" ELSE Visit(all[s \ {Max(s)}], verdicts[Max(s)])
  <2>1. CASE s = {}
    BY <2>1 DEF VerdictOf
  <2>2. CASE s # {}
    <3>1. Max(s) \in s /\ s \ {Max(s)} \in SUBSET (1 .. n)
      BY <2>2, MaxIsLast
    <3>2. verdicts[Max(s)] \in HealthState /\ all[s \ {Max(s)}] = VerdictOf(verdicts, s \ {Max(s)})
      BY <3>1
    <3>3. VerdictOf(verdicts, s) = Visit(VerdictOf(verdicts, s \ {Max(s)}), verdicts[Max(s)])
      BY <3>1, <3>2, VerdictOfMore
    <3> QED
      BY <2>2, <3>2, <3>3
  <2> QED
    BY <2>1, <2>2
<1>2. Turns(all, verdicts, n)
  BY <1>1 DEF Turns
<1> QED
  BY <1>2

\* The first turn after which such a function had another verdict would be one
\* before which it had the right one.
LEMMA TurnsAgree ==
  ASSUME NEW n \in Nat, NEW verdicts \in [1 .. n -> HealthState], NEW it, Turns(it, verdicts, n)
  PROVE  it[1 .. n] = VerdictOf(verdicts, 1 .. n)
<1> DEFINE wrong == {k \in 0 .. n : it[1 .. k] # VerdictOf(verdicts, 1 .. k)}
<1>1. ASSUME wrong # {}
      PROVE  FALSE
  <2>1. PICK k \in wrong : \A j \in wrong : k <= j
    <3>1. wrong \subseteq Nat
      OBVIOUS
    <3> HIDE DEF wrong
    <3> QED
      BY <1>1, <3>1, LeastNumber
  <2>2. k \in 0 .. n /\ 1 .. k \in SUBSET (1 .. n)
    OBVIOUS
  <2>3. CASE k = 0
    <3>1. 1 .. k = {}
      BY <2>3
    <3>2. it[1 .. k] = "Healthy"
      BY <2>2, <3>1 DEF Turns
    <3>3. VerdictOf(verdicts, 1 .. k) = "Healthy"
      BY <3>1 DEF VerdictOf
    <3> QED
      BY <3>2, <3>3
  <2>4. CASE k # 0
    <3>1. k - 1 \in 0 .. n /\ k - 1 \notin wrong
      BY <2>1, <2>2, <2>4
    <3>2. it[1 .. k - 1] = VerdictOf(verdicts, 1 .. k - 1)
      BY <3>1
    <3>3. k \in 1 .. k
      BY <2>2, <2>4
    <3>4. Max(1 .. k) = k
      <4>1. Max(1 .. k) \in 1 .. k /\ Max(1 .. k) >= k
        BY <2>2, <3>3, MaxIsLast
      <4> QED
        BY <2>2, <4>1
    <3>5. (1 .. k) \ {k} = 1 .. k - 1
      BY <2>2
    <3>6. it[1 .. k] = Visit(it[1 .. k - 1], verdicts[k])
      BY <2>2, <3>3, <3>4, <3>5 DEF Turns
    <3>7. verdicts[k] \in HealthState
      BY <2>2, <2>4
    <3>8. VerdictOf(verdicts, 1 .. k) = Visit(VerdictOf(verdicts, 1 .. k - 1), verdicts[k])
      BY <3>3, <3>5, <3>7, VerdictOfMore
    <3> QED
      BY <3>2, <3>6, <3>8
  <2> QED
    BY <2>3, <2>4
<1> QED
  BY <1>1

LEMMA ScanIsVerdict ==
  ASSUME NEW n \in Nat, NEW verdicts \in [1 .. n -> HealthState]
  PROVE  FoldLeft(Visit, "Healthy", verdicts) = VerdictOf(verdicts, 1 .. n)
BY FoldIsTurns, TurnsExist, TurnsAgree

\* An order of the map has each application once.
LEMMA OrderVisitsAll ==
  ASSUME IsFiniteSet(Known), NEW order \in SetToSeqs(Known)
  PROVE  \E n \in Nat : order \in [1 .. n -> Known] /\ \A a \in Known : \E i \in 1 .. n : order[i] = a
<1> DEFINE n == Cardinality(Known)
<1>1. n \in Nat
  BY FS_CardinalityType
<1>2. order \in [1 .. n -> Known] /\ \A i, j \in 1 .. n : i # j => order[i] # order[j]
  BY DEF SetToSeqs
<1> HIDE DEF n
<1>3. order \in Injection(1 .. n, Known)
  BY <1>2 DEF Injection, IsInjective
<1>4. Cardinality(1 .. n) = n
  BY <1>1, FS_Interval
<1>5. order \in Surjection(1 .. n, Known)
  BY <1>3, <1>4, FS_Injection DEF n
<1> QED
  BY <1>1, <1>2, <1>5 DEF Surjection

LEMMA ScanIsCalculate ==
  ASSUME IsFiniteSet(Known), applications \in [Known -> ApplicationStatus]
  PROVE  ScanAgrees
<1> SUFFICES ASSUME NEW wait \in LockWait, NEW order \in SetToSeqs(Known)
             PROVE  Scan(order, wait) = Calculate(applications, wait)
  BY DEF ScanAgrees
<1>1. PICK n \in Nat : order \in [1 .. n -> Known] /\ \A a \in Known : \E i \in 1 .. n : order[i] = a
  BY OrderVisitsAll
<1> DEFINE verdicts == [i \in 1 .. n |-> CalculateApplication(applications[order[i]], wait)]
<1>2. ASSUME NEW a \in Known
      PROVE  CalculateApplication(applications[a], wait) \in HealthState
  BY DEF CalculateApplication, ApplicationStatus, HealthState
<1>3. verdicts \in [1 .. n -> HealthState]
  BY <1>1, <1>2
<1>4. Scan(order, wait) = FoldLeft(Visit, "Healthy", verdicts)
  BY <1>1 DEF Scan
<1>5. Scan(order, wait) = VerdictOf(verdicts, 1 .. n)
  BY <1>3, <1>4, ScanIsVerdict
<1>6. \A h : (\E i \in 1 .. n : verdicts[i] = h)
              <=> h \in {CalculateApplication(applications[a], wait) : a \in Known}
  BY <1>1
<1> QED
  BY <1>5, <1>6 DEF VerdictOf, Calculate

KnownIsFinite == IsFiniteSet(Known)

\* The registry grows by one application at a time.
LEMMA NextKeepsFinite == KnownIsFinite /\ [Next]_vars => KnownIsFinite'
<1> SUFFICES ASSUME IsFiniteSet(Known), [Next]_vars
             PROVE  IsFiniteSet(Known')
  BY DEF KnownIsFinite
<1>1. ASSUME NEW a, NEW wait, Register(a, wait)
      PROVE  Known' = Known \cup {a}
  BY <1>1 DEF Register, RegisterStatus, Known
<1>2. ASSUME ~\E a \in App, wait \in LockWait : Register(a, wait)
      PROVE  Known' = Known
  <2>1. CASE UNCHANGED vars
    BY <2>1 DEF vars, Known
  <2>2. ASSUME NEW a, NEW c, NEW wait, NEW m,
               \/ Disconnect(a, c, wait) \/ HandleHeartbeat(a, c, m, wait)
               \/ HandleModeReady(a, c, m) \/ HandleModeRejected(a, c, m)
               \/ HandleModeCommitted(a, c, m, wait)
        PROVE  Known' = Known
    BY <2>2 DEF Disconnect, HandleHeartbeat, HandleModeReady, HandleModeRejected,
                HandleModeCommitted, MarkDisconnected, UpdateHeartbeat, SetMode, Known
  <2>3. ASSUME NEW a, NEW m, NEW wait, RequestMode(m) \/ RefreshHealth(wait) \/ Take(a) \/ Tick
        PROVE  Known' = Known
    BY <2>3 DEF RequestMode, RefreshHealth, Take, Tick, GrowOlder, Known
  <2> QED
    BY <1>2, <2>1, <2>2, <2>3, ServiceSteps
<1>3. CASE \E a \in App, wait \in LockWait : Register(a, wait)
  BY <1>1, <1>3, FS_AddElement
<1> QED
  BY <1>2, <1>3

\* health.rs:18-25, the loop of `calculate': for any number of applications and
\* in whatever order the HashMap yields them, the loop, which keeps a verdict
\* from turn to turn and returns at the first Failed, computes what the model of
\* the service takes for it.
THEOREM ScanIsRight == Spec => []ScanAgrees
<1>1. Init => KnownIsFinite
  BY FS_EmptySet DEF Init, RegistryInit, Known, KnownIsFinite
<1>2. KnownIsFinite /\ TypeOK => ScanAgrees
  BY ScanIsCalculate DEF TypeOK, RegistryTypeOK, KnownIsFinite
<1> QED
  BY <1>1, <1>2, NextKeepsFinite, TypeCorrect, PTL DEF Spec
=============================================================================
