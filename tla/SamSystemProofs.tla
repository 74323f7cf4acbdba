--------------------------- MODULE SamSystemProofs ---------------------------
(***************************************************************************)
(* The server by itself and between real applications, for any number of   *)
(* applications, connections and messages on their way.                    *)
(*                                                                         *)
(* SamServer: its sessions use the service as SamService allows, so that   *)
(* what is proved of the service holds in the server; and every connection *)
(* of the service belongs to one session, the newest of its application.   *)
(*                                                                         *)
(* SamSystem: with real applications at its other end, the server does     *)
(* nothing that SamServer does not allow.  What is proved of the server    *)
(* against arbitrary peers, and through it of the service and of the mode  *)
(* manager, therefore holds in the closed system.                          *)
(***************************************************************************)
EXTENDS SamSystem, SamServiceProofs

-----------------------------------------------------------------------------
\* SamServer

\* The sessions by themselves.
SessionsTypeOK ==
  /\ stage \in [Session -> Stage]
  /\ Registered \subseteq Session
  /\ identity \in [Registered -> [app : App, id : ConnectionId]]
  /\ \A s \in Session :
       /\ stage[s] \in {"registered", "closing"} => s \in Registered
       /\ stage[s] \in {"none", "accepted"} => s \notin Registered

LeftoverOK ==
  /\ leftover \in [Session -> Seq(SamToApplication)]
  /\ \A s \in Session : Len(leftover[s]) <= QueueDepth /\ (leftover[s] # << >> => s \in Registered)

\* A connection_id is given to one session only.
IdsAreUnique ==
  /\ \A s \in Registered : identity[s].id < nextConnectionId
  /\ \A r, s \in Registered : identity[r].id = identity[s].id => r = s

\* The service's connection of an application is that of a session which has
\* yet to disconnect it, and no session of the application is newer.
ConnectionsHaveSessions ==
  \A a \in Connected :
    /\ \E s \in Session : /\ stage[s] \in {"registered", "closing"}
                          /\ identity[s].app = a /\ identity[s].id = clients[a].id
    /\ \A r \in Registered : identity[r].app = a => identity[r].id <= clients[a].id

VInv ==
  /\ SInv
  /\ SessionsTypeOK
  /\ LeftoverOK
  /\ IdsAreUnique
  /\ ConnectionsHaveSessions
  /\ NewestSessionCounts

-----------------------------------------------------------------------------
\* Which steps of the service touch the connections.

\* All but registrations and disconnections.
SameIds == Connected' = Connected /\ \A a \in Connected : clients'[a].id = clients[a].id

LEMMA BroadcastKeepsIds ==
  ASSUME ClientsTypeOK, NEW m, Broadcast(m)
  PROVE  SameIds
BY DEF Broadcast, ClientsTypeOK, ClientConnection, SameIds, Connected

LEMMA StateBroadcastKeepsIds ==
  ASSUME ClientsTypeOK, BroadcastState \/ BroadcastStateIfChanged
  PROVE  SameIds
<1>1. CASE UNCHANGED clients
  BY <1>1 DEF SameIds, Connected
<1> QED
  BY <1>1, BroadcastKeepsIds DEF BroadcastState, BroadcastStateIfChanged

LEMMA CallsKeepIds ==
  ASSUME SInv, NEW a, NEW c, NEW msg, NEW wait,
         \/ HandleHeartbeat(a, c, msg, wait)
         \/ HandleModeReady(a, c, msg)
         \/ HandleModeRejected(a, c, msg)
         \/ HandleModeCommitted(a, c, msg, wait)
         \/ RefreshHealth(wait)
         \/ RequestMode(msg)
  PROVE  SameIds /\ UNCHANGED nextConnectionId
<1> USE DEF SInv, ServiceTypeOK
<1>1. CASE UNCHANGED clients
  BY <1>1 DEF SameIds, Connected, HandleHeartbeat, HandleModeReady, HandleModeRejected,
              HandleModeCommitted, RefreshHealth, RequestMode
<1>2. CASE HandleHeartbeat(a, c, msg, wait) \/ RefreshHealth(wait)
  BY <1>2, StateBroadcastKeepsIds DEF HandleHeartbeat, RefreshHealth
<1>3. CASE HandleModeReady(a, c, msg) \/ HandleModeRejected(a, c, msg) \/ RequestMode(msg)
  BY <1>1, <1>3, BroadcastKeepsIds DEF HandleModeReady, HandleModeRejected, RequestMode
<1>4. CASE HandleModeCommitted(a, c, msg, wait)
  BY <1>1, <1>4, StateBroadcastKeepsIds DEF HandleModeCommitted
<1> QED
  BY <1>2, <1>3, <1>4

LEMMA TakeAndTickKeepIds ==
  ASSUME SInv, (\E a \in App : Take(a)) \/ Tick \/ UNCHANGED vars
  PROVE  SameIds /\ UNCHANGED nextConnectionId
BY DEF Take, Tick, vars, SInv, ServiceTypeOK, ClientsTypeOK, ClientConnection, SameIds, Connected

\* Nothing about the sessions depends on more of the service than its ids.
LEMMA SameIdsKeepSessions ==
  ASSUME VInv, SameIds, UNCHANGED <<nextConnectionId, stage, identity>>
  PROVE  SessionsTypeOK' /\ IdsAreUnique' /\ ConnectionsHaveSessions' /\ NewestSessionCounts'
<1> USE DEF VInv, Registered
<1>1. SessionsTypeOK' /\ IdsAreUnique'
  BY DEF SessionsTypeOK, IdsAreUnique
<1>2. ConnectionsHaveSessions'
  BY DEF ConnectionsHaveSessions, SameIds
<1>3. \A s \in Registered : IsCurrent(s)' <=> IsCurrent(s)
  BY DEF IsCurrent, VerifyConnection, SameIds
<1>4. NewestSessionCounts'
  BY <1>3 DEF NewestSessionCounts
<1> QED
  BY <1>1, <1>2, <1>4

-----------------------------------------------------------------------------
\* Every step of the server is a step of the service, or leaves it alone.

LEMMA SessionIsRegistered ==
  ASSUME VInv, NEW s \in Session, stage[s] \in {"registered", "closing"}
  PROVE  s \in Registered /\ identity[s].app \in App /\ identity[s].id \in ConnectionId
BY DEF VInv, SessionsTypeOK

LEMMA ReceiveIsServices ==
  ASSUME VInv, NEW s \in Session, NEW wait \in LockWait, Receive(s, wait)
  PROVE  Next /\ SameIds /\ UNCHANGED <<nextConnectionId, sessionVars>>
<1> DEFINE a == identity[s].app
           c == identity[s].id
<1>1. a \in App /\ c \in ConnectionId
  BY SessionIsRegistered DEF Receive
<1> HIDE DEF a, c
<1>2. \/ \E h \in ReportedHealth, m \in ReportedMode :
           HandleHeartbeat(a, c, Heartbeat(a, h, m), wait)
      \/ \E t \in 1 .. MaxTransition :
           \/ HandleModeReady(a, c, ModeReady(a, t))
           \/ HandleModeRejected(a, c, ModeRejected(a, t))
           \/ \E m \in ReportedMode :
                HandleModeCommitted(a, c, ModeCommitted(a, t, m), wait)
  BY DEF Receive, a, c
<1>3. Call(a, c, wait)
  BY <1>1, <1>2 DEF Call
<1>4. SameIds /\ UNCHANGED nextConnectionId
  BY <1>2, CallsKeepIds DEF VInv
<1> QED
  BY <1>1, <1>3, <1>4 DEF Next, Receive

LEMMA TeardownIsServices ==
  ASSUME VInv, NEW s \in Session, NEW wait \in LockWait, Teardown(s, wait)
  PROVE  Next \/ UNCHANGED vars
<1>1. identity[s].app \in App /\ identity[s].id \in ConnectionId
  BY SessionIsRegistered DEF Teardown, Move
<1>2. CASE Disconnect(identity[s].app, identity[s].id, wait)
  BY <1>1, <1>2 DEF Next, Call
<1> QED
  BY <1>2 DEF Teardown

LEMMA ForwardIsServices ==
  ASSUME VInv, NEW s \in Session, Forward(s)
  PROVE  (\E a \in App : Take(a)) \/ UNCHANGED vars
BY SessionIsRegistered DEF Forward

LEMMA NextIsServices == VInv /\ [ServerNext]_serverVars => [Next]_vars
<1> SUFFICES ASSUME VInv, [ServerNext]_serverVars
             PROVE  Next \/ UNCHANGED vars
  OBVIOUS
<1>1. CASE UNCHANGED serverVars
  BY <1>1 DEF serverVars
<1>2. ASSUME NEW s \in Session, SessionNext(s)
      PROVE  Next \/ UNCHANGED vars
  <2>1. CASE Accept(s) \/ EndUnregistered(s) \/ Replaced(s) \/ Break(s)
    BY <2>1 DEF Accept, EndUnregistered, Replaced, Break
  <2>2. CASE Forward(s)
    BY <2>2, ForwardIsServices DEF Next
  <2>3. CASE \E wait \in LockWait, a \in App : RegisterSession(s, a, wait)
    BY <2>3 DEF RegisterSession, Next
  <2>4. CASE \E wait \in LockWait : Receive(s, wait)
    BY <2>4, ReceiveIsServices
  <2>5. CASE \E wait \in LockWait : Teardown(s, wait)
    BY <2>5, TeardownIsServices
  <2> QED
    BY <1>2, <2>1, <2>2, <2>3, <2>4, <2>5 DEF SessionNext
<1> QED
  BY <1>1, <1>2 DEF ServerNext, Next

-----------------------------------------------------------------------------
\* Registration and teardown, the steps that move connections.

LEMMA RegisterKeepsVInv ==
  ASSUME VInv, NEW s \in Session, NEW a \in App, NEW wait \in LockWait,
         RegisterSession(s, a, wait)
  PROVE  SessionsTypeOK' /\ LeftoverOK' /\ IdsAreUnique'
           /\ ConnectionsHaveSessions' /\ NewestSessionCounts'
<1> USE DEF VInv
<1> DEFINE new == [app |-> a, id |-> nextConnectionId]
<1>1. /\ stage[s] = "accepted" /\ stage' = [stage EXCEPT ![s] = "registered"]
      /\ Registered' = Registered \cup {s} /\ s \notin Registered
      /\ identity'[s] = new
      /\ \A r \in Registered : identity'[r] = identity[r]
      /\ identity' \in [Registered' -> {identity'[r] : r \in Registered'}]
  BY DEF RegisterSession, Move, Registered, SessionsTypeOK
<1>2. nextConnectionId \in ConnectionId /\ nextConnectionId' = nextConnectionId + 1
        /\ nextConnectionId \in Nat
  BY BoundAssumption DEF RegisterSession, Register, ConnectionId, SInv, ServiceTypeOK
<1>3. \A r \in Registered : identity[r].id \in Nat /\ identity[r].app \in App
  BY BoundAssumption DEF SessionsTypeOK, ConnectionId
<1>4. Connected' = Connected \cup {a}
        /\ \A b \in Connected' : clients'[b].id =
              IF b = a THEN nextConnectionId ELSE clients[b].id
  BY DEF RegisterSession, Register, Connected
<1>5. SessionsTypeOK'
  <2>1. \A r \in Registered' : identity'[r] \in [app : App, id : ConnectionId]
    BY <1>1, <1>2 DEF SessionsTypeOK
  <2>2. stage' \in [Session -> Stage]
    BY <1>1 DEF SessionsTypeOK, Stage
  <2> QED
    BY <1>1, <2>1, <2>2 DEF SessionsTypeOK
<1>6. LeftoverOK'
  <2>1. leftover' = [r \in Session |->
          IF IsCurrent(r) /\ identity[r].app = a THEN clients[a].outbound ELSE leftover[r]]
    BY DEF RegisterSession
  <2>2. \A r \in Session : IsCurrent(r) /\ identity[r].app = a =>
          /\ r \in Registered /\ a \in Connected
          /\ clients[a].outbound \in Seq(SamToApplication)
          /\ Len(clients[a].outbound) <= QueueDepth
    BY DEF IsCurrent, VerifyConnection, SInv, ServiceTypeOK, ClientsTypeOK, ClientConnection
  <2> QED
    BY <1>1, <2>1, <2>2 DEF LeftoverOK
<1>7. IdsAreUnique'
  BY <1>1, <1>2, <1>3 DEF IdsAreUnique
<1>8. ConnectionsHaveSessions'
  <2>1. ASSUME NEW b \in Connected', b # a
        PROVE  /\ \E r \in Session : /\ stage'[r] \in {"registered", "closing"}
                                     /\ identity'[r].app = b /\ identity'[r].id = clients'[b].id
               /\ \A r \in Registered' : identity'[r].app = b => identity'[r].id <= clients'[b].id
    <3>1. b \in Connected /\ clients'[b].id = clients[b].id
      BY <1>4, <2>1
    <3>2. PICK r \in Session : /\ stage[r] \in {"registered", "closing"}
                               /\ identity[r].app = b /\ identity[r].id = clients[b].id
      BY <3>1 DEF ConnectionsHaveSessions
    <3>3. r \in Registered /\ r # s
      BY <1>1, <3>2 DEF SessionsTypeOK
    <3>4. stage'[r] = stage[r] /\ identity'[r] = identity[r]
      BY <1>1, <3>3 DEF SessionsTypeOK
    <3> QED
      BY <1>1, <2>1, <3>1, <3>2, <3>4 DEF ConnectionsHaveSessions
  <2>2. /\ stage'[s] = "registered" /\ identity'[s].app = a
        /\ identity'[s].id = clients'[a].id
        /\ \A r \in Registered' : identity'[r].id <= clients'[a].id
    BY <1>1, <1>2, <1>3, <1>4 DEF IdsAreUnique, SessionsTypeOK
  <2> QED
    BY <2>1, <2>2 DEF ConnectionsHaveSessions
<1>9. NewestSessionCounts'
  <2>1. IsCurrent(s)' /\ stage'[s] = "registered"
    BY <1>1, <1>4 DEF IsCurrent, VerifyConnection, SessionsTypeOK
  <2>2. ASSUME NEW r \in Registered, identity[r].app # a
        PROVE  (IsCurrent(r)' <=> IsCurrent(r)) /\ stage'[r] = stage[r]
    BY <1>1, <1>4, <2>2 DEF IsCurrent, VerifyConnection, SessionsTypeOK
  <2>3. ASSUME NEW r \in Registered, identity[r].app = a
        PROVE  identity'[r].app = identity'[s].app /\ ~(identity'[s].id <= identity'[r].id)
    BY <1>1, <1>2, <1>3, <2>3 DEF IdsAreUnique
  <2>4. ASSUME NEW r \in Registered', NEW q \in {r},
               \A x \in Registered' : identity'[x].app = identity'[r].app
                                         => identity'[x].id <= identity'[r].id
        PROVE  IsCurrent(r)' <=> stage'[r] # "ended"
    <3>1. CASE r = s
      BY <2>1, <3>1
    <3>2. CASE r \in Registered /\ identity[r].app = a
      BY <1>1, <2>3, <2>4, <3>2
    <3>3. CASE r \in Registered /\ identity[r].app # a
      <4>1. \A x \in Registered : identity[x].app = identity[r].app
                                   => identity[x].id <= identity[r].id
        BY <1>1, <2>4, <3>3
      <4> QED
        BY <2>2, <3>3, <4>1 DEF NewestSessionCounts
    <3> QED
      BY <1>1, <3>1, <3>2, <3>3
  <2> QED
    BY <2>4 DEF NewestSessionCounts
<1> QED
  BY <1>5, <1>6, <1>7, <1>8, <1>9

\* Steps of a session on its own.
LEMMA StageKeepsVInv ==
  ASSUME VInv, NEW s \in Session,
         Accept(s) \/ EndUnregistered(s) \/ Replaced(s) \/ Break(s)
  PROVE  SessionsTypeOK' /\ LeftoverOK' /\ IdsAreUnique'
           /\ ConnectionsHaveSessions' /\ NewestSessionCounts'
<1> USE DEF VInv, Registered
<1>1. UNCHANGED <<clients, nextConnectionId, identity, leftover>>
  BY DEF Accept, EndUnregistered, Replaced, Break, vars
<1>2. PICK to \in Stage :
        /\ stage' = [stage EXCEPT ![s] = to]
        /\ stage[s] \in {"registered", "closing"} <=> to \in {"registered", "closing"}
        /\ to \in {"none", "accepted"} => s \notin Registered
        /\ s \in Registered => stage[s] # "ended" /\ to # "ended"
  BY DEF Accept, EndUnregistered, Replaced, Break, Move, Stage, SessionsTypeOK
<1>3. SessionsTypeOK' /\ LeftoverOK' /\ IdsAreUnique'
  BY <1>1, <1>2 DEF SessionsTypeOK, LeftoverOK, IdsAreUnique
<1>4. \A r \in Session :
        stage'[r] \in {"registered", "closing"} <=> stage[r] \in {"registered", "closing"}
  BY <1>2 DEF SessionsTypeOK
<1>5. ConnectionsHaveSessions'
  BY <1>1, <1>4 DEF ConnectionsHaveSessions, Connected
<1>6. \A r \in Registered :
        /\ stage'[r] # "ended" <=> stage[r] # "ended"
        /\ IsCurrent(r)' <=> IsCurrent(r)
  BY <1>1, <1>2 DEF SessionsTypeOK, IsCurrent, VerifyConnection, Connected
<1>7. NewestSessionCounts'
  BY <1>1, <1>6 DEF NewestSessionCounts
<1> QED
  BY <1>3, <1>5, <1>7

\* The one connection that a teardown takes away is the session's own, and
\* the session is the newest of its application.
LEMMA TeardownKeepsVInv ==
  ASSUME VInv, NEW s \in Session, NEW wait \in LockWait, Teardown(s, wait)
  PROVE  SessionsTypeOK' /\ LeftoverOK' /\ IdsAreUnique'
           /\ ConnectionsHaveSessions' /\ NewestSessionCounts'
<1> USE DEF VInv
<1>1. /\ stage[s] = "closing" /\ stage' = [stage EXCEPT ![s] = "ended"]
      /\ UNCHANGED <<nextConnectionId, identity, leftover>>
      /\ Registered' = Registered /\ s \in Registered
  BY DEF Teardown, Move, Disconnect, vars, Registered, SessionsTypeOK
<1>2. SessionsTypeOK' /\ LeftoverOK' /\ IdsAreUnique'
  BY <1>1 DEF SessionsTypeOK, LeftoverOK, IdsAreUnique, Stage
<1>3. /\ \A b \in Connected' : b \in Connected /\ clients'[b].id = clients[b].id
      /\ \A b \in Connected : b \in Connected' \/ (IsCurrent(s) /\ b = identity[s].app)
      /\ ~IsCurrent(s)'
  <2>1. CASE IsCurrent(s)
    <3> DEFINE a == identity[s].app
    <3>1. Connected' = Connected \ {a} /\ \A b \in Connected' : clients'[b].id = clients[b].id
      BY <2>1 DEF Teardown, Disconnect, Connected, SInv, ServiceTypeOK, ClientsTypeOK,
                  ClientConnection
    <3> QED
      BY <1>1, <2>1, <3>1 DEF IsCurrent, VerifyConnection
  <2>2. CASE ~IsCurrent(s)
    BY <1>1, <2>2 DEF Teardown, vars, Connected, IsCurrent, VerifyConnection
  <2> QED
    BY <2>1, <2>2
<1>4. ASSUME NEW r \in Registered, r # s
      PROVE  stage'[r] = stage[r]
  BY <1>1, <1>4 DEF SessionsTypeOK
<1>5. ConnectionsHaveSessions'
  <2>1. ASSUME NEW b \in Connected'
        PROVE  \E r \in Session : /\ stage'[r] \in {"registered", "closing"}
                                  /\ identity'[r].app = b /\ identity'[r].id = clients'[b].id
    <3>1. PICK r \in Session : /\ stage[r] \in {"registered", "closing"}
                               /\ identity[r].app = b /\ identity[r].id = clients[b].id
      BY <1>3 DEF ConnectionsHaveSessions
    <3>2. r \in Registered
      BY <3>1 DEF SessionsTypeOK
    <3>3. r # s
      BY <1>1, <1>3, <3>1 DEF IsCurrent, VerifyConnection
    <3> QED
      BY <1>1, <1>3, <1>4, <3>1, <3>2, <3>3
  <2>2. ASSUME NEW b \in Connected'
        PROVE  \A r \in Registered' : identity'[r].app = b => identity'[r].id <= clients'[b].id
    BY <1>1, <1>3 DEF ConnectionsHaveSessions
  <2> QED
    BY <2>1, <2>2 DEF ConnectionsHaveSessions
<1>6. NewestSessionCounts'
  <2>1. ASSUME NEW r \in Registered,
               \A q \in Registered : identity[q].app = identity[r].app
                                       => identity[q].id <= identity[r].id
        PROVE  IsCurrent(r)' <=> stage'[r] # "ended"
    <3>1. CASE r = s
      BY <1>1, <1>3, <3>1 DEF SessionsTypeOK
    <3>2. CASE r # s /\ IsCurrent(s) /\ identity[r].app = identity[s].app
      <4>1. identity[s].id <= identity[r].id /\ identity[r].id <= identity[s].id
        BY <1>1, <2>1, <3>2 DEF IsCurrent, VerifyConnection, ConnectionsHaveSessions
      <4>2. identity[s].id \in Nat /\ identity[r].id \in Nat
        BY <1>1, BoundAssumption DEF SessionsTypeOK, ConnectionId
      <4> QED
        BY <1>1, <3>2, <4>1, <4>2 DEF IdsAreUnique
    <3>3. CASE r # s /\ ~(IsCurrent(s) /\ identity[r].app = identity[s].app)
      <4>1. IsCurrent(r)' <=> IsCurrent(r)
        BY <1>1, <1>3, <3>3 DEF IsCurrent, VerifyConnection
      <4> QED
        BY <1>4, <2>1, <3>3, <4>1 DEF NewestSessionCounts
    <3> QED
      BY <3>1, <3>2, <3>3
  <2> QED
    BY <1>1, <2>1 DEF NewestSessionCounts
<1> QED
  BY <1>2, <1>5, <1>6

-----------------------------------------------------------------------------
\* The invariant holds always.

LEMMA InitVInv == ServerInit => VInv
<1> SUFFICES ASSUME ServerInit PROVE VInv
  OBVIOUS
<1>1. SInv /\ Connected = {}
  BY InitSInv DEF ServerInit, Init, Connected
<1>2. Registered = {} /\ stage = [s \in Session |-> "none"]
        /\ leftover = [s \in Session |-> << >>] /\ identity = [s \in {} |-> 0]
  BY DEF ServerInit, Registered
<1>3. SessionsTypeOK
  BY <1>2 DEF SessionsTypeOK, Stage
<1>4. LeftoverOK
  BY <1>2, QueueAssumption DEF LeftoverOK
<1> QED
  BY <1>1, <1>2, <1>3, <1>4 DEF VInv, IdsAreUnique, ConnectionsHaveSessions, NewestSessionCounts

LEMMA ForwardKeepsLeftover ==
  ASSUME VInv, NEW s \in Session, Forward(s)
  PROVE  LeftoverOK'
<1>1. Registered' = Registered
  BY DEF Forward, Registered
<1>2. CASE UNCHANGED leftover
  BY <1>1, <1>2 DEF VInv, LeftoverOK
<1>3. CASE leftover[s] # << >> /\ leftover' = [leftover EXCEPT ![s] = Tail(@)]
  <2>1. leftover[s] \in Seq(SamToApplication) /\ Len(leftover[s]) <= QueueDepth
          /\ s \in Registered
    BY <1>3 DEF VInv, LeftoverOK
  <2>2. Tail(leftover[s]) \in Seq(SamToApplication) /\ Len(Tail(leftover[s])) <= QueueDepth
    BY <1>3, <2>1, QueueAssumption
  <2> QED
    BY <1>1, <1>3, <2>1, <2>2 DEF VInv, LeftoverOK
<1> QED
  BY <1>2, <1>3 DEF Forward

LEMMA NextKeepsVInv == VInv /\ [ServerNext]_serverVars => VInv'
<1> SUFFICES ASSUME VInv, [ServerNext]_serverVars PROVE VInv'
  OBVIOUS
<1> DEFINE Kept == SessionsTypeOK' /\ LeftoverOK' /\ IdsAreUnique'
                     /\ ConnectionsHaveSessions' /\ NewestSessionCounts'
<1>1. SInv'
  BY NextIsServices, NextKeepsSInv DEF VInv
<1>2. ASSUME UNCHANGED <<identity, leftover>>
      PROVE  LeftoverOK'
  BY <1>2 DEF VInv, LeftoverOK, Registered
<1>3. CASE UNCHANGED serverVars
  <2>1. SameIds /\ UNCHANGED nextConnectionId
    BY <1>3, TakeAndTickKeepIds DEF serverVars, VInv
  <2> QED
    BY <1>2, <1>3, <2>1, SameIdsKeepSessions, <1>1 DEF serverVars, sessionVars, VInv
<1>4. ASSUME NEW s \in Session, SessionNext(s)
      PROVE  Kept
  <2>1. CASE Accept(s) \/ EndUnregistered(s) \/ Replaced(s) \/ Break(s)
    BY <2>1, StageKeepsVInv
  <2>2. CASE Forward(s)
    <3>1. SameIds /\ UNCHANGED nextConnectionId
      BY <2>2, ForwardIsServices, TakeAndTickKeepIds DEF VInv
    <3> QED
      BY <2>2, <3>1, SameIdsKeepSessions, ForwardKeepsLeftover DEF Forward
  <2>3. CASE \E wait \in LockWait, a \in App : RegisterSession(s, a, wait)
    BY <2>3, RegisterKeepsVInv
  <2>4. CASE \E wait \in LockWait : Receive(s, wait)
    BY <1>2, <2>4, ReceiveIsServices, SameIdsKeepSessions DEF sessionVars
  <2>5. CASE \E wait \in LockWait : Teardown(s, wait)
    BY <2>5, TeardownKeepsVInv
  <2> QED
    BY <1>4, <2>1, <2>2, <2>3, <2>4, <2>5 DEF SessionNext
<1>5. ASSUME \/ \E m \in RequestedMode : RequestMode(m)
             \/ \E wait \in LockWait : RefreshHealth(wait)
             \/ Tick,
             UNCHANGED sessionVars
      PROVE  Kept
  <2>1. SameIds /\ UNCHANGED nextConnectionId
    BY <1>5, CallsKeepIds, TakeAndTickKeepIds DEF VInv
  <2> QED
    BY <1>2, <1>5, <2>1, SameIdsKeepSessions DEF sessionVars
<1> QED
  BY <1>1, <1>3, <1>4, <1>5 DEF ServerNext, VInv

LEMMA AlwaysVInv == ServerSpec => []VInv
BY InitVInv, NextKeepsVInv, PTL DEF ServerSpec

-----------------------------------------------------------------------------
\* What follows for the server.

\* The tasks of the server call the service only as SamService lets them:
\* every theorem about Spec is one about the server.
THEOREM ServerUsesService == ServerSpec => Spec
<1>1. ServerInit => Init
  BY DEF ServerInit
<1> QED
  BY <1>1, AlwaysVInv, NextIsServices, PTL DEF ServerSpec, Spec

\* The types of the sessions' state, and that no queue outgrows its depth.
THEOREM ServerTypeCorrect == ServerSpec => []ServerTypeOK
<1>1. VInv => ServerTypeOK
  BY DEF VInv, SessionsTypeOK, LeftoverOK, ServerTypeOK
<1> QED
  BY <1>1, AlwaysVInv, PTL

\* No stale connected entry (server.rs:145-147): each connection the service
\* knows has one session, and that session has yet to disconnect it.
THEOREM NoStaleEntry == ServerSpec => []ClientHasSession
<1>1. VInv => ClientHasSession
  <2> SUFFICES ASSUME VInv, NEW a \in Connected
               PROVE  \E s \in Session :
                        /\ stage[s] \in {"registered", "closing"}
                        /\ identity[s] = [app |-> a, id |-> clients[a].id]
                        /\ \A r \in Registered \ {s} : identity[r].id # clients[a].id
    BY DEF ClientHasSession
  <2>1. PICK s \in Session : /\ stage[s] \in {"registered", "closing"}
                             /\ identity[s].app = a /\ identity[s].id = clients[a].id
    BY DEF VInv, ConnectionsHaveSessions
  <2>2. s \in Registered /\ identity[s] \in [app : App, id : ConnectionId]
    BY <2>1 DEF VInv, SessionsTypeOK
  <2> QED
    BY <2>1, <2>2 DEF VInv, IdsAreUnique
<1> QED
  BY <1>1, AlwaysVInv, PTL

\* The teardown of an old session cannot remove a newer one (service.rs:19-24).
THEOREM NewestStays == ServerSpec => []NewestSessionCounts
BY AlwaysVInv, PTL DEF VInv

-----------------------------------------------------------------------------
\* SamSystem: what is on its way

\* Ids that name a transition are those of the transitions requested so far.
IdsInBound ==
  /\ nextTransitionId \in 1 .. MaxTransition + 1
  /\ phase # "Stable" => transitionId \in 1 .. MaxTransition

\* The types of the processes and of what is on its way.
ChannelsTypeOK ==
  /\ runtime \in [App -> Process]
  /\ holder \in [Session -> SUBSET App]
  /\ up \in [Session -> Seq(ApplicationToSam)]
  /\ down \in [Session -> Seq(SamToApplication)]

YInv == VInv /\ IdsInBound /\ ChannelsTypeOK

-----------------------------------------------------------------------------
\* Ids

LEMMA InitIds == Init => IdsInBound
<1>1. 1 % IdSpace = 1
  BY IdSpaceAssumption, SystemAssumption, BoundAssumption, SMT
<1> QED
  BY <1>1, BoundAssumption DEF Init, Modes!New, IdsInBound

LEMMA NextKeepsIds == SInv /\ IdsInBound /\ [Next]_vars => IdsInBound'
<1> SUFFICES ASSUME SInv, IdsInBound, [Next]_vars PROVE IdsInBound'
  OBVIOUS
<1>1. CASE UNCHANGED modeVars
  BY <1>1 DEF modeVars, IdsInBound
<1>2. ASSUME NEW m \in SystemMode, RequestMode(m)
      PROVE  IdsInBound'
  <2>1. nextTransitionId \in 1 .. MaxTransition
    BY <1>2, BoundAssumption DEF RequestMode, IdsInBound
  <2>2. (nextTransitionId + 1) % IdSpace = nextTransitionId + 1
    BY <2>1, IdSpaceAssumption, SystemAssumption, BoundAssumption, SMT
  <2> QED
    BY <1>2, <2>1, <2>2, BoundAssumption
       DEF RequestMode, Modes!RequestTransition, Modes!NextId, IdsInBound
<1>3. ASSUME NEW a, NEW b, NEW c, NEW wait, NEW t, NEW m,
             \/ HandleModeReady(a, c, ModeReady(b, t))
             \/ HandleModeRejected(a, c, ModeRejected(b, t))
             \/ HandleModeCommitted(a, c, ModeCommitted(b, t, m), wait)
      PROVE  IdsInBound'
  BY <1>3 DEF HandleModeReady, HandleModeRejected, HandleModeCommitted, IdsInBound,
              Modes!ApplicationReady, Modes!ApplicationRejected, Modes!ApplicationCommitted,
              Modes!AcceptsReady, Modes!AcceptsRejection, Modes!AcceptsCommit, Modes!Settle
<1>4. CASE Next
  BY <1>1, <1>2, <1>3, <1>4, ServiceSteps
     DEF Register, Disconnect, HandleHeartbeat, RefreshHealth, Take, Tick
<1> QED
  BY <1>1, <1>4 DEF vars

-----------------------------------------------------------------------------
\* Messages and queues

LEMMA ApplicationMessages ==
  /\ \A a \in App : RegisterMessage(a) \in ApplicationToSam
  /\ \A a \in App, h \in ReportedHealth, m \in SystemMode : Heartbeat(a, h, m) \in ApplicationToSam
  /\ \A a \in App, t \in TransitionId :
       ModeReady(a, t) \in ApplicationToSam /\ ModeRejected(a, t) \in ApplicationToSam
  /\ \A a \in App, t \in TransitionId, m \in SystemMode :
       ModeCommitted(a, t, m) \in ApplicationToSam
BY DEF RegisterMessage, Heartbeat, ModeReady, ModeRejected, ModeCommitted, ApplicationToSam

\* A message is what its constructor makes of its parts.
LEMMA MessageParts ==
  ASSUME NEW message \in ApplicationToSam
  PROVE  /\ message # Fragment => message.app \in App
         /\ message.type = "Register" => message # Fragment
         /\ message.type = "Heartbeat" =>
              /\ message.health \in ReportedHealth /\ message.mode \in SystemMode
              /\ message = Heartbeat(message.app, message.health, message.mode)
         /\ message.type = "ModeReady" => message = ModeReady(message.app, message.id)
         /\ message.type = "ModeRejected" => message = ModeRejected(message.app, message.id)
         /\ message.type = "ModeCommitted" =>
              /\ message.mode \in SystemMode
              /\ message = ModeCommitted(message.app, message.id, message.mode)
BY DEF Heartbeat, ModeReady, ModeRejected, ModeCommitted, ApplicationToSam, Fragment

LEMMA OrderParts ==
  ASSUME NEW message \in SamToApplication
  PROVE  /\ message.type \in {"RegisterAccepted", "PrepareMode", "CommitMode"}
              => message.mode \in SystemMode
         /\ message.type \in {"PrepareMode", "CommitMode"} => message.id \in TransitionId
BY DEF SamToApplication

LEMMA QueueRest ==
  ASSUME NEW S, NEW queue \in Seq(S), queue # << >>
  PROVE  Head(queue) \in S /\ Tail(queue) \in Seq(S)
OBVIOUS

\* What waits for the session is messages, whether or not it is current.
LEMMA OutgoingType ==
  ASSUME VInv, NEW s \in Session
  PROVE  Outgoing(s) \in Seq(SamToApplication)
<1>1. leftover[s] \in Seq(SamToApplication)
  BY DEF VInv, LeftoverOK
<1>2. ASSUME IsCurrent(s)
      PROVE  clients[identity[s].app].outbound \in Seq(SamToApplication)
  BY <1>2 DEF IsCurrent, VerifyConnection, VInv, SInv, ServiceTypeOK, ClientsTypeOK, ClientConnection
<1> QED
  BY <1>1, <1>2 DEF Outgoing

-----------------------------------------------------------------------------
\* The steps of a session's task, with those that nothing forces, are
\* SamServer's, and keep the channels' types.

SessionStep(s) == ServerStep(s) \/ Expires(s) \/ Cut(s)

LEMMA HandlesIsServers ==
  ASSUME YInv, NEW s \in Session, Handles(s)
  PROVE  Receive(s, 0) \/ UNCHANGED serverVars
<1> DEFINE message == Head(up[s])
           a == identity[s].app
           c == identity[s].id
<1>1. message \in ApplicationToSam /\ up[s] # << >> /\ stage[s] = "registered"
        /\ HandleMessage(a, c, message) /\ UNCHANGED sessionVars
  BY DEF YInv, ChannelsTypeOK, Handles
<1> HIDE DEF message, a, c
<1>2. CASE message.type = "Heartbeat" /\ HandleHeartbeat(a, c, message, 0)
  <2>1. message.app = a
    BY <1>2 DEF HandleHeartbeat, VerifyApplication
  <2>2. \E h \in ReportedHealth, m \in ReportedMode : HandleHeartbeat(a, c, Heartbeat(a, h, m), 0)
    BY <1>1, <1>2, <2>1, MessageParts, SystemAssumption
  <2> QED
    BY <1>1, <2>2 DEF Receive, a, c
<1>3. CASE message.type = "ModeReady" /\ HandleModeReady(a, c, message)
  <2>1. message.app = a /\ message.id \in 1 .. MaxTransition
    BY <1>3 DEF HandleModeReady, VerifyApplication, Modes!ApplicationReady, Modes!AcceptsReady,
                YInv, IdsInBound
  <2>2. \E t \in 1 .. MaxTransition : HandleModeReady(a, c, ModeReady(a, t))
    BY <1>1, <1>3, <2>1, MessageParts
  <2> QED
    BY <1>1, <2>2 DEF Receive, a, c
<1>4. CASE message.type = "ModeRejected" /\ HandleModeRejected(a, c, message)
  <2>1. message.app = a /\ message.id \in 1 .. MaxTransition
    BY <1>4 DEF HandleModeRejected, VerifyApplication, Modes!ApplicationRejected,
                Modes!AcceptsRejection, YInv, IdsInBound
  <2>2. \E t \in 1 .. MaxTransition : HandleModeRejected(a, c, ModeRejected(a, t))
    BY <1>1, <1>4, <2>1, MessageParts
  <2> QED
    BY <1>1, <2>2 DEF Receive, a, c
<1>5. CASE message.type = "ModeCommitted" /\ HandleModeCommitted(a, c, message, 0)
  <2>1. message.app = a /\ message.id \in 1 .. MaxTransition
    BY <1>5 DEF HandleModeCommitted, VerifyApplication, Modes!ApplicationCommitted,
                Modes!AcceptsCommit, YInv, IdsInBound
  <2>2. \E t \in 1 .. MaxTransition, m \in ReportedMode :
          HandleModeCommitted(a, c, ModeCommitted(a, t, m), 0)
    BY <1>1, <1>5, <2>1, MessageParts, SystemAssumption
  <2> QED
    BY <1>1, <2>2 DEF Receive, a, c
<1>6. CASE UNCHANGED vars
  BY <1>1, <1>6 DEF serverVars
<1> QED
  BY <1>1, <1>2, <1>3, <1>4, <1>5, <1>6 DEF HandleMessage

LEMMA SessionStepIsServers ==
  ASSUME YInv, NEW s \in Session, SessionStep(s)
  PROVE  [ServerNext]_serverVars
<1>1. 0 \in LockWait
  BY TimeAssumption DEF LockWait
<1>2. CASE Registers(s)
  <2>1. Head(up[s]).app \in App
    BY <1>2, QueueRest, MessageParts DEF Registers, YInv, ChannelsTypeOK
  <2> QED
    BY <1>1, <1>2, <2>1 DEF Registers, ServerNext, SessionNext
<1>3. CASE Handles(s)
  BY <1>1, <1>3, HandlesIsServers DEF ServerNext, SessionNext
<1>4. CASE Sends(s) \/ Refuses(s) \/ SeesEnd(s) \/ Ends(s)
  BY <1>1, <1>4 DEF Sends, Refuses, SeesEnd, Ends, ServerNext, SessionNext
<1>5. CASE Misses(s) \/ Expires(s)
  BY <1>5 DEF Misses, Expires, ServerNext, SessionNext
<1> QED
  BY <1>2, <1>3, <1>4, <1>5 DEF SessionStep, ServerStep, Delivers, Cut, Cuts

\* What a cut leaves on the connection.
LEMMA CutLeaves ==
  ASSUME ChannelsTypeOK, NEW s \in Session, Cuts(s)
  PROVE  /\ up' \in [Session -> Seq(ApplicationToSam)]
         /\ \A r \in Session \ {s} : up'[r] = up[r]
         /\ Len(up'[s]) = 1 /\ OutOfStep(s)' /\ Sends(s)
<1>1. up' = [up EXCEPT ![s] = <<Fragment>>] /\ Sends(s)
  BY DEF Cuts
<1>2. <<Fragment>> \in Seq(ApplicationToSam)
  BY DEF ApplicationToSam
<1>3. up'[s] = <<Fragment>>
  BY <1>1 DEF ChannelsTypeOK
<1> QED
  BY <1>1, <1>2, <1>3 DEF OutOfStep, ChannelsTypeOK

LEMMA SessionStepKeepsTypes ==
  ASSUME YInv, NEW s \in Session, SessionStep(s)
  PROVE  ChannelsTypeOK'
<1> USE DEF YInv, ChannelsTypeOK
<1>1. UNCHANGED <<runtime, holder>>
  BY DEF SessionStep, ServerStep, Expires, Cut
<1>2. CASE Registers(s) \/ Handles(s)
  <2>1. Tail(up[s]) \in Seq(ApplicationToSam)
    BY <1>2, QueueRest DEF Registers, Handles
  <2> QED
    BY <1>1, <1>2, <2>1 DEF Registers, Handles, Drained
<1>3. ASSUME Sends(s)
      PROVE  down' \in [Session -> Seq(SamToApplication)]
  <2>1. Outgoing(s) # << >>
    BY <1>3 DEF Sends, Forward, Take, Outgoing
  <2>2. Head(Outgoing(s)) \in SamToApplication
    BY <2>1, OutgoingType, QueueRest
  <2>3. ASSUME NEW m \in SamToApplication
        PROVE  Append(down[s], m) \in Seq(SamToApplication)
    OBVIOUS
  <2> QED
    BY <1>1, <1>3, <2>2, <2>3 DEF Sends
<1>4. CASE Refuses(s) \/ SeesEnd(s) \/ Ends(s) \/ Misses(s) \/ Expires(s)
  <2>1. << >> \in Seq(ApplicationToSam)
    OBVIOUS
  <2>2. up' = [up EXCEPT ![s] = << >>] /\ UNCHANGED down
    BY <1>4 DEF Refuses, SeesEnd, Ends, Misses, Expires, Unread
  <2> QED
    BY <1>1, <2>1, <2>2
<1>5. CASE Delivers(s) \/ Cuts(s)
  BY <1>1, <1>3, <1>5, CutLeaves DEF Delivers, Cuts
<1> QED
  BY <1>2, <1>4, <1>5 DEF SessionStep, ServerStep, Cut

-----------------------------------------------------------------------------
\* The processes' steps

\* What a process does to its own state, to its connection and to SAM's end.
LEMMA ProcessTypes ==
  ASSUME ChannelsTypeOK, NEW a \in App, NEW s \in Session
  PROVE  /\ \A place \in {"off", "idle", "registering", "running"} :
              MoveTo(a, place) => runtime' \in [App -> Process]
         /\ \A m \in SystemMode, h \in Policy : Runs(a, m, h) => runtime' \in [App -> Process]
         /\ LetGo(s) => holder' \in [Session -> SUBSET App] /\ down' \in [Session -> Seq(SamToApplication)]
         /\ \A message \in ApplicationToSam :
              Write(s, message) => up' \in [Session -> Seq(ApplicationToSam)]
<1> USE DEF ChannelsTypeOK
<1>1. ASSUME NEW place \in {"off", "idle", "registering", "running"}, MoveTo(a, place)
      PROVE  runtime' \in [App -> Process]
  BY <1>1 DEF MoveTo, Process
<1>2. ASSUME NEW m \in SystemMode, NEW h \in Policy, Runs(a, m, h)
      PROVE  runtime' \in [App -> Process]
  BY <1>2 DEF Runs, Process
<1>3. << >> \in Seq(SamToApplication)
  OBVIOUS
<1>4. ASSUME NEW message \in ApplicationToSam, Write(s, message)
      PROVE  up' \in [Session -> Seq(ApplicationToSam)]
  <2>1. Append(up[s], message) \in Seq(ApplicationToSam)
    OBVIOUS
  <2> QED
    BY <1>4, <2>1 DEF Write
<1> QED
  BY <1>1, <1>2, <1>3, <1>4 DEF LetGo

LEMMA PolicyTypes ==
  ASSUME ChannelsTypeOK, NEW a \in App, NEW m
  PROVE  /\ runtime[a].handler \in Policy /\ runtime[a].mode \in SystemMode
         /\ AfterPrepare(runtime[a].handler, m) \in Policy
         /\ \A h \in Policy : Started(h) \in Process
         /\ NotStarted \in Process
<1>1. runtime[a].handler \in Policy /\ runtime[a].mode \in SystemMode
  BY DEF ChannelsTypeOK, Process
<1>2. AfterPrepare(runtime[a].handler, m) \in Policy
  BY <1>1 DEF AfterPrepare, Policy
<1>3. 0 \in 0 .. MaxSession /\ "Startup" \in SystemMode /\ "agrees" \in Policy
  BY SessionAssumption DEF SystemMode, Policy
<1> QED
  BY <1>1, <1>2, <1>3 DEF Started, NotStarted, Process

\* What is left behind by a process that ends.
LEMMA BecomesType ==
  ASSUME ChannelsTypeOK, NEW a \in App, NEW process \in Process, Becomes(a, process)
  PROVE  /\ runtime' \in [App -> Process]
         /\ holder' \in [Session -> SUBSET App]
         /\ down' \in [Session -> Seq(SamToApplication)]
<1>1. << >> \in Seq(SamToApplication)
  OBVIOUS
<1> QED
  BY <1>1 DEF ChannelsTypeOK, Becomes

LEMMA ClientStepKeepsTypes ==
  ASSUME YInv, NEW a \in App, NEW s \in Session, ClientStep(a, s)
  PROVE  ChannelsTypeOK'
<1> DEFINE Rest == /\ down[s] # << >>
                   /\ Head(down[s]) \in SamToApplication
                   /\ Tail(down[s]) \in Seq(SamToApplication)
<1>1. ChannelsTypeOK
  BY DEF YInv
<1>2. down[s] # << >> => Rest
  BY <1>1, QueueRest DEF ChannelsTypeOK
<1>3. CASE Connect(a, s)
  <2>1. <<RegisterMessage(a)>> \in Seq(ApplicationToSam)
    BY ApplicationMessages
  <2>2. [runtime[a] EXCEPT !.at = "registering", !.session = s] \in Process
    <3>1. runtime[a] \in Process
      BY <1>1 DEF ChannelsTypeOK
    <3>2. s \in 0 .. MaxSession
      BY SessionAssumption DEF Session
    <3> QED
      BY <3>1, <3>2 DEF Process
  <2>3. {a} \in SUBSET App
    OBVIOUS
  <2>4. runtime' \in [App -> Process]
    BY <1>1, <1>3, <2>2 DEF Connect, ChannelsTypeOK
  <2>5. holder' \in [Session -> SUBSET App]
    BY <1>1, <1>3, <2>3 DEF Connect, ChannelsTypeOK
  <2>6. up' \in [Session -> Seq(ApplicationToSam)]
    BY <1>1, <1>3, <2>1 DEF Connect, ChannelsTypeOK
  <2> QED
    BY <1>1, <1>3, <2>4, <2>5, <2>6 DEF Connect, ChannelsTypeOK
<1>4. CASE ReceivesRegistration(a, s)
  <2>1. Rest /\ Head(down[s]).mode \in SystemMode /\ UNCHANGED up
    BY <1>2, <1>4, OrderParts DEF ReceivesRegistration
  <2>2. CASE Runs(a, Head(down[s]).mode, runtime[a].handler)
               /\ down' = [down EXCEPT ![s] = Tail(@)] /\ UNCHANGED holder
    BY <1>1, <2>1, <2>2, ProcessTypes, PolicyTypes DEF ChannelsTypeOK
  <2>3. CASE Becomes(a, NotStarted)
    BY <1>1, <2>1, <2>3, BecomesType, PolicyTypes DEF ChannelsTypeOK
  <2> QED
    BY <1>4, <2>2, <2>3 DEF ReceivesRegistration, Synchronize
<1>5. CASE RegistrationEnds(a, s) \/ SessionEnds(a, s)
  BY <1>1, <1>5, ProcessTypes DEF RegistrationEnds, SessionEnds, ChannelsTypeOK
<1>6. CASE ReaderEnds(a, s)
  BY <1>1, <1>6, ProcessTypes DEF ReaderEnds, ChannelsTypeOK
<1>7. CASE Beats(a, s)
  <2>1. PICK h \in ReportedHealth : Write(s, Heartbeat(a, h, runtime[a].mode))
    BY <1>7 DEF Beats
  <2>2. runtime' \in [App -> Process]
    BY <1>1, <1>7 DEF Beats, ChannelsTypeOK, Process
  <2> QED
    BY <1>1, <1>7, <2>1, <2>2, ProcessTypes, PolicyTypes, ApplicationMessages DEF Beats, ChannelsTypeOK
<1>8. CASE Answers(a, s)
  <2> DEFINE message == Head(down[s])
  <2>1. Rest /\ down' = [down EXCEPT ![s] = Tail(@)] /\ UNCHANGED holder
    BY <1>2, <1>8 DEF Answers
  <2>2. down' \in [Session -> Seq(SamToApplication)]
    BY <1>1, <2>1 DEF ChannelsTypeOK
  <2>3. CASE Prepare(a, s, message)
    <3>1. message.id \in TransitionId
      BY <2>1, <2>3, OrderParts DEF Prepare
    <3>2. AfterPrepare(runtime[a].handler, message.mode) \in Policy
      BY <1>1, PolicyTypes
    <3>3. runtime' \in [App -> Process]
      BY <1>1, <2>3, <3>2 DEF Prepare, ChannelsTypeOK, Process
    <3>4. up' \in [Session -> Seq(ApplicationToSam)]
      BY <1>1, <2>3, <3>1, ProcessTypes, ApplicationMessages DEF Prepare
    <3> QED
      BY <1>1, <2>1, <2>2, <3>3, <3>4 DEF ChannelsTypeOK
  <2>4. CASE Commit(a, s, message)
    <3>1. message.id \in TransitionId /\ message.mode \in SystemMode
      BY <2>1, <2>4, OrderParts DEF Commit
    <3>2. up' \in [Session -> Seq(ApplicationToSam)]
      BY <1>1, <2>4, <3>1, ProcessTypes, ApplicationMessages DEF Commit, ChannelsTypeOK
    <3>3. runtime' \in [App -> Process]
      BY <1>1, <2>4, <3>1, ProcessTypes, PolicyTypes DEF Commit
    <3> QED
      BY <1>1, <2>1, <2>2, <3>2, <3>3 DEF ChannelsTypeOK
  <2> QED
    BY <1>8, <2>3, <2>4 DEF Answers
<1> QED
  BY <1>3, <1>4, <1>5, <1>6, <1>7, <1>8 DEF ClientStep

\* What the process does on one connection, and what it does on all.
ProcessStep(a, s) == ClientStep(a, s) \/ TimesOut(a, s)

EndsProcess(a) == Crash(a) \/ \E h \in Policy : Launch(a, h)

LEMMA SystemSteps ==
  ASSUME [SystemNext]_systemVars
  PROVE  \/ \E s \in Session : SessionStep(s)
         \/ \E a \in App, s \in Session : ProcessStep(a, s)
         \/ \E a \in App : EndsProcess(a) /\ UNCHANGED <<serverVars, up>>
         \/ Monitor
         \/ \E m \in SystemMode : Command(m)
         \/ UNCHANGED systemVars
BY DEF SystemNext, SystemStep, SessionStep, Trouble, ProcessStep, EndsProcess, Crash, Launch

LEMMA ProcessStepKeepsTypes ==
  ASSUME YInv, NEW a \in App, NEW s \in Session, ProcessStep(a, s)
  PROVE  ChannelsTypeOK'
<1>1. CASE TimesOut(a, s)
  BY <1>1, ProcessTypes DEF TimesOut, YInv, ChannelsTypeOK
<1> QED
  BY <1>1, ClientStepKeepsTypes DEF ProcessStep

LEMMA EndKeepsTypes ==
  ASSUME YInv, NEW a \in App, EndsProcess(a), UNCHANGED up
  PROVE  ChannelsTypeOK'
<1>1. PICK p \in Process : Becomes(a, p)
  BY PolicyTypes DEF EndsProcess, Crash, Launch, YInv
<1> QED
  BY <1>1, BecomesType DEF YInv, ChannelsTypeOK

-----------------------------------------------------------------------------
\* The invariant, and the refinement

LEMMA InitYInv == SystemInit => YInv
<1> SUFFICES ASSUME SystemInit PROVE YInv
  OBVIOUS
<1>1. VInv /\ IdsInBound
  BY InitVInv, InitIds DEF SystemInit, ServerInit
<1>2. runtime \in [App -> Process]
  <2>1. \A h \in Policy : Started(h) \in Process
    BY SessionAssumption DEF Started, Process, SystemMode
  <2> QED
    BY <2>1 DEF SystemInit
<1>3. << >> \in Seq(ApplicationToSam) /\ << >> \in Seq(SamToApplication)
  OBVIOUS
<1>4. ChannelsTypeOK
  BY <1>2, <1>3 DEF SystemInit, ChannelsTypeOK
<1> QED
  BY <1>1, <1>4 DEF YInv

LEMMA NextIsServers == YInv /\ [SystemNext]_systemVars => [ServerNext]_serverVars
<1> SUFFICES ASSUME YInv, [SystemNext]_systemVars PROVE [ServerNext]_serverVars
  OBVIOUS
<1>1. ASSUME NEW s \in Session, NEW a \in App, ProcessStep(a, s)
      PROVE  [ServerNext]_serverVars
  BY <1>1 DEF ProcessStep, TimesOut, ClientStep, Connect, ReceivesRegistration, RegistrationEnds, Beats, Answers,
              SessionEnds, ReaderEnds, ServerNext, SessionNext, serverVars
<1>2. 0 \in LockWait
  BY TimeAssumption DEF LockWait
<1>3. CASE Monitor
  BY <1>2, <1>3 DEF Monitor, ServerNext
<1>4. CASE \E m \in SystemMode : Command(m)
  <2>1. PICK m \in RequestedMode : RequestMode(m) /\ UNCHANGED sessionVars
    BY <1>4 DEF Command
  <2> QED
    BY <2>1 DEF ServerNext
<1>5. CASE UNCHANGED systemVars
  BY <1>5 DEF systemVars
<1> QED
  BY <1>1, <1>3, <1>4, <1>5, SessionStepIsServers, SystemSteps

LEMMA NextKeepsYInv == YInv /\ [SystemNext]_systemVars => YInv'
<1> SUFFICES ASSUME YInv, [SystemNext]_systemVars PROVE YInv'
  OBVIOUS
<1>1. [ServerNext]_serverVars
  BY NextIsServers
<1>2. VInv' /\ IdsInBound'
  BY <1>1, NextKeepsVInv, NextIsServices, NextKeepsIds DEF YInv, VInv
<1>3. ASSUME UNCHANGED clientVars
      PROVE  ChannelsTypeOK'
  BY <1>3 DEF clientVars, YInv, ChannelsTypeOK
<1>4. ChannelsTypeOK'
  BY <1>3, SystemSteps, SessionStepKeepsTypes, ProcessStepKeepsTypes, EndKeepsTypes
     DEF Monitor, Command, systemVars
<1> QED
  BY <1>2, <1>4 DEF YInv

LEMMA AlwaysYInv == SystemSpec => []YInv
BY InitYInv, NextKeepsYInv, PTL DEF SystemSpec

\* The closed system, for any number of applications that crash, restart, time
\* out, refuse or fail, and of messages on their way, uses its server as
\* SamServer allows it.
THEOREM SystemUsesServer == SystemSpec => ServerSpec
<1>1. SystemInit => ServerInit
  BY DEF SystemInit
<1> QED
  BY <1>1, AlwaysYInv, NextIsServers, PTL DEF SystemSpec, ServerSpec

\* So no process, however it ends, is shown as connected for longer than its
\* session lasts.
THEOREM SystemHasNoStaleEntry == SystemSpec => []ClientHasSession
BY SystemUsesServer, NoStaleEntry, PTL

-----------------------------------------------------------------------------
\* Queues that are added to and not taken from

Extends(longer, queue) ==
  /\ Len(queue) <= Len(longer)
  /\ \A i \in 1 .. Len(queue) : longer[i] = queue[i]

LEMMA AppendExtends ==
  ASSUME NEW S, NEW queue \in Seq(S), NEW m
  PROVE  Extends(Append(queue, m), queue) /\ Extends(queue, queue)
<1>1. /\ Len(Append(queue, m)) = Len(queue) + 1 /\ Len(queue) \in Nat
      /\ \A i \in 1 .. Len(queue) : Append(queue, m)[i] = queue[i]
  OBVIOUS
<1> QED
  BY <1>1 DEF Extends

LEMMA PostExtends ==
  ASSUME NEW queue \in Seq(SamToApplication), NEW m
  PROVE  Extends(Post(queue, m), queue)
BY AppendExtends DEF Post

LEMMA ExtendedHead ==
  ASSUME NEW queue \in Seq(SamToApplication), NEW longer \in Seq(SamToApplication),
         Extends(longer, queue), queue # << >>
  PROVE  longer # << >> /\ Head(longer) = Head(queue)
<1>1. Len(queue) \in Nat \ {0} /\ Head(queue) = queue[1]
  OBVIOUS
<1>2. Len(longer) \in Nat \ {0} /\ longer[1] = queue[1]
  BY <1>1 DEF Extends
<1> QED
  BY <1>1, <1>2

LEMMA BroadcastExtends ==
  ASSUME ClientsTypeOK, NEW m, Broadcast(m), NEW b \in Connected
  PROVE  Extends(clients'[b].outbound, clients[b].outbound)
<1>1. clients[b].outbound \in Seq(SamToApplication)
  BY DEF ClientsTypeOK, ClientConnection
<1>2. clients'[b].outbound = Post(clients[b].outbound, m)
  BY DEF Broadcast, ClientsTypeOK, ClientConnection
<1> QED
  BY <1>1, <1>2, PostExtends

LEMMA CallsExtend ==
  ASSUME SInv, NEW a, NEW c, NEW msg, NEW wait,
         \/ HandleHeartbeat(a, c, msg, wait)
         \/ HandleModeReady(a, c, msg)
         \/ HandleModeRejected(a, c, msg)
         \/ HandleModeCommitted(a, c, msg, wait)
         \/ RefreshHealth(wait)
         \/ RequestMode(msg),
         NEW b \in Connected
  PROVE  Extends(clients'[b].outbound, clients[b].outbound)
<1>1. ClientsTypeOK
  BY DEF SInv, ServiceTypeOK
<1>2. CASE UNCHANGED clients
  BY <1>1, <1>2, AppendExtends DEF ClientsTypeOK, ClientConnection
<1>3. CASE BroadcastState \/ BroadcastStateIfChanged
  BY <1>1, <1>2, <1>3, BroadcastExtends DEF BroadcastState, BroadcastStateIfChanged
<1> QED
  BY <1>1, <1>2, <1>3, BroadcastExtends
     DEF HandleHeartbeat, HandleModeReady, HandleModeRejected, HandleModeCommitted,
         RefreshHealth, RequestMode

\* A session's queue is its own: only the session takes from it, and when its
\* connection is replaced it keeps what was in it.
LEMMA OutgoingLasts ==
  ASSUME VInv, NEW s \in Session, stage[s] = "registered",
         NEW r \in Session, NEW wait \in LockWait,
         \/ UNCHANGED <<vars, identity, leftover>>
         \/ \E a \in App : RegisterSession(r, a, wait)
         \/ r # s /\ Forward(r)
         \/ Receive(r, wait) \/ Teardown(r, wait)
         \/ /\ RefreshHealth(wait) \/ \E m \in RequestedMode : RequestMode(m)
            /\ UNCHANGED sessionVars
  PROVE  Extends(Outgoing(s)', Outgoing(s))
<1> DEFINE b == identity[s].app
<1>0. /\ s \in Registered /\ b \in App
      /\ Outgoing(s) \in Seq(SamToApplication)
      /\ \A q \in Registered : identity[q].id = identity[s].id => q = s
      /\ ClientsTypeOK
  BY OutgoingType, SessionIsRegistered DEF VInv, SInv, ServiceTypeOK, IdsAreUnique
<1>1. ASSUME UNCHANGED <<clients, identity, leftover>>
      PROVE  Extends(Outgoing(s)', Outgoing(s))
  <2>1. Outgoing(s)' = Outgoing(s)
    BY <1>1 DEF Outgoing, IsCurrent, VerifyConnection, Registered, Connected
  <2> QED
    BY <1>0, <2>1, AppendExtends
<1>2. ASSUME SameIds, UNCHANGED <<identity, leftover>>,
             \A a \in Connected : Extends(clients'[a].outbound, clients[a].outbound)
      PROVE  Extends(Outgoing(s)', Outgoing(s))
  <2>1. IsCurrent(s)' <=> IsCurrent(s)
    BY <1>2 DEF IsCurrent, VerifyConnection, Registered, SameIds
  <2>2. CASE IsCurrent(s)
    BY <1>2, <2>1, <2>2 DEF Outgoing, IsCurrent, VerifyConnection
  <2>3. CASE ~IsCurrent(s)
    BY <1>0, <1>2, <2>1, <2>3, AppendExtends DEF Outgoing
  <2> QED
    BY <2>2, <2>3
<1>3. ASSUME NEW a \in App, RegisterSession(r, a, wait)
      PROVE  Extends(Outgoing(s)', Outgoing(s))
  <2>1. /\ s # r /\ s \in Registered' /\ identity'[s] = identity[s]
        /\ leftover'[s] = IF IsCurrent(s) /\ b = a THEN clients[a].outbound ELSE leftover[s]
        /\ identity[s].id < nextConnectionId /\ identity[s].id \in Nat
    BY <1>0, <1>3, BoundAssumption
       DEF RegisterSession, Move, Registered, VInv, IdsAreUnique, SessionsTypeOK, ConnectionId
  <2>2. /\ Connected' = Connected \cup {a}
        /\ clients'[a].id = nextConnectionId
        /\ \A d \in Connected \ {a} : clients'[d] = clients[d]
    BY <1>3 DEF RegisterSession, Register, Connected
  <2>3. CASE b = a
    <3>1. ~IsCurrent(s)'
      BY <2>1, <2>2, <2>3 DEF IsCurrent, VerifyConnection
    <3>2. Outgoing(s)' = Outgoing(s)
      BY <2>1, <2>3, <3>1 DEF Outgoing
    <3> QED
      BY <1>0, <3>2, AppendExtends
  <2>4. CASE b # a
    <3>1. (IsCurrent(s)' <=> IsCurrent(s)) /\ (IsCurrent(s) => b \in Connected \ {a})
      BY <1>0, <2>1, <2>2, <2>4 DEF IsCurrent, VerifyConnection
    <3>2. Outgoing(s)' = Outgoing(s)
      BY <2>1, <2>2, <2>4, <3>1 DEF Outgoing
    <3> QED
      BY <1>0, <3>2, AppendExtends
  <2> QED
    BY <2>3, <2>4
<1>4. ASSUME r # s, Forward(r)
      PROVE  Extends(Outgoing(s)', Outgoing(s))
  <2>1. CASE IsCurrent(r)
    <3>1. /\ SameIds /\ UNCHANGED <<identity, leftover>>
          /\ \A d \in Connected : d # identity[r].app => clients'[d] = clients[d]
      BY <1>4, <2>1, TakeAndTickKeepIds
         DEF Forward, Take, VInv, IsCurrent, VerifyConnection, SInv, ServiceTypeOK, ClientsTypeOK
    <3>2. IsCurrent(s)' <=> IsCurrent(s)
      BY <3>1 DEF IsCurrent, VerifyConnection, Registered, SameIds
    <3>3. IsCurrent(s) => b # identity[r].app
      BY <1>0, <1>4, <2>1 DEF IsCurrent, VerifyConnection
    <3>4. Outgoing(s)' = Outgoing(s)
      BY <3>1, <3>2, <3>3 DEF Outgoing, IsCurrent, VerifyConnection
    <3> QED
      BY <1>0, <3>4, AppendExtends
  <2>2. CASE ~IsCurrent(r)
    <3>1. UNCHANGED <<clients, identity>> /\ leftover'[s] = leftover[s]
      BY <1>4, <2>2 DEF Forward, vars, VInv, LeftoverOK
    <3>2. Outgoing(s)' = Outgoing(s)
      BY <3>1 DEF Outgoing, IsCurrent, VerifyConnection, Registered, Connected
    <3> QED
      BY <1>0, <3>2, AppendExtends
  <2> QED
    BY <2>1, <2>2
<1>5. ASSUME Receive(r, wait)
      PROVE  Extends(Outgoing(s)', Outgoing(s))
  <2>1. UNCHANGED <<identity, leftover>> /\ SameIds
    BY <1>5, ReceiveIsServices DEF sessionVars
  <2>2. \A d \in Connected : Extends(clients'[d].outbound, clients[d].outbound)
    BY <1>5, CallsExtend DEF Receive, VInv
  <2> QED
    BY <1>2, <2>1, <2>2
<1>6. ASSUME Teardown(r, wait)
      PROVE  Extends(Outgoing(s)', Outgoing(s))
  <2>1. r # s /\ UNCHANGED <<identity, leftover>>
    BY <1>6 DEF Teardown, Move
  <2>2. CASE IsCurrent(r)
    <3>1. /\ Connected' = Connected \ {identity[r].app}
          /\ \A d \in Connected \ {identity[r].app} :
               /\ clients'[d].id = clients[d].id
               /\ clients'[d].outbound =
                    Post(clients[d].outbound, StateBroadcast(systemMode, systemHealth'))
               /\ clients[d].outbound \in Seq(SamToApplication)
      BY <1>0, <1>6, <2>2 DEF Teardown, Disconnect, Connected, ClientsTypeOK, ClientConnection
    <3>2. CASE IsCurrent(s)
      <4>1. b \in Connected \ {identity[r].app} /\ IsCurrent(s)'
        BY <1>0, <2>1, <2>2, <3>1, <3>2 DEF IsCurrent, VerifyConnection, Registered
      <4> QED
        BY <2>1, <3>1, <3>2, <4>1, PostExtends DEF Outgoing
    <3>3. CASE ~IsCurrent(s)
      <4>1. ~IsCurrent(s)'
        BY <2>1, <3>1, <3>3 DEF IsCurrent, VerifyConnection, Registered
      <4> QED
        BY <1>0, <2>1, <3>3, <4>1, AppendExtends DEF Outgoing
    <3> QED
      BY <3>2, <3>3
  <2>3. CASE ~IsCurrent(r)
    BY <1>1, <1>6, <2>1, <2>3 DEF Teardown, vars
  <2> QED
    BY <2>2, <2>3
<1>7. ASSUME RefreshHealth(wait) \/ \E m \in RequestedMode : RequestMode(m),
             UNCHANGED sessionVars
      PROVE  Extends(Outgoing(s)', Outgoing(s))
  <2>1. SameIds /\ UNCHANGED <<identity, leftover>>
    BY <1>7, CallsKeepIds DEF VInv, sessionVars
  <2>2. \A d \in Connected : Extends(clients'[d].outbound, clients[d].outbound)
    BY <1>7, CallsExtend DEF VInv
  <2> QED
    BY <1>2, <2>1, <2>2
<1>8. CASE UNCHANGED <<vars, identity, leftover>>
  BY <1>1, <1>8 DEF vars
<1> QED
  BY <1>3, <1>4, <1>5, <1>6, <1>7, <1>8

LEMMA ForwardTakes ==
  ASSUME VInv, NEW s \in Session, Forward(s)
  PROVE  Outgoing(s) # << >> /\ Outgoing(s)' = Tail(Outgoing(s))
<1>1. CASE IsCurrent(s)
  <2>1. SameIds /\ UNCHANGED <<identity, leftover>> /\ Take(identity[s].app)
    BY <1>1, TakeAndTickKeepIds, SessionIsRegistered DEF Forward, VInv
  <2>2. IsCurrent(s)'
    BY <1>1, <2>1 DEF IsCurrent, VerifyConnection, Registered, SameIds
  <2>3. clients'[identity[s].app].outbound = Tail(clients[identity[s].app].outbound)
          /\ clients[identity[s].app].outbound # << >>
    BY <2>1 DEF Take, VInv, SInv, ServiceTypeOK, ClientsTypeOK, ClientConnection
  <2> QED
    BY <1>1, <2>1, <2>2, <2>3 DEF Outgoing
<1>2. CASE ~IsCurrent(s)
  <2>1. UNCHANGED <<clients, identity>> /\ leftover[s] # << >> /\ leftover'[s] = Tail(leftover[s])
    BY <1>2 DEF Forward, vars, VInv, LeftoverOK
  <2>2. ~IsCurrent(s)'
    BY <1>2, <2>1 DEF IsCurrent, VerifyConnection, Registered, Connected
  <2> QED
    BY <1>2, <2>1, <2>2 DEF Outgoing
<1> QED
  BY <1>1, <1>2

-----------------------------------------------------------------------------
\* The two ends of a connection

\* What is on a connection is bounded, and is there only while somebody may
\* read it; a connection that is not registered yet carries its registration.
EndOK(s) ==
  /\ Len(up[s]) <= Transit /\ Len(down[s]) <= Transit
  /\ stage[s] = "none" => holder[s] = {} /\ up[s] = << >>
  /\ down[s] # << >> => holder[s] # {} /\ s \in Registered
  /\ stage[s] = "accepted" =>
       \E a \in App : up[s] = <<RegisterMessage(a)>> /\ holder[s] \subseteq {a}

EndsOK == \A s \in Session : EndOK(s)

\* A process in a session has the connection to itself, and SAM takes the
\* session for its.
OneProcess ==
  \A a \in App, s \in Session : InSession(a, s) =>
    /\ holder[s] = {a}
    /\ s \in Registered => identity[s].app = a
    /\ runtime[a].at = "running" => s \in Registered

\* A process that awaits its registration finds the acceptance before all else:
\* every path that reaches it begins with one.
AcceptanceFirst ==
  \A a \in App, s \in Session : InSession(a, s) /\ runtime[a].at = "registering" =>
    /\ down[s] # << >> => Head(down[s]).type = "RegisterAccepted"
    /\ stage[s] = "registered" /\ down[s] = << >> =>
         Outgoing(s) # << >> /\ Head(Outgoing(s)).type = "RegisterAccepted"

CInv == YInv /\ EndsOK /\ OneProcess /\ AcceptanceFirst

\* SAM's side of a connection, and what is on the connection.
SameSession(s) ==
  /\ stage'[s] = stage[s]
  /\ s \in Registered' <=> s \in Registered
  /\ s \in Registered => identity'[s] = identity[s]

SameLines(s) == up'[s] = up[s] /\ down'[s] = down[s]

LEMMA NothingRegisters ==
  ASSUME NEW s, UNCHANGED <<stage, identity>>
  PROVE  SameSession(s)
BY DEF SameSession, Registered

LEMMA MoveIsOwn ==
  ASSUME VInv, NEW r \in Session, NEW from, NEW to, Move(r, from, to), NEW s \in Session
  PROVE  stage'[r] = to /\ (s # r => stage'[s] = stage[s])
BY DEF Move, VInv, SessionsTypeOK

\* A session's step leaves the other connections alone.
LEMMA SessionStepIsOwn ==
  ASSUME YInv, NEW r \in Session, SessionStep(r), NEW s \in Session, s # r
  PROVE  SameSession(s) /\ SameLines(s)
<1>1. VInv /\ up \in [Session -> Seq(ApplicationToSam)] /\ down \in [Session -> Seq(SamToApplication)]
  BY DEF YInv, ChannelsTypeOK
<1>2. CASE Registers(r)
  <2>1. PICK a : RegisterSession(r, a, 0)
    BY <1>2 DEF Registers
  <2>2. SameSession(s)
    BY <1>1, <2>1, MoveIsOwn DEF RegisterSession, SameSession, Registered
  <2> QED
    BY <1>1, <1>2, <2>2 DEF Registers, Drained, SameLines
<1>3. CASE Delivers(r) \/ Cuts(r) \/ Handles(r)
  <2>1. UNCHANGED <<stage, identity>>
    BY <1>3 DEF Delivers, Cuts, Sends, Handles, Forward, sessionVars
  <2>2. down'[s] = down[s]
    BY <1>1, <1>3 DEF Delivers, Cuts, Sends, Handles
  <2>3. up'[s] = up[s]
    BY <1>1, <1>3, CutLeaves DEF Delivers, Handles, Drained, YInv
  <2> QED
    BY <2>1, <2>2, <2>3, NothingRegisters DEF SameLines
<1>4. CASE Refuses(r) \/ SeesEnd(r) \/ Ends(r) \/ Misses(r) \/ Expires(r)
  <2>1. UNCHANGED identity /\ \E from, to : Move(r, from, to)
    BY <1>4 DEF Refuses, SeesEnd, Ends, Misses, Expires, Break, Replaced, Teardown, EndUnregistered
  <2>2. SameSession(s)
    BY <1>1, <2>1, MoveIsOwn DEF SameSession, Registered
  <2> QED
    BY <1>1, <1>4, <2>2 DEF Refuses, SeesEnd, Ends, Misses, Expires, Unread, SameLines
<1> QED
  BY <1>2, <1>3, <1>4 DEF SessionStep, ServerStep, Cut

\* A process leaves alone the connections it has nothing to do with, and every
\* other process.
LEMMA ProcessStepIsOwn ==
  ASSUME YInv, NEW b \in App, NEW r \in Session, ProcessStep(b, r)
  PROVE  /\ \A a \in App : a # b => runtime'[a] = runtime[a]
         /\ \A s \in Session : s # r => SameSession(s) /\ up'[s] = up[s]
         /\ UNCHANGED vars /\ UNCHANGED <<identity, leftover>>
         /\ \A s \in Session :
              \/ s # r /\ holder'[s] = holder[s] /\ down'[s] = down[s]
              \/ s = r
              \/ holder'[s] = holder[s] \ {b} /\ down'[s] = IF b \in holder[s] THEN << >> ELSE down[s]
<1> USE DEF ChannelsTypeOK
<1>1. VInv /\ ChannelsTypeOK
  BY DEF YInv
<1>2. UNCHANGED <<vars, identity, leftover>> /\ (UNCHANGED stage \/ Connect(b, r))
  BY DEF ProcessStep, ClientStep, TimesOut, ReceivesRegistration, RegistrationEnds, Beats, Answers,
         SessionEnds, ReaderEnds, Connect, Accept, sessionVars, serverVars
<1>3. \A s \in Session : s # r => SameSession(s)
  <2>1. CASE UNCHANGED stage
    BY <1>2, <2>1, NothingRegisters
  <2>2. CASE Connect(b, r)
    BY <1>1, <1>2, <2>2, MoveIsOwn DEF Connect, Accept, SameSession, Registered
  <2> QED
    BY <1>2, <2>1, <2>2
<1>4. UNCHANGED runtime \/ \E p : runtime' = [runtime EXCEPT ![b] = p]
  <2>1. ASSUME NEW x, NEW m, NEW h,
               MoveTo(b, x) \/ Runs(b, m, h) \/ Becomes(b, x)
        PROVE  \E p : runtime' = [runtime EXCEPT ![b] = p]
    BY <2>1, <1>1 DEF MoveTo, Runs, Becomes
  <2>2. CASE Connect(b, r) \/ Beats(b, r)
    BY <2>2, <1>1 DEF Connect, Beats
  <2>3. CASE Answers(b, r)
    BY <2>1, <2>3, <1>1 DEF Answers, Prepare, Commit
  <2>4. CASE ReceivesRegistration(b, r) \/ RegistrationEnds(b, r) \/ SessionEnds(b, r)
               \/ ReaderEnds(b, r) \/ TimesOut(b, r)
    BY <2>1, <2>4 DEF ReceivesRegistration, Synchronize, RegistrationEnds, SessionEnds, ReaderEnds,
                      TimesOut
  <2> QED
    BY <2>2, <2>3, <2>4 DEF ProcessStep, ClientStep
<1>5. UNCHANGED up \/ \E q : up' = [up EXCEPT ![r] = q]
  <2>1. ASSUME NEW message, Write(r, message)
        PROVE  UNCHANGED up \/ \E q : up' = [up EXCEPT ![r] = q]
    BY <2>1, <1>1 DEF Write
  <2> QED
    BY <2>1 DEF ProcessStep, ClientStep, Connect, ReceivesRegistration, RegistrationEnds, Beats,
                Answers, Prepare, Commit, SessionEnds, ReaderEnds, TimesOut
<1>6. \/ \A s \in Session : s # r => holder'[s] = holder[s] /\ down'[s] = down[s]
      \/ \A s \in Session : /\ holder'[s] = holder[s] \ {b}
                            /\ down'[s] = IF b \in holder[s] THEN << >> ELSE down[s]
  BY <1>1 DEF ProcessStep, ClientStep, Connect, ReceivesRegistration, Synchronize, RegistrationEnds,
              Beats, Answers, SessionEnds, ReaderEnds, TimesOut, LetGo, Becomes
<1> QED
  BY <1>1, <1>2, <1>3, <1>4, <1>5, <1>6

\* What is left of a process that ended.
LEMMA EndIsOwn ==
  ASSUME ChannelsTypeOK, NEW b \in App, EndsProcess(b)
  PROVE  /\ runtime'[b].at \in {"off", "idle"}
         /\ \A a \in App : a # b => runtime'[a] = runtime[a]
         /\ \A s \in Session : /\ holder'[s] = holder[s] \ {b}
                               /\ down'[s] = IF b \in holder[s] THEN << >> ELSE down[s]
<1>1. PICK p \in {NotStarted} \cup {Started(h) : h \in Policy} : Becomes(b, p)
  BY DEF EndsProcess, Crash, Launch
<1>2. p.at \in {"off", "idle"}
  BY DEF NotStarted, Started
<1> QED
  BY <1>1, <1>2 DEF Becomes, ChannelsTypeOK

\* Nobody touches a process in a session, or its connection, but the process
\* itself and SAM.
LEMMA SessionIsOwn ==
  ASSUME YInv, EndsOK, OneProcess, NEW a \in App, NEW s \in Session, InSession(a, s),
         NEW b \in App,
         \/ \E r \in Session : ProcessStep(b, r) /\ (a # b \/ s # r)
         \/ a # b /\ EndsProcess(b) /\ UNCHANGED <<serverVars, up>>
  PROVE  runtime'[a] = runtime[a] /\ holder'[s] = holder[s] /\ SameLines(s) /\ SameSession(s)
<1>1. holder[s] = {a} /\ ChannelsTypeOK
  BY DEF OneProcess, YInv
<1>2. ASSUME NEW r \in Session, ProcessStep(b, r), a # b, s = r
      PROVE  FALSE
  <2>1. ~InSession(b, s)
    BY <1>1, <1>2 DEF OneProcess
  <2>2. CASE Connect(b, s)
    BY <1>1, <2>2 DEF Connect, Accept, Move, EndsOK, EndOK
  <2>3. CASE ReaderEnds(b, s)
    BY <1>1, <1>2, <2>3 DEF ReaderEnds
  <2> QED
    BY <1>2, <2>1, <2>2, <2>3
       DEF ProcessStep, ClientStep, ReceivesRegistration, RegistrationEnds, Beats, Answers, SessionEnds,
           TimesOut, Running, InSession
<1>3. ASSUME NEW r \in Session, ProcessStep(b, r), a = b, s # r
      PROVE  ReaderEnds(a, r)
  BY <1>3 DEF ProcessStep, ClientStep, ReceivesRegistration, RegistrationEnds, Beats, Answers,
              SessionEnds, TimesOut, Connect, Running, InSession
<1>4. ASSUME NEW r \in Session, ProcessStep(b, r), a = b, s # r
      PROVE  /\ runtime'[a] = runtime[a] /\ holder'[s] = holder[s] /\ SameLines(s)
             /\ SameSession(s)
  <2>1. ReaderEnds(a, r)
    BY <1>3, <1>4
  <2>2. SameSession(s)
    BY <1>4, ProcessStepIsOwn
  <2> QED
    BY <1>1, <1>4, <2>1, <2>2 DEF ReaderEnds, LetGo, SameLines, ChannelsTypeOK
<1>5. ASSUME NEW r \in Session, ProcessStep(b, r), a # b, s # r
      PROVE  /\ runtime'[a] = runtime[a] /\ holder'[s] = holder[s] /\ SameLines(s)
             /\ SameSession(s)
  BY <1>1, <1>5, ProcessStepIsOwn DEF SameLines
<1>6. ASSUME a # b, EndsProcess(b), UNCHANGED <<serverVars, up>>
      PROVE  /\ runtime'[a] = runtime[a] /\ holder'[s] = holder[s] /\ SameLines(s)
             /\ SameSession(s)
  BY <1>1, <1>6, EndIsOwn, NothingRegisters DEF SameLines, serverVars, sessionVars
<1> QED
  BY <1>2, <1>4, <1>5, <1>6

\* A session begins with its connection, which is new then.
LEMMA SessionBegins ==
  ASSUME YInv, NEW a \in App, NEW s \in Session, [SystemNext]_systemVars,
         ~InSession(a, s), InSession(a, s)'
  PROVE  Connect(a, s)
<1>1. ChannelsTypeOK
  BY DEF YInv
<1>2. runtime'[a] # runtime[a]
  BY DEF InSession
<1>3. ASSUME NEW r \in Session, ProcessStep(a, r), ~Connect(a, r)
      PROVE  FALSE
  <2>1. ASSUME MoveTo(a, "idle") \/ Becomes(a, NotStarted)
        PROVE  FALSE
    BY <1>1, <2>1 DEF MoveTo, Becomes, NotStarted, Started, InSession, ChannelsTypeOK, Process
  <2>2. ASSUME InSession(a, r), runtime'[a].session = runtime[a].session
        PROVE  FALSE
    BY <2>2 DEF InSession
  <2>3. CASE ReceivesRegistration(a, r)
    <3>1. PICK m, h : Runs(a, m, h)
      BY <2>1, <2>3 DEF ReceivesRegistration, Synchronize
    <3> QED
      BY <1>1, <2>2, <2>3, <3>1 DEF ReceivesRegistration, Runs, ChannelsTypeOK, Process
  <2>4. CASE Beats(a, r)
    BY <1>1, <2>2, <2>4 DEF Beats, Running, InSession, ChannelsTypeOK, Process
  <2>5. CASE Answers(a, r)
    <3>1. CASE Prepare(a, r, Head(down[r]))
      BY <1>1, <2>2, <2>5, <3>1 DEF Answers, Prepare, Running, InSession, ChannelsTypeOK, Process
    <3>2. CASE Commit(a, r, Head(down[r]))
      <4>1. PICK m, h : Runs(a, m, h)
        BY <2>1, <3>2 DEF Commit
      <4> QED
        BY <1>1, <2>2, <2>5, <4>1 DEF Answers, Running, InSession, Runs, ChannelsTypeOK, Process
    <3> QED
      BY <2>5, <3>1, <3>2 DEF Answers
  <2> QED
    BY <1>2, <1>3, <2>1, <2>3, <2>4, <2>5
       DEF ProcessStep, ClientStep, RegistrationEnds, SessionEnds, ReaderEnds, TimesOut
<1>4. ASSUME NEW r \in Session, Connect(a, r)
      PROVE  r = s
  BY <1>1, <1>4 DEF Connect, InSession, ChannelsTypeOK, Process
<1>5. ASSUME NEW b \in App, NEW r \in Session, ProcessStep(b, r)
      PROVE  Connect(a, s)
  BY <1>2, <1>3, <1>4, <1>5, ProcessStepIsOwn
<1>6. ASSUME NEW b \in App, EndsProcess(b)
      PROVE  FALSE
  BY <1>1, <1>2, <1>6, EndIsOwn DEF InSession
<1>7. ASSUME UNCHANGED runtime
      PROVE  FALSE
  BY <1>2, <1>7
<1> QED
  BY <1>5, <1>6, <1>7, SystemSteps
     DEF SessionStep, ServerStep, Expires, Cut, Monitor, Command, clientVars, systemVars

LEMMA QueueLengths ==
  ASSUME NEW S, NEW queue \in Seq(S), NEW m
  PROVE  /\ Len(queue) \in Nat /\ Len(<<m>>) = 1 /\ Len(<< >>) = 0
         /\ Len(Append(queue, m)) = Len(queue) + 1 /\ Append(queue, m) # << >>
         /\ queue # << >> => Len(Tail(queue)) = Len(queue) - 1
OBVIOUS

LEMMA SessionStepKeepsEnd ==
  ASSUME YInv, NEW s \in Session, EndOK(s), SessionStep(s)
  PROVE  EndOK(s)'
<1> USE DEF ChannelsTypeOK
<1>1. VInv /\ ChannelsTypeOK /\ UNCHANGED <<runtime, holder>> /\ Transit \in Nat \ {0}
  BY SystemAssumption DEF YInv, SessionStep, ServerStep, Expires, Cut
<1>2. up[s] \in Seq(ApplicationToSam) /\ down[s] \in Seq(SamToApplication)
  BY <1>1
<1>3. CASE Registers(s)
  <2>1. PICK a : RegisterSession(s, a, 0) /\ up[s] # << >>
    BY <1>3 DEF Registers
  <2>2. stage'[s] = "registered" /\ s \in Registered'
    BY <1>1, <2>1, MoveIsOwn DEF RegisterSession, Registered
  <2>3. stage[s] = "accepted" /\ s \notin Registered
    BY <1>1, <2>1 DEF RegisterSession, Move, VInv, SessionsTypeOK
  <2>4. up'[s] = Tail(up[s]) /\ down'[s] = down[s]
    BY <1>1, <1>3 DEF Registers, Drained
  <2> QED
    BY <1>1, <1>2, <2>1, <2>2, <2>3, <2>4, QueueLengths DEF EndOK
<1>4. CASE Delivers(s) \/ Cuts(s)
  <2>1. stage[s] = "registered" /\ SameSession(s) /\ holder[s] # {}
    BY <1>4, NothingRegisters DEF Delivers, Cuts, Sends, Forward
  <2>4. Len(up'[s]) <= Transit
    <3>1. Len(up'[s]) = Len(up[s]) \/ Len(up'[s]) = 1
      BY <1>1, <1>4, CutLeaves DEF Delivers
    <3>2. Len(up[s]) <= Transit
      BY DEF EndOK
    <3>3. 1 <= Transit
      BY <1>1
    <3> QED
      BY <3>1, <3>2, <3>3
  <2>2. s \in Registered
    BY <1>1, <2>1 DEF VInv, SessionsTypeOK
  <2>3. \/ down'[s] = down[s]
        \/ Len(down[s]) < Transit /\ down'[s] = Append(down[s], Head(Outgoing(s)))
    BY <1>1, <1>4 DEF Delivers, Cuts, Sends
  <2> QED
    BY <1>1, <1>2, <2>1, <2>2, <2>3, <2>4, QueueLengths DEF EndOK, SameSession
<1>5. CASE Handles(s)
  <2>1. stage[s] = "registered" /\ SameSession(s) /\ down'[s] = down[s]
    BY <1>5, NothingRegisters DEF Handles, sessionVars
  <2>2. up[s] # << >> /\ up'[s] = Tail(up[s])
    BY <1>1, <1>5 DEF Handles, Drained
  <2> QED
    BY <1>1, <1>2, <2>1, <2>2, QueueLengths DEF EndOK, SameSession
<1>6. CASE Refuses(s) \/ SeesEnd(s) \/ Ends(s) \/ Misses(s) \/ Expires(s)
  <2>1. UNCHANGED <<identity, down>> /\ \E from : Move(s, from, "closing") \/ Move(s, from, "ended")
    BY <1>6 DEF Refuses, SeesEnd, Ends, Misses, Expires, Break, Replaced, Teardown, EndUnregistered
  <2>2. stage'[s] \in {"closing", "ended"} /\ up'[s] = << >>
    BY <1>1, <1>6, <2>1, MoveIsOwn DEF Refuses, SeesEnd, Ends, Misses, Expires, Unread
  <2> QED
    BY <1>1, <1>2, <2>1, <2>2, QueueLengths DEF EndOK, Registered
<1> QED
  BY <1>3, <1>4, <1>5, <1>6 DEF SessionStep, ServerStep, Cut

LEMMA WriteFits ==
  ASSUME YInv, NEW s \in Session, NEW message, CanWrite(s), Write(s, message), EndOK(s)
  PROVE  /\ Len(up'[s]) <= Transit
         /\ Deaf(s) => up'[s] = up[s]
         /\ ~Deaf(s) => up'[s] = Append(up[s], message)
<1>1. up[s] \in Seq(ApplicationToSam) /\ Transit \in Nat
        /\ up \in [Session -> Seq(ApplicationToSam)]
  BY SystemAssumption DEF YInv, ChannelsTypeOK
<1> QED
  BY <1>1, QueueLengths DEF CanWrite, Write, EndOK

LEMMA ProcessStepKeepsEnd ==
  ASSUME YInv, EndsOK, OneProcess, NEW b \in App, NEW s \in Session, ProcessStep(b, s)
  PROVE  EndOK(s)'
<1> USE DEF ChannelsTypeOK
<1>1. VInv /\ ChannelsTypeOK /\ EndOK(s) /\ Transit \in Nat \ {0}
  BY SystemAssumption DEF YInv, EndsOK
<1>2. up[s] \in Seq(ApplicationToSam) /\ down[s] \in Seq(SamToApplication)
  BY <1>1
<1>3. CASE Connect(b, s)
  <2>1. stage[s] = "none" /\ stage'[s] = "accepted" /\ s \notin Registered /\ UNCHANGED <<down, identity>>
    BY <1>1, <1>3, MoveIsOwn DEF Connect, Accept, Move, VInv, SessionsTypeOK
  <2>2. up'[s] = <<RegisterMessage(b)>> /\ holder'[s] = {b} /\ down[s] = << >>
    BY <1>1, <1>3, <2>1 DEF Connect, EndOK
  <2>3. \E a \in App : up'[s] = <<RegisterMessage(a)>> /\ holder'[s] \subseteq {a}
    BY <2>2
  <2>4. Len(up'[s]) = 1 /\ Len(down'[s]) = 0
    BY <1>1, <2>1, <2>2, QueueLengths
  <2> QED
    BY <1>1, <2>1, <2>2, <2>3, <2>4 DEF EndOK
<1>4. ASSUME ~Connect(b, s)
      PROVE  SameSession(s)
  BY <1>4, NothingRegisters
     DEF ProcessStep, ClientStep, TimesOut, ReceivesRegistration, RegistrationEnds, Beats, Answers,
         SessionEnds, ReaderEnds, sessionVars, serverVars
<1>5. CASE ReceivesRegistration(b, s)
  <2>1. SameSession(s) /\ up'[s] = up[s] /\ down[s] # << >>
    BY <1>5, NothingRegisters DEF ReceivesRegistration, sessionVars
  <2>2. CASE down' = [down EXCEPT ![s] = Tail(@)] /\ UNCHANGED holder
    <3>1. down'[s] = Tail(down[s]) /\ holder'[s] = holder[s]
      BY <1>1, <2>2
    <3>2. Len(down'[s]) <= Transit
      BY <1>1, <1>2, <2>1, <3>1, QueueLengths DEF EndOK
    <3> QED
      BY <1>1, <2>1, <3>1, <3>2 DEF EndOK, SameSession
  <2>3. CASE Becomes(b, NotStarted)
    <3>1. holder'[s] = holder[s] \ {b} /\ down'[s] = IF b \in holder[s] THEN << >> ELSE down[s]
      BY <1>1, <2>3 DEF Becomes
    <3>2. Len(down'[s]) <= Transit
      BY <1>1, <1>2, <3>1, QueueLengths DEF EndOK
    <3>3. down'[s] # << >> => holder'[s] # {}
      BY <1>1, <3>1 DEF EndOK
    <3> QED
      BY <1>1, <2>1, <3>1, <3>2, <3>3 DEF EndOK, SameSession
  <2> QED
    BY <1>5, <2>2, <2>3 DEF ReceivesRegistration, Synchronize
<1>6. CASE RegistrationEnds(b, s) \/ SessionEnds(b, s) \/ ReaderEnds(b, s) \/ TimesOut(b, s)
  <2>1. SameSession(s) /\ up'[s] = up[s] /\ LetGo(s)
    BY <1>6, NothingRegisters
       DEF RegistrationEnds, SessionEnds, ReaderEnds, TimesOut, sessionVars, serverVars
  <2> QED
    BY <1>1, <1>2, <2>1, QueueLengths DEF EndOK, SameSession, LetGo
<1>7. CASE Beats(b, s) \/ Answers(b, s)
  <2>1. SameSession(s) /\ UNCHANGED holder /\ Running(b, s) /\ CanWrite(s)
    BY <1>7, NothingRegisters DEF Beats, Answers, sessionVars
  <2>2. s \in Registered /\ holder[s] = {b}
    <3>1. InSession(b, s) /\ runtime[b].at = "running"
      BY <2>1 DEF Running, InSession
    <3> QED
      BY <3>1 DEF OneProcess
  <2>3. stage[s] \notin {"none", "accepted"}
    BY <1>1, <2>2 DEF VInv, SessionsTypeOK
  <2>4. Len(up'[s]) <= Transit
    <3>1. CASE \E message : Write(s, message)
      BY <1>1, <2>1, <3>1, WriteFits
    <3> QED
      BY <1>1, <1>7, <3>1 DEF Beats, Answers, Prepare, Commit, EndOK
  <2>5. down'[s] = down[s] \/ (down[s] # << >> /\ down'[s] = Tail(down[s]))
    BY <1>1, <1>7 DEF Beats, Answers
  <2>6. Len(down'[s]) <= Transit
    BY <1>1, <1>2, <2>5, QueueLengths DEF EndOK
  <2> QED
    BY <2>1, <2>2, <2>4, <2>6, <2>3 DEF EndOK, SameSession
<1> QED
  BY <1>3, <1>5, <1>6, <1>7 DEF ProcessStep, ClientStep

LEMMA NextKeepsEnds ==
  ASSUME YInv, EndsOK, OneProcess, [SystemNext]_systemVars
  PROVE  EndsOK'
<1> SUFFICES ASSUME NEW s \in Session
             PROVE  EndOK(s)'
  BY DEF EndsOK
<1>1. EndOK(s) /\ ChannelsTypeOK /\ Transit \in Nat
  BY SystemAssumption DEF EndsOK, YInv
<1>2. ASSUME SameSession(s), SameLines(s), holder'[s] = holder[s]
      PROVE  EndOK(s)'
  BY <1>1, <1>2 DEF EndOK, SameSession, SameLines
<1>3. ASSUME NEW b \in App, SameSession(s), up'[s] = up[s], holder'[s] = holder[s] \ {b},
             down'[s] = IF b \in holder[s] THEN << >> ELSE down[s]
      PROVE  EndOK(s)'
  <2>1. Len(down'[s]) <= Transit
    BY <1>1, <1>3, QueueLengths DEF EndOK
  <2>2. down'[s] # << >> => holder'[s] # {}
    BY <1>1, <1>3 DEF EndOK
  <2> QED
    BY <1>1, <1>3, <2>1, <2>2 DEF EndOK, SameSession
<1>4. ASSUME NEW r \in Session, SessionStep(r)
      PROVE  EndOK(s)'
  <2>1. CASE r = s
    BY <1>1, <1>4, <2>1, SessionStepKeepsEnd
  <2>2. CASE r # s
    BY <1>2, <1>4, <2>2, SessionStepIsOwn DEF SessionStep, ServerStep, Expires, Cut
  <2> QED
    BY <2>1, <2>2
<1>5. ASSUME NEW b \in App, NEW r \in Session, ProcessStep(b, r)
      PROVE  EndOK(s)'
  <2>1. CASE r = s
    BY <1>5, <2>1, ProcessStepKeepsEnd
  <2>2. CASE r # s
    BY <1>2, <1>3, <1>5, <2>2, ProcessStepIsOwn DEF SameLines
  <2> QED
    BY <2>1, <2>2
<1>6. ASSUME NEW b \in App, EndsProcess(b), UNCHANGED <<serverVars, up>>
      PROVE  EndOK(s)'
  BY <1>1, <1>3, <1>6, EndIsOwn, NothingRegisters DEF serverVars, sessionVars
<1>7. ASSUME UNCHANGED <<sessionVars, clientVars>>
      PROVE  EndOK(s)'
  BY <1>2, <1>7, NothingRegisters DEF sessionVars, clientVars, SameLines
<1> QED
  BY <1>4, <1>5, <1>6, <1>7, SystemSteps DEF Monitor, Command, systemVars, serverVars

\* What a process does in a session that goes on.
Starts(a, s) ==
  /\ ReceivesRegistration(a, s)
  /\ Runs(a, Head(down[s]).mode, runtime[a].handler)
  /\ down' = [down EXCEPT ![s] = Tail(@)]
  /\ UNCHANGED holder

Commits(a, s, message) ==
  /\ message.type = "CommitMode"
  /\ Write(s, ModeCommitted(a, message.id, message.mode))
  /\ Runs(a, message.mode, runtime[a].handler)

Replies(a, s) ==
  /\ Answers(a, s)
  /\ Prepare(a, s, Head(down[s])) \/ Commits(a, s, Head(down[s]))

Elsewhere(s) ==
  \/ \E r \in Session : r # s /\ SessionStep(r)
  \/ Monitor
  \/ \E m \in SystemMode : Command(m)
  \/ UNCHANGED <<vars, identity, leftover>>

LEMMA SessionGoesOn ==
  ASSUME YInv, EndsOK, OneProcess, NEW a \in App, NEW s \in Session,
         InSession(a, s), InSession(a, s)', [SystemNext]_systemVars
  PROVE  \/ SessionStep(s)
         \/ /\ Starts(a, s) \/ Beats(a, s) \/ Replies(a, s)
            /\ UNCHANGED <<vars, sessionVars, holder>>
         \/ /\ runtime'[a] = runtime[a] /\ holder'[s] = holder[s]
            /\ SameSession(s) /\ SameLines(s)
            /\ Elsewhere(s)
<1>1. ChannelsTypeOK /\ holder[s] = {a}
  BY DEF YInv, OneProcess
<1>2. ASSUME MoveTo(a, "idle") \/ \E p : Becomes(a, p) /\ p.at \in {"off", "idle"}
      PROVE  FALSE
  BY <1>1, <1>2 DEF MoveTo, Becomes, InSession, ChannelsTypeOK, Process
<1>3. ASSUME ProcessStep(a, s)
      PROVE  /\ Starts(a, s) \/ Beats(a, s) \/ Replies(a, s)
             /\ UNCHANGED <<vars, sessionVars, holder>>
  <2>1. ~Connect(a, s)
    BY DEF Connect, InSession
  <2>2. ~ReaderEnds(a, s)
    BY DEF ReaderEnds
  <2>3. ReceivesRegistration(a, s) \/ Beats(a, s) \/ Answers(a, s)
    BY <1>2, <1>3, <2>1, <2>2
       DEF ProcessStep, ClientStep, RegistrationEnds, SessionEnds, TimesOut
  <2>4. UNCHANGED <<vars, sessionVars>>
    BY <1>3, <2>3
       DEF ProcessStep, ClientStep, TimesOut, serverVars, ReceivesRegistration, Beats, Answers
  <2>5. CASE ReceivesRegistration(a, s)
    <3>1. NotStarted.at = "off"
      BY DEF NotStarted, Started
    <3> QED
      BY <1>2, <2>4, <2>5, <3>1 DEF ReceivesRegistration, Synchronize, Starts
  <2>6. CASE Beats(a, s)
    BY <2>4, <2>6 DEF Beats
  <2>7. CASE Answers(a, s)
    BY <1>2, <2>4, <2>7 DEF Answers, Replies, Commit, Commits
  <2> QED
    BY <2>3, <2>5, <2>6, <2>7
<1>4. ASSUME NEW b \in App,
             \/ \E r \in Session : ProcessStep(b, r) /\ (a # b \/ s # r)
             \/ a # b /\ EndsProcess(b) /\ UNCHANGED <<serverVars, up>>
      PROVE  /\ runtime'[a] = runtime[a] /\ holder'[s] = holder[s]
             /\ SameSession(s) /\ SameLines(s) /\ Elsewhere(s)
  <2>1. UNCHANGED <<vars, identity, leftover>>
    BY <1>4, ProcessStepIsOwn DEF serverVars, sessionVars
  <2> QED
    BY <1>4, <2>1, SessionIsOwn DEF Elsewhere
<1>5. ASSUME EndsProcess(a)
      PROVE  FALSE
  BY <1>1, <1>5, EndIsOwn DEF InSession
<1>6. ASSUME NEW r \in Session, r # s, SessionStep(r)
      PROVE  /\ runtime'[a] = runtime[a] /\ holder'[s] = holder[s]
             /\ SameSession(s) /\ SameLines(s) /\ Elsewhere(s)
  BY <1>6, SessionStepIsOwn DEF SessionStep, ServerStep, Expires, Cut, Elsewhere
<1>7. ASSUME Monitor \/ (\E m \in SystemMode : Command(m)) \/ UNCHANGED systemVars
      PROVE  /\ runtime'[a] = runtime[a] /\ holder'[s] = holder[s]
             /\ SameSession(s) /\ SameLines(s) /\ Elsewhere(s)
  <2>1. UNCHANGED <<sessionVars, clientVars>>
    BY <1>7 DEF Monitor, Command, systemVars, serverVars
  <2>2. Elsewhere(s)
    BY <1>7 DEF systemVars, serverVars, sessionVars, Elsewhere
  <2> QED
    BY <2>1, <2>2, NothingRegisters DEF sessionVars, clientVars, SameLines
<1> QED
  BY <1>3, <1>4, <1>5, <1>6, <1>7, SystemSteps

\* SAM's own steps in a session.
LEMMA RegistersOwn ==
  ASSUME YInv, EndsOK, OneProcess, NEW a \in App, NEW s \in Session, InSession(a, s), Registers(s)
  PROVE  /\ stage[s] = "accepted" /\ stage'[s] = "registered"
         /\ RegisterSession(s, a, 0)
         /\ s \in Registered' /\ identity'[s] = [app |-> a, id |-> nextConnectionId]
         /\ down[s] = << >> /\ down'[s] = << >> /\ up'[s] = << >>
<1>1. RegisterSession(s, Head(up[s]).app, 0) /\ VInv /\ EndOK(s) /\ holder[s] = {a}
  BY DEF Registers, YInv, EndsOK, OneProcess
<1>2. stage[s] = "accepted" /\ s \notin Registered /\ stage'[s] = "registered"
  BY <1>1 DEF RegisterSession, Move, VInv, SessionsTypeOK
<1>3. PICK b \in App : up[s] = <<RegisterMessage(b)>> /\ holder[s] \subseteq {b}
  BY <1>1, <1>2 DEF EndOK
<1>4. Head(up[s]).app = a
  BY <1>1, <1>3 DEF RegisterMessage
<1>5. s \in Registered' /\ identity'[s] = [app |-> a, id |-> nextConnectionId]
  BY <1>1, <1>4 DEF RegisterSession, Registered
<1>6. down[s] = << >> /\ down'[s] = << >>
  BY <1>1, <1>2 DEF EndOK, Registers
<1>7. up'[s] = << >>
  <2>1. up'[s] = Tail(up[s])
    BY DEF Registers, Drained, YInv, ChannelsTypeOK
  <2> QED
    BY <1>3, <2>1
<1> QED
  BY <1>1, <1>2, <1>4, <1>5, <1>6, <1>7

LEMMA SessionStepOwn ==
  ASSUME YInv, NEW s \in Session, SessionStep(s), stage'[s] = "registered", ~Registers(s)
  PROVE  /\ Delivers(s) \/ Cuts(s) \/ Handles(s)
         /\ stage[s] = "registered" /\ UNCHANGED <<runtime, holder>>
         /\ SameSession(s)
<1>1. ASSUME Refuses(s) \/ SeesEnd(s) \/ Ends(s) \/ Misses(s) \/ Expires(s)
      PROVE  FALSE
  <2>1. \E from : Move(s, from, "closing") \/ Move(s, from, "ended")
    BY <1>1 DEF Refuses, SeesEnd, Ends, Misses, Expires, Break, Replaced, Teardown, EndUnregistered
  <2> QED
    BY <2>1, MoveIsOwn DEF YInv
<1> QED
  BY <1>1, NothingRegisters
     DEF SessionStep, ServerStep, Cut, Cuts, Sends, Delivers, Handles, Forward, sessionVars

LEMMA NextKeepsOneProcess ==
  ASSUME YInv, EndsOK, OneProcess, [SystemNext]_systemVars
  PROVE  OneProcess'
<1> SUFFICES ASSUME NEW a \in App, NEW s \in Session, InSession(a, s)'
             PROVE  /\ holder'[s] = {a}
                    /\ s \in Registered' => identity'[s].app = a
                    /\ runtime'[a].at = "running" => s \in Registered'
  BY DEF OneProcess
<1>1. ChannelsTypeOK /\ VInv /\ EndOK(s)
  BY DEF YInv, EndsOK
<1>2. CASE ~InSession(a, s)
  <2>1. Connect(a, s)
    BY <1>2, SessionBegins
  <2>2. s \notin Registered' /\ holder'[s] = {a} /\ runtime'[a].at = "registering"
    BY <1>1, <2>1
       DEF Connect, Accept, Move, Registered, ChannelsTypeOK, Process, VInv, SessionsTypeOK
  <2> QED
    BY <2>2
<1>3. CASE InSession(a, s)
  <2>1. /\ holder[s] = {a}
        /\ s \in Registered => identity[s].app = a
        /\ runtime[a].at = "running" => s \in Registered
    BY <1>3 DEF OneProcess
  <2>2. CASE SessionStep(s)
    <3>1. UNCHANGED <<runtime, holder>>
      BY <2>2 DEF SessionStep, ServerStep, Expires, Cut
    <3>2. CASE Registers(s)
      <4>1. s \in Registered' /\ identity'[s] = [app |-> a, id |-> nextConnectionId]
        BY <1>3, <3>2, RegistersOwn
      <4> QED
        BY <2>1, <3>1, <4>1
    <3>3. CASE ~Registers(s)
      <4>1. UNCHANGED identity
        BY <2>2, <3>3 DEF SessionStep, ServerStep, Expires, Misses, Cut, Cuts, Delivers, Sends, Handles,
                          Refuses, SeesEnd, Ends, EndUnregistered, Forward, Break, Replaced, Teardown,
                          sessionVars
      <4> QED
        BY <2>1, <3>1, <4>1 DEF Registered
    <3> QED
      BY <3>2, <3>3
  <2>3. CASE /\ Starts(a, s) \/ Beats(a, s) \/ Replies(a, s)
             /\ UNCHANGED <<vars, sessionVars, holder>>
    <3>1. UNCHANGED <<identity, holder>>
      BY <2>3 DEF sessionVars
    <3>2. s \in Registered
      BY <1>1, <2>1, <2>3 DEF Starts, ReceivesRegistration, Beats, Replies, Answers, Running, EndOK
    <3> QED
      BY <2>1, <3>1, <3>2 DEF Registered
  <2>4. CASE /\ runtime'[a] = runtime[a] /\ holder'[s] = holder[s]
             /\ SameSession(s) /\ SameLines(s)
    BY <2>1, <2>4 DEF SameSession
  <2> QED
    BY <1>3, <2>2, <2>3, <2>4, SessionGoesOn
<1> QED
  BY <1>2, <1>3

\* The same of the next state.
LEMMA NextOutgoingType ==
  ASSUME VInv', NEW s \in Session
  PROVE  Outgoing(s)' \in Seq(SamToApplication)
<1>1. leftover'[s] \in Seq(SamToApplication)
  BY DEF VInv, LeftoverOK
<1>2. ASSUME IsCurrent(s)'
      PROVE  clients'[identity'[s].app].outbound \in Seq(SamToApplication)
  BY <1>2 DEF IsCurrent, VerifyConnection, VInv, SInv, ServiceTypeOK, ClientsTypeOK, ClientConnection
<1> QED
  BY <1>1, <1>2 DEF Outgoing

LEMMA ElsewhereExtends ==
  ASSUME YInv, NEW s \in Session, stage[s] = "registered", Elsewhere(s)
  PROVE  Extends(Outgoing(s)', Outgoing(s))
<1>1. VInv /\ ChannelsTypeOK /\ 0 \in LockWait
  BY TimeAssumption DEF YInv, LockWait
<1>2. ASSUME NEW r \in Session, r # s, SessionStep(r)
      PROVE  Extends(Outgoing(s)', Outgoing(s))
  <2>1. CASE Registers(r)
    <3>1. Head(up[r]).app \in App
      BY <1>1, <2>1, QueueRest, MessageParts DEF Registers, ChannelsTypeOK
    <3> QED
      BY <1>1, <2>1, <3>1, OutgoingLasts DEF Registers
  <2>2. CASE Handles(r)
    <3>1. Receive(r, 0) \/ UNCHANGED serverVars
      BY <2>2, HandlesIsServers
    <3> QED
      BY <1>1, <3>1, OutgoingLasts DEF serverVars, sessionVars
  <2>3. CASE Sends(r)
    BY <1>1, <1>2, <2>3, OutgoingLasts DEF Sends
  <2>4. CASE Refuses(r) \/ SeesEnd(r) \/ Replaced(r) \/ Misses(r) \/ Expires(r)
    <3>1. UNCHANGED <<vars, identity, leftover>>
      BY <2>4 DEF Refuses, SeesEnd, Misses, Expires, Break, Replaced, EndUnregistered
    <3> QED
      BY <1>1, <3>1, OutgoingLasts
  <2>5. CASE Teardown(r, 0)
    BY <1>1, <2>5, OutgoingLasts
  <2> QED
    BY <1>2, <2>1, <2>2, <2>3, <2>4, <2>5 DEF SessionStep, ServerStep, Ends, Delivers, Cut, Cuts
<1>3. CASE UNCHANGED <<vars, identity, leftover>>
  BY <1>1, <1>3, OutgoingLasts
<1>4. CASE Monitor \/ \E m \in SystemMode : Command(m)
  BY <1>1, <1>4, OutgoingLasts DEF Monitor, Command
<1> QED
  BY <1>2, <1>3, <1>4 DEF Elsewhere

LEMMA NextKeepsAcceptance ==
  ASSUME CInv, [SystemNext]_systemVars
  PROVE  AcceptanceFirst'
<1> DEFINE Ahead(a, s) ==
      /\ down[s] # << >> => Head(down[s]).type = "RegisterAccepted"
      /\ stage[s] = "registered" /\ down[s] = << >> =>
           Outgoing(s) # << >> /\ Head(Outgoing(s)).type = "RegisterAccepted"
<1> SUFFICES ASSUME NEW a \in App, NEW s \in Session, InSession(a, s)',
                    runtime'[a].at = "registering"
             PROVE  Ahead(a, s)'
  BY DEF AcceptanceFirst
<1>1. YInv /\ EndsOK /\ OneProcess /\ ChannelsTypeOK /\ VInv /\ EndOK(s)
  BY DEF CInv, YInv, EndsOK
<1>2. down[s] \in Seq(SamToApplication) /\ Outgoing(s) \in Seq(SamToApplication)
  BY <1>1, OutgoingType DEF ChannelsTypeOK
<1>3. ASSUME Extends(Outgoing(s)', Outgoing(s)), Outgoing(s) # << >>
      PROVE  Outgoing(s)' # << >> /\ Head(Outgoing(s)') = Head(Outgoing(s))
  <2>1. YInv'
    BY <1>1, NextKeepsYInv
  <2>2. VInv'
    BY <2>1 DEF YInv
  <2>3. Outgoing(s)' \in Seq(SamToApplication)
    BY <2>2, NextOutgoingType
  <2> QED
    BY <1>2, <1>3, <2>3, ExtendedHead
<1>4. CASE ~InSession(a, s)
  <2>1. Connect(a, s)
    BY <1>1, <1>4, SessionBegins
  <2>2. s \notin Registered /\ stage'[s] = "accepted" /\ down'[s] = down[s]
    BY <1>1, <2>1, MoveIsOwn DEF Connect, Accept, Move, VInv, SessionsTypeOK
  <2> QED
    BY <1>1, <2>2 DEF EndOK
<1>5. CASE InSession(a, s)
  <2>1. CASE Registers(s)
    <3>1. down'[s] = << >> /\ RegisterSession(s, a, 0) /\ s \in Registered'
            /\ identity'[s] = [app |-> a, id |-> nextConnectionId]
      BY <1>1, <1>5, <2>1, RegistersOwn
    <3>2. /\ a \in Connected' /\ clients'[a].id = nextConnectionId
          /\ clients'[a].outbound = <<RegisterAccepted(systemMode, systemHealth')>>
      BY <3>1 DEF RegisterSession, Register, Connected
    <3>3. Outgoing(s)' = <<RegisterAccepted(systemMode, systemHealth')>>
      BY <3>1, <3>2 DEF Outgoing, IsCurrent, VerifyConnection
    <3>4. Head(<<RegisterAccepted(systemMode, systemHealth')>>) = RegisterAccepted(systemMode, systemHealth')
            /\ <<RegisterAccepted(systemMode, systemHealth')>> # << >>
      OBVIOUS
    <3> QED
      BY <3>1, <3>3, <3>4 DEF RegisterAccepted
  <2>2. CASE SessionStep(s) /\ ~Registers(s) /\ stage'[s] = "registered"
    <3>1. /\ Sends(s) \/ Handles(s)
          /\ stage[s] = "registered" /\ UNCHANGED <<runtime, holder>>
      BY <1>1, <2>2, SessionStepOwn DEF Delivers, Cuts
    <3>2. Ahead(a, s)
      BY <1>5, <3>1 DEF CInv, AcceptanceFirst
    <3>3. CASE Sends(s)
      <4>1. Outgoing(s) # << >>
        BY <1>1, <3>3, ForwardTakes DEF Sends
      <4>2. CASE down[s] = << >>
        <5>1. Head(Outgoing(s)).type = "RegisterAccepted"
          BY <3>1, <3>2, <4>2
        <5>2. down'[s] = Append(down[s], Head(Outgoing(s)))
          BY <1>1, <3>3, <5>1 DEF Sends, ChannelsTypeOK
        <5>3. down'[s] = <<Head(Outgoing(s))>>
          BY <4>2, <5>2
        <5>4. Head(<<Head(Outgoing(s))>>) = Head(Outgoing(s)) /\ <<Head(Outgoing(s))>> # << >>
          OBVIOUS
        <5> QED
          BY <5>1, <5>3, <5>4
      <4>3. CASE down[s] # << >>
        <5>1. Head(down[s]).type = "RegisterAccepted"
          BY <3>2, <4>3
        <5>2. down'[s] = down[s] \/ down'[s] = Append(down[s], Head(Outgoing(s)))
          BY <1>1, <3>3 DEF Sends, ChannelsTypeOK
        <5>3. down'[s] # << >> /\ Head(down'[s]) = Head(down[s])
          BY <1>2, <4>3, <5>2
        <5> QED
          BY <5>1, <5>3
      <4> QED
        BY <4>2, <4>3
    <3>4. CASE Handles(s)
      <4>1. Extends(Outgoing(s)', Outgoing(s))
        <5>1. Receive(s, 0) \/ UNCHANGED serverVars
          BY <1>1, <3>4, HandlesIsServers
        <5>2. 0 \in LockWait
          BY TimeAssumption DEF LockWait
        <5> QED
          BY <1>1, <3>1, <5>1, <5>2, OutgoingLasts DEF serverVars, sessionVars
      <4>2. down'[s] = down[s]
        BY <3>4 DEF Handles
      <4> QED
        BY <1>3, <3>1, <3>2, <4>1, <4>2
    <3> QED
      BY <3>1, <3>3, <3>4
  <2>3. CASE SessionStep(s) /\ ~Registers(s) /\ stage'[s] # "registered"
    <3>1. UNCHANGED down /\ UNCHANGED runtime
      <4>1. ~Sends(s)
        BY <2>3 DEF Sends, Forward
      <4> QED
        BY <2>3, <4>1 DEF SessionStep, ServerStep, Delivers, Cut, Cuts, Handles, Refuses, SeesEnd,
                          Ends, Misses, Expires
    <3> QED
      BY <1>5, <2>3, <3>1 DEF CInv, AcceptanceFirst
  <2>4. CASE /\ Starts(a, s) \/ Beats(a, s) \/ Replies(a, s)
             /\ UNCHANGED <<vars, sessionVars, holder>>
    <3>1. CASE Starts(a, s)
      BY <1>1, <3>1 DEF Starts, Runs, ChannelsTypeOK, Process
    <3>2. CASE Beats(a, s)
      BY <1>1, <3>2 DEF Beats, Running, ChannelsTypeOK, Process
    <3>3. CASE Replies(a, s)
      BY <1>1, <3>3 DEF Replies, Answers, Running, Prepare, Commits, Runs, ChannelsTypeOK, Process
    <3> QED
      BY <2>4, <3>1, <3>2, <3>3
  <2>5. CASE /\ runtime'[a] = runtime[a] /\ holder'[s] = holder[s]
             /\ SameSession(s) /\ SameLines(s) /\ Elsewhere(s)
    <3>1. Ahead(a, s) /\ down'[s] = down[s] /\ stage'[s] = stage[s]
      BY <1>5, <2>5 DEF CInv, AcceptanceFirst, SameSession, SameLines
    <3>2. CASE stage[s] = "registered"
      <4>1. Extends(Outgoing(s)', Outgoing(s))
        BY <1>1, <2>5, <3>2, ElsewhereExtends
      <4> QED
        BY <1>3, <3>1, <3>2, <4>1
    <3> QED
      BY <3>1, <3>2
  <2> QED
    BY <1>1, <1>5, <2>1, <2>2, <2>3, <2>4, <2>5, SessionGoesOn
<1> QED
  BY <1>4, <1>5

LEMMA InitCInv == SystemInit => CInv
<1> SUFFICES ASSUME SystemInit PROVE CInv
  OBVIOUS
<1>1. YInv
  BY InitYInv
<1>2. \A s \in Session : /\ stage[s] = "none" /\ holder[s] = {}
                         /\ up[s] = << >> /\ down[s] = << >>
  BY DEF SystemInit, ServerInit
<1>3. \A a \in App : runtime[a].at = "idle"
  BY DEF SystemInit, Started
<1>4. Len(<< >>) = 0 /\ Transit \in Nat
  BY SystemAssumption
<1>5. EndsOK
  BY <1>2, <1>4 DEF EndsOK, EndOK
<1>6. OneProcess /\ AcceptanceFirst
  BY <1>3 DEF OneProcess, AcceptanceFirst, InSession
<1> QED
  BY <1>1, <1>5, <1>6 DEF CInv

LEMMA NextKeepsCInv == CInv /\ [SystemNext]_systemVars => CInv'
BY NextKeepsYInv, NextKeepsEnds, NextKeepsOneProcess, NextKeepsAcceptance DEF CInv

LEMMA AlwaysCInv == SystemSpec => []CInv
BY InitCInv, NextKeepsCInv, PTL DEF SystemSpec

\* Of what is on a connection, nothing is more than it can hold, nothing is
\* sent before the connection is accepted or kept after the process let it go,
\* and the first message a process reads is the acceptance it waits for.
THEOREM SystemType == SystemSpec => []SystemTypeOK
<1>1. CInv => SystemTypeOK
  <2>1. VInv => ServerTypeOK
    BY DEF VInv, SessionsTypeOK, LeftoverOK, ServerTypeOK
  <2> QED
    BY <2>1 DEF CInv, YInv, ChannelsTypeOK, EndsOK, EndOK, OneProcess, AcceptanceFirst, SystemTypeOK
<1> QED
  BY <1>1, AlwaysCInv, PTL

-----------------------------------------------------------------------------
\* What SAM records of a process

\* The messages by which a process says what mode it is in.
Speaks(message) == message.type \in {"Heartbeat", "ModeCommitted"}

NothingSaid(queue) == \A i \in 1 .. Len(queue) : ~Speaks(queue[i])

\* Of all that is said in the queue, the last is a heartbeat in mode m.
LastSaid(queue, m) ==
  \E i \in 1 .. Len(queue) :
    /\ queue[i].type = "Heartbeat" /\ queue[i].mode = m
    /\ \A j \in i + 1 .. Len(queue) : ~Speaks(queue[j])

\* A process that has sent a heartbeat in its mode is recorded in that mode, or
\* the heartbeat that will see to it is the last thing said on its connection,
\* unless SAM is about to end the session, having lost a frame.
RecordComes ==
  \A a \in App, s \in Session :
    Running(a, s) /\ runtime[a].reported /\ stage[s] = "registered" /\ IsCurrent(s) =>
      \/ OutOfStep(s)
      \/ LastSaid(up[s], runtime[a].mode)
      \/ NothingSaid(up[s]) /\ applications[a].current_mode = runtime[a].mode

LEMMA QueueElements ==
  ASSUME NEW queue \in Seq(ApplicationToSam), NEW m
  PROVE  /\ Len(queue) \in Nat
         /\ Len(Append(queue, m)) = Len(queue) + 1
         /\ \A i \in 1 .. Len(queue) : Append(queue, m)[i] = queue[i]
         /\ Append(queue, m)[Len(queue) + 1] = m
         /\ queue # << >> =>
              /\ Len(queue) > 0 /\ Head(queue) = queue[1]
              /\ Len(Tail(queue)) = Len(queue) - 1
              /\ \A i \in 1 .. Len(queue) - 1 : Tail(queue)[i] = queue[i + 1]
OBVIOUS

LEMMA SaidAndHandled ==
  ASSUME NEW queue \in Seq(ApplicationToSam), queue # << >>, NEW m
  PROVE  /\ LastSaid(queue, m) =>
              \/ LastSaid(Tail(queue), m)
              \/ /\ Head(queue).type = "Heartbeat" /\ Head(queue).mode = m
                 /\ NothingSaid(Tail(queue))
         /\ NothingSaid(queue) => ~Speaks(Head(queue)) /\ NothingSaid(Tail(queue))
<1> DEFINE n == Len(queue)
<1>1. /\ n \in Nat \ {0} /\ Head(queue) = queue[1] /\ Len(Tail(queue)) = n - 1
      /\ \A i \in 1 .. n - 1 : Tail(queue)[i] = queue[i + 1]
  BY QueueElements
<1>2. ASSUME NEW i \in 1 .. n, queue[i].type = "Heartbeat", queue[i].mode = m,
             \A j \in i + 1 .. n : ~Speaks(queue[j])
      PROVE  \/ LastSaid(Tail(queue), m)
             \/ /\ Head(queue).type = "Heartbeat" /\ Head(queue).mode = m
                /\ NothingSaid(Tail(queue))
  <2> HIDE DEF n
  <2>1. \A j \in i .. n - 1 : ~Speaks(Tail(queue)[j])
    <3> TAKE j \in i .. n - 1
    <3>1. j + 1 \in i + 1 .. n /\ j \in 1 .. n - 1
      BY <1>1, SMT
    <3> QED
      BY <1>1, <1>2, <3>1
  <2>2. CASE i = 1
    BY <1>1, <1>2, <2>1, <2>2 DEF NothingSaid
  <2>3. CASE i # 1
    <3>1. i - 1 \in 1 .. n - 1 /\ (i - 1) + 1 = i
      BY <1>1, <2>3, SMT
    <3>2. Tail(queue)[i - 1] = queue[i]
      BY <1>1, <3>1
    <3> QED
      BY <1>1, <1>2, <2>1, <3>1, <3>2 DEF LastSaid
  <2> QED
    BY <2>2, <2>3
<1>3. ASSUME NothingSaid(queue)
      PROVE  ~Speaks(Head(queue)) /\ NothingSaid(Tail(queue))
  BY <1>1, <1>3 DEF NothingSaid
<1> QED
  BY <1>2, <1>3 DEF LastSaid

LEMMA SaidAndWritten ==
  ASSUME NEW queue \in Seq(ApplicationToSam), NEW message, NEW m
  PROVE  /\ message.type = "Heartbeat" /\ message.mode = m => LastSaid(Append(queue, message), m)
         /\ ~Speaks(message) /\ LastSaid(queue, m) => LastSaid(Append(queue, message), m)
         /\ ~Speaks(message) /\ NothingSaid(queue) => NothingSaid(Append(queue, message))
<1> DEFINE n == Len(queue)
           longer == Append(queue, message)
<1>1. /\ n \in Nat /\ Len(longer) = n + 1 /\ longer[n + 1] = message
      /\ \A i \in 1 .. n : longer[i] = queue[i]
  BY QueueElements
<1> HIDE DEF n, longer
<1>2. message.type = "Heartbeat" /\ message.mode = m => LastSaid(longer, m)
  <2>1. n + 1 \in 1 .. n + 1 /\ (n + 1) + 1 .. n + 1 = {}
    BY <1>1, SMT
  <2> QED
    BY <1>1, <2>1 DEF LastSaid
<1>3. ASSUME ~Speaks(message), NEW i \in 1 .. n, queue[i].type = "Heartbeat", queue[i].mode = m,
             \A j \in i + 1 .. n : ~Speaks(queue[j])
      PROVE  LastSaid(longer, m)
  <2>1. i \in 1 .. n + 1 /\ longer[i] = queue[i]
    BY <1>1
  <2>2. \A j \in i + 1 .. n + 1 : ~Speaks(longer[j])
    <3> TAKE j \in i + 1 .. n + 1
    <3>1. CASE j = n + 1
      BY <1>1, <1>3, <3>1
    <3>2. CASE j # n + 1
      <4>1. j \in i + 1 .. n /\ j \in 1 .. n
        BY <1>1, <3>2, SMT
      <4> QED
        BY <1>1, <1>3, <4>1
    <3> QED
      BY <3>1, <3>2
  <2> QED
    BY <1>1, <1>3, <2>1, <2>2 DEF LastSaid
<1>4. ASSUME ~Speaks(message), NothingSaid(queue)
      PROVE  NothingSaid(longer)
  BY <1>1, <1>4 DEF NothingSaid, n
<1> QED
  BY <1>2, <1>3, <1>4 DEF LastSaid, n, longer

\* The service's table of clients gains no ids but new ones.
LEMMA IdsAreGained ==
  ASSUME SInv, [Next]_vars, NEW b \in Connected'
  PROVE  \/ b \in Connected /\ clients'[b].id = clients[b].id
         \/ clients'[b].id = nextConnectionId
<1>1. ASSUME SameIds
      PROVE  b \in Connected /\ clients'[b].id = clients[b].id
  BY <1>1 DEF SameIds
<1>2. ASSUME NEW a, NEW wait, Register(a, wait)
      PROVE  \/ b \in Connected /\ clients'[b].id = clients[b].id
             \/ clients'[b].id = nextConnectionId
  BY <1>2 DEF Register, Connected
<1>3. ASSUME NEW a, NEW c, NEW wait, Disconnect(a, c, wait)
      PROVE  b \in Connected /\ clients'[b].id = clients[b].id
  BY <1>3 DEF Disconnect, Connected, SInv, ServiceTypeOK, ClientsTypeOK, ClientConnection
<1> QED
  BY <1>1, <1>2, <1>3, ServiceSteps, CallsKeepIds, TakeAndTickKeepIds

\* So a session does not become current again.
LEMMA CurrentBefore ==
  ASSUME YInv, NEW s \in Session, s \in Registered, SameSession(s), IsCurrent(s)',
         [SystemNext]_systemVars
  PROVE  IsCurrent(s)
<1>1. SInv /\ [Next]_vars
  BY NextIsServers, NextIsServices DEF YInv, VInv
<1>2. identity[s].id # nextConnectionId
  BY BoundAssumption DEF YInv, VInv, IdsAreUnique, SessionsTypeOK, ConnectionId
<1> QED
  BY <1>1, <1>2, IdsAreGained DEF IsCurrent, VerifyConnection, SameSession

\* What SAM does for others leaves the record of a current session's process.
LEMMA RecordIsOwn ==
  ASSUME YInv, NEW s \in Session, stage[s] = "registered", IsCurrent(s), IsCurrent(s)',
         SameSession(s), Elsewhere(s)
  PROVE  applications'[identity[s].app].current_mode = applications[identity[s].app].current_mode
<1> DEFINE a == identity[s].app
<1>1. /\ VInv /\ a \in Connected /\ clients[a].id = identity[s].id
      /\ a \in Connected' /\ clients'[a].id = identity[s].id
  BY DEF YInv, IsCurrent, VerifyConnection, SameSession
<1>2. a \in Known /\ applications \in [Known -> ApplicationStatus]
  BY <1>1 DEF VInv, SInv, ServiceTypeOK, RegistryTypeOK, Agreement, ClientsAreConnected, ClientsTypeOK
<1>3. ASSUME NEW r \in Session, r # s, SessionStep(r)
      PROVE  applications'[a] = applications[a]
  <2> DEFINE b == identity[r].app
             c == identity[r].id
  <2>1. CASE Registers(r)
    <3>1. PICK d : RegisterSession(r, d, 0)
      BY <2>1 DEF Registers
    <3>2. identity[s].id # nextConnectionId
      BY <1>1, BoundAssumption DEF VInv, IdsAreUnique, SessionsTypeOK, ConnectionId, IsCurrent
    <3>3. d # a
      BY <1>1, <3>1, <3>2 DEF RegisterSession, Register
    <3> QED
      BY <1>2, <3>1, <3>3 DEF RegisterSession, Register, RegisterStatus
  <2>2. VerifyConnection(b, c) => b # a \/ r \notin Registered
    BY <1>1, <1>3 DEF VerifyConnection, VInv, IdsAreUnique, IsCurrent
  <2>3. stage[r] \in {"registered", "closing"} => r \in Registered
    BY <1>1 DEF VInv, SessionsTypeOK
  <2>4. CASE Handles(r)
    <3>1. HandleMessage(b, c, Head(up[r])) /\ r \in Registered
      BY <2>3, <2>4 DEF Handles
    <3> QED
      BY <1>2, <2>2, <3>1
         DEF HandleMessage, HandleHeartbeat, UpdateHeartbeat, HandleModeReady, HandleModeRejected,
             HandleModeCommitted, SetMode, vars
  <2>5. CASE Teardown(r, 0)
    BY <1>2, <2>2, <2>3, <2>5 DEF Teardown, Move, Disconnect, MarkDisconnected, IsCurrent, vars
  <2>6. CASE Sends(r) \/ Refuses(r) \/ SeesEnd(r) \/ Replaced(r) \/ Misses(r) \/ Expires(r)
    BY <2>6 DEF Sends, Forward, Take, Refuses, SeesEnd, Misses, Expires, EndUnregistered, Replaced,
                Break, vars
  <2> QED
    BY <1>3, <2>1, <2>4, <2>5, <2>6 DEF SessionStep, ServerStep, Ends, Delivers, Cut, Cuts
<1>4. CASE Monitor \/ (\E m \in SystemMode : Command(m)) \/ UNCHANGED <<vars, identity, leftover>>
  BY <1>4 DEF Monitor, RefreshHealth, Command, RequestMode, vars
<1> QED
  BY <1>3, <1>4 DEF Elsewhere

LEMMA NextKeepsRecord ==
  ASSUME CInv, RecordComes, [SystemNext]_systemVars
  PROVE  RecordComes'
<1> DEFINE Recorded(a, s) ==
      \/ OutOfStep(s)
      \/ LastSaid(up[s], runtime[a].mode)
      \/ NothingSaid(up[s]) /\ applications[a].current_mode = runtime[a].mode
<1> SUFFICES ASSUME NEW a \in App, NEW s \in Session, Running(a, s)', runtime'[a].reported,
                    stage'[s] = "registered", IsCurrent(s)'
             PROVE  Recorded(a, s)'
  BY DEF RecordComes
<1>1. YInv /\ EndsOK /\ OneProcess /\ ChannelsTypeOK /\ VInv
  BY DEF CInv, YInv
<1>2. up[s] \in Seq(ApplicationToSam) /\ runtime[a] \in Process
  BY <1>1 DEF ChannelsTypeOK
<1>3. InSession(a, s) /\ InSession(a, s)'
  <2>1. InSession(a, s)'
    BY DEF InSession, Running
  <2>2. ASSUME ~InSession(a, s)
        PROVE  FALSE
    <3>1. Connect(a, s)
      BY <1>1, <2>1, <2>2, SessionBegins
    <3> QED
      BY <1>1, <3>1 DEF Connect, Running, ChannelsTypeOK, Process
  <2> QED
    BY <2>1, <2>2
\* As long as the process goes on as it is.
<1>4. ASSUME runtime'[a] = runtime[a], stage[s] = "registered", SameSession(s)
      PROVE  /\ Recorded(a, s) /\ IsCurrent(s) /\ s \in Registered /\ identity[s].app = a
             /\ a \in Known
  <2>1. Running(a, s) /\ runtime[a].reported
    BY <1>4 DEF Running
  <2>2. s \in Registered /\ identity[s].app = a
    BY <1>1, <1>3, <2>1 DEF OneProcess, Running
  <2>3. IsCurrent(s)
    BY <1>1, <1>4, <2>2, CurrentBefore
  <2>4. a \in Known
    BY <1>1, <2>2, <2>3
       DEF IsCurrent, VerifyConnection, VInv, SInv, Agreement, ClientsAreConnected
  <2> QED
    BY <1>4, <2>1, <2>2, <2>3, <2>4 DEF RecordComes
<1>5. CASE SessionStep(s)
  <2>1. UNCHANGED runtime
    BY <1>5 DEF SessionStep, ServerStep, Expires, Cut
  <2>2. ~Registers(s)
    <3>1. s \in Registered
      BY <1>1, <1>3, <2>1 DEF OneProcess, Running
    <3> QED
      BY <1>1, <3>1 DEF Registers, RegisterSession, Move, VInv, SessionsTypeOK
  <2>3. /\ Delivers(s) \/ Cuts(s) \/ Handles(s)
        /\ stage[s] = "registered" /\ SameSession(s)
    BY <1>1, <1>5, <2>2, SessionStepOwn
  <2>4. Recorded(a, s) /\ identity[s].app = a /\ a \in Known
    BY <1>4, <2>1, <2>3
  <2>5. CASE Delivers(s)
    BY <2>1, <2>4, <2>5 DEF Delivers, Sends, Forward, Take, OutOfStep, vars
  <2>7. CASE Cuts(s)
    BY <1>1, <2>7, CutLeaves
  <2>6. CASE Handles(s)
    <3> DEFINE message == Head(up[s])
    <3>1. up[s] # << >> /\ up'[s] = Tail(up[s]) /\ HandleMessage(a, identity[s].id, message)
      BY <1>1, <2>4, <2>6 DEF Handles, Drained, ChannelsTypeOK
    <3>5. ~OutOfStep(s)
      BY <2>6 DEF Handles, IsError, OutOfStep
    <3>2. CASE LastSaid(Tail(up[s]), runtime[a].mode)
      BY <2>1, <3>1, <3>2
    <3>3. CASE message.type = "Heartbeat" /\ message.mode = runtime[a].mode
                 /\ NothingSaid(Tail(up[s]))
      <4>1. UpdateHeartbeat(a, message.health, message.mode, 0)
        BY <3>1, <3>3 DEF HandleMessage, HandleHeartbeat, IsLate
      <4>2. applications'[a].current_mode = message.mode
        BY <1>1, <2>4, <4>1 DEF UpdateHeartbeat, VInv, SInv, ServiceTypeOK, RegistryTypeOK
      <4> QED
        BY <2>1, <3>1, <3>3, <4>2
    <3>4. CASE ~Speaks(message) /\ NothingSaid(Tail(up[s]))
                 /\ applications[a].current_mode = runtime[a].mode
      <4>1. UNCHANGED applications
        BY <3>1, <3>4 DEF HandleMessage, HandleModeReady, HandleModeRejected, Speaks, vars
      <4> QED
        BY <2>1, <3>1, <3>4, <4>1
    <3> QED
      BY <1>2, <2>4, <3>1, <3>2, <3>3, <3>4, <3>5, SaidAndHandled
  <2> QED
    BY <2>3, <2>5, <2>6, <2>7
<1>6. CASE /\ Starts(a, s) \/ Beats(a, s) \/ Replies(a, s)
           /\ UNCHANGED <<vars, sessionVars, holder>>
  <2>1. stage[s] = "registered" /\ SameSession(s) /\ UNCHANGED applications
    BY <1>6, NothingRegisters DEF sessionVars, vars
  <2>5. Deaf(s) <=> OutOfStep(s)
    BY <2>1 DEF Deaf
  <2>2. ~Starts(a, s) /\ ~Commits(a, s, Head(down[s]))
    BY <1>1, <1>2 DEF Starts, Commits, Runs, ChannelsTypeOK, Process
  <2>6. CASE OutOfStep(s)
    <3>1. \E message : Write(s, message)
      BY <1>6, <2>2 DEF Beats, Replies, Prepare
    <3>2. up'[s] = up[s]
      BY <2>5, <2>6, <3>1 DEF Write
    <3> QED
      BY <2>6, <3>2 DEF OutOfStep
  <2>3. CASE Beats(a, s) /\ ~OutOfStep(s)
    <3>1. PICK h \in ReportedHealth : Write(s, Heartbeat(a, h, runtime[a].mode))
      BY <2>3 DEF Beats
    <3>2. up'[s] = Append(up[s], Heartbeat(a, h, runtime[a].mode))
      BY <1>1, <2>3, <2>5, <3>1 DEF Write, ChannelsTypeOK
    <3>3. runtime'[a].mode = runtime[a].mode
      BY <1>1, <1>2, <2>3 DEF Beats, ChannelsTypeOK, Process
    <3>4. Heartbeat(a, h, runtime[a].mode).type = "Heartbeat"
            /\ Heartbeat(a, h, runtime[a].mode).mode = runtime[a].mode
      BY DEF Heartbeat
    <3> QED
      BY <1>2, <3>2, <3>3, <3>4, SaidAndWritten
  <2>4. CASE Replies(a, s) /\ ~OutOfStep(s)
    <3>1. Prepare(a, s, Head(down[s])) /\ Running(a, s)
      BY <2>2, <2>4 DEF Replies, Answers
    <3>2. runtime'[a].mode = runtime[a].mode /\ runtime'[a].reported = runtime[a].reported
      BY <1>1, <1>2, <3>1 DEF Prepare, ChannelsTypeOK, Process
    <3>3. PICK answer \in {ModeReady(a, Head(down[s]).id), ModeRejected(a, Head(down[s]).id)} :
            up'[s] = Append(up[s], answer)
      BY <1>1, <2>4, <2>5, <3>1 DEF Prepare, Write, ChannelsTypeOK
    <3>4. ~Speaks(answer)
      BY DEF Speaks, ModeReady, ModeRejected
    <3>5. s \in Registered
      BY <1>1, <1>3, <3>1 DEF OneProcess, Running
    <3>6. Recorded(a, s)
      <4>1. IsCurrent(s)
        BY <1>1, <2>1, <3>5, CurrentBefore
      <4> QED
        BY <2>1, <3>1, <3>2, <4>1 DEF RecordComes
    <3> QED
      BY <1>2, <2>1, <2>4, <3>2, <3>3, <3>4, <3>6, SaidAndWritten
  <2> QED
    BY <1>6, <2>2, <2>3, <2>4, <2>6
<1>7. CASE /\ runtime'[a] = runtime[a] /\ holder'[s] = holder[s]
           /\ SameSession(s) /\ SameLines(s) /\ Elsewhere(s)
  <2>1. stage[s] = "registered" /\ up'[s] = up[s]
    BY <1>7 DEF SameSession, SameLines
  <2>2. Recorded(a, s) /\ IsCurrent(s) /\ identity[s].app = a
    BY <1>4, <1>7, <2>1
  <2>3. applications'[a].current_mode = applications[a].current_mode
    BY <1>1, <1>7, <2>1, <2>2, RecordIsOwn
  <2> QED
    BY <1>7, <2>1, <2>2, <2>3 DEF OutOfStep
<1> QED
  BY <1>1, <1>3, <1>5, <1>6, <1>7, SessionGoesOn

LEMMA InitRecord == SystemInit => RecordComes
BY DEF SystemInit, Started, RecordComes, Running

LEMMA AlwaysRecordComes == SystemSpec => []RecordComes
BY InitRecord, AlwaysCInv, NextKeepsRecord, PTL DEF SystemSpec
=============================================================================
