------------------------ MODULE SamServiceHistoryProofs ------------------------
(***************************************************************************)
(* SamServiceHistory, for any number of applications, connections and      *)
(* transitions: what the service commands and announces follows from what  *)
(* it was answered, whoever disconnects, is replaced, joins late or misses *)
(* a message.                                                              *)
(***************************************************************************)
EXTENDS SamServiceHistory, SamServiceProofs

ModeMessageType == {"PrepareMode", "CommitMode", "AbortMode"}

\* Ids are given out in order, and the last one given is in progress or over.
IdsInOrder ==
  /\ nextTransitionId \in 1 .. MaxTransition + 1
  /\ phase # "Stable" => transitionId \in Transition /\ nextTransitionId = transitionId + 1

\* Of a transition that was not requested yet there is no trace.
NothingAhead ==
  /\ asked \in [Transition -> SUBSET App]
  /\ \A e \in heard : /\ e.id \in Transition
                      /\ e.id < nextTransitionId
                      /\ asked[e.id] # {}
  /\ \A a \in App, t \in Transition, kind \in {"ready", "rejected", "committed"} :
       <<a, t, kind>> \in answers => t < nextTransitionId

\* What was said in the transition in progress.
Preparing(t) ==
  /\ ~Commanded("CommitMode", t)
  /\ \A a \in responded : <<a, t, "ready">> \in answers
  /\ \A a \in App : <<a, t, "committed">> \notin answers

Committing(t) ==
  /\ \A a \in asked[t] : <<a, t, "ready">> \in answers
  /\ \A a \in responded : <<a, t, "committed">> \in answers
  /\ \A a \in waitingFor : <<a, t, "committed">> \notin answers

RoundIsRecorded ==
  phase # "Stable" =>
    /\ asked[transitionId] = waitingFor \cup responded
    /\ ~Commanded("AbortMode", transitionId)
    /\ phase = "Preparing" => Preparing(transitionId)
    /\ phase = "Committing" => Committing(transitionId)

HInv ==
  /\ SInv
  /\ IdsInOrder /\ NothingAhead /\ RoundIsRecorded
  /\ OneVerdict /\ VerdictsAreEarned

-----------------------------------------------------------------------------
\* What a step adds to the record of what was heard.

Adds(m) == heard' \subseteq heard \cup {m}

LEMMA HeardOfBroadcast ==
  ASSUME ClientsTypeOK, NEW m, Broadcast(m), Remember
  PROVE  Adds(m) /\ (m.type \notin ModeMessageType => UNCHANGED heard)
<1>1. ASSUME NEW a \in App
      PROVE  Appended(a) \subseteq {m}
  <2>1. SUFFICES ASSUME a \in Connected, Len(clients'[a].outbound) > Len(clients[a].outbound)
                 PROVE  clients'[a].outbound[Len(clients'[a].outbound)] = m
    BY DEF Appended
  <2>2. clients[a].outbound \in Seq(SamToApplication)
          /\ clients'[a].outbound = Post(clients[a].outbound, m)
    BY <2>1 DEF Broadcast, ClientsTypeOK, ClientConnection, Connected
  <2>3. /\ Len(Append(clients[a].outbound, m)) = Len(clients[a].outbound) + 1
        /\ Append(clients[a].outbound, m)[Len(clients[a].outbound) + 1] = m
    BY <2>2
  <2>4. clients'[a].outbound = Append(clients[a].outbound, m)
    BY <2>1, <2>2 DEF Post
  <2> QED
    BY <2>3, <2>4
<1>2. UNION {Appended(a) : a \in App} \subseteq {m}
  BY <1>1
<1> QED
  BY <1>2 DEF Remember, Adds, ModeMessageType

\* Of two queues the second is not longer.
LEMMA NothingAppended ==
  ASSUME ClientsTypeOK, Remember,
         \A a \in Connected \cap DOMAIN clients' : clients'[a].id = clients[a].id =>
           \/ clients'[a].outbound = clients[a].outbound
           \/ /\ clients[a].outbound # << >>
              /\ clients'[a].outbound = Tail(clients[a].outbound)
  PROVE  UNCHANGED heard
<1>1. ASSUME NEW a \in App
      PROVE  Appended(a) = {}
  <2>1. SUFFICES ASSUME a \in Connected \cap DOMAIN clients', clients'[a].id = clients[a].id
                 PROVE  ~(Len(clients'[a].outbound) > Len(clients[a].outbound))
    BY DEF Appended
  <2>2. clients[a].outbound \in Seq(SamToApplication)
    BY <2>1 DEF ClientsTypeOK, ClientConnection
  <2>3. Len(clients[a].outbound) \in Nat
          /\ (clients[a].outbound # << >> =>
                Len(Tail(clients[a].outbound)) = Len(clients[a].outbound) - 1)
    BY <2>2
  <2>4. CASE clients'[a].outbound = clients[a].outbound
    BY <2>3, <2>4
  <2>5. CASE clients[a].outbound # << >> /\ clients'[a].outbound = Tail(clients[a].outbound)
    BY <2>3, <2>5
  <2> QED
    BY <2>1, <2>4, <2>5
<1> QED
  BY <1>1 DEF Remember

LEMMA StateBroadcastIsNoCommand ==
  ASSUME ClientsTypeOK, Remember, BroadcastState \/ BroadcastStateIfChanged
  PROVE  UNCHANGED heard
<1>1. CASE UNCHANGED clients
  BY <1>1, NothingAppended
<1>2. CASE BroadcastState
  <2>1. StateBroadcast(systemMode', systemHealth').type \notin ModeMessageType
    BY DEF StateBroadcast, ModeMessageType
  <2> QED
    BY <1>2, <2>1, HeardOfBroadcast DEF BroadcastState
<1> QED
  BY <1>1, <1>2 DEF BroadcastStateIfChanged

\* Whatever is not about a transition is no command.
LEMMA ElsewhereIsSilent ==
  ASSUME SInv, Elsewhere, Remember
  PROVE  UNCHANGED <<modeVars, systemMode, heard>>
<1>1. ClientsTypeOK
  BY DEF SInv, ServiceTypeOK
<1>2. ASSUME NEW a \in App, NEW wait, Register(a, wait)
      PROVE  UNCHANGED heard
  <2>1. ASSUME NEW b \in Connected, b # a
        PROVE  clients'[b] = clients[b]
    BY <1>2, <2>1 DEF Register
  <2>2. clients'[a].outbound = <<RegisterAccepted(systemMode, systemHealth')>>
    BY <1>2 DEF Register
  <2>3. \A b \in App : \A m \in Appended(b) : m.type \notin ModeMessageType
    <3>1. \A m \in Appended(a) : m = RegisterAccepted(systemMode, systemHealth')
      BY <2>2 DEF Appended
    <3>2. \A b \in App \ {a} : Appended(b) = {}
      <4>1. \A b \in Connected : Len(clients[b].outbound) \in Nat
        BY <1>1 DEF ClientsTypeOK, ClientConnection
      <4> QED
        BY <2>1, <4>1 DEF Appended
    <3> QED
      BY <3>1, <3>2 DEF RegisterAccepted, ModeMessageType
  <2> QED
    BY <2>3 DEF Remember, ModeMessageType
<1>3. ASSUME NEW a \in App, NEW c, NEW wait, Disconnect(a, c, wait)
      PROVE  UNCHANGED heard
  <2> DEFINE state == StateBroadcast(systemMode, systemHealth')
  <2>1. ASSUME NEW b \in App
        PROVE  Appended(b) \subseteq {state}
    <3>1. SUFFICES ASSUME b \in Connected \cap DOMAIN clients',
                          Len(clients'[b].outbound) > Len(clients[b].outbound)
                   PROVE  clients'[b].outbound[Len(clients'[b].outbound)] = state
      BY DEF Appended
    <3>2. clients[b].outbound \in Seq(SamToApplication)
            /\ clients'[b].outbound = Post(clients[b].outbound, state)
      BY <1>1, <1>3, <3>1 DEF Disconnect, ClientsTypeOK, ClientConnection
    <3>3. /\ Len(Append(clients[b].outbound, state)) = Len(clients[b].outbound) + 1
          /\ Append(clients[b].outbound, state)[Len(clients[b].outbound) + 1] = state
      BY <3>2
    <3>4. clients'[b].outbound = Append(clients[b].outbound, state)
      BY <3>1, <3>2 DEF Post
    <3> QED
      BY <3>3, <3>4
  <2>2. state.type \notin ModeMessageType
    BY DEF StateBroadcast, ModeMessageType
  <2> QED
    BY <2>1, <2>2 DEF Remember, ModeMessageType
<1>4. ASSUME NEW a, NEW c, NEW msg, NEW wait, HandleHeartbeat(a, c, msg, wait) \/ RefreshHealth(wait)
      PROVE  UNCHANGED heard
  BY <1>1, <1>4, StateBroadcastIsNoCommand DEF HandleHeartbeat, RefreshHealth
<1>5. ASSUME NEW a \in App, Take(a)
      PROVE  UNCHANGED heard
  <2>1. \A b \in Connected : clients'[b].outbound = IF b = a THEN Tail(clients[b].outbound)
                                                            ELSE clients[b].outbound
    BY <1>1, <1>5 DEF Take, ClientsTypeOK, ClientConnection
  <2> QED
    BY <1>1, <1>5, <2>1, NothingAppended DEF Take
<1>6. UNCHANGED heard
  BY <1>2, <1>3, <1>4, <1>5 DEF Elsewhere
<1> QED
  BY <1>6 DEF Elsewhere, Register, Disconnect, HandleHeartbeat, RefreshHealth, Take

-----------------------------------------------------------------------------
\* The invariant

LEMMA InitHInv == HInit => HInv
<1> SUFFICES ASSUME HInit PROVE HInv
  OBVIOUS
<1>1. SInv /\ phase = "Stable" /\ nextTransitionId = 1
  <2>1. 1 % IdSpace = 1
    BY IdSpaceAssumption, HistoryAssumption, BoundAssumption, SMT
  <2> QED
    BY <2>1, InitSInv DEF HInit, Init, Modes!New
<1>2. \A type, t : ~Commanded(type, t)
  BY DEF HInit, Commanded
<1> QED
  BY <1>1, <1>2, BoundAssumption
     DEF HInit, HInv, IdsInOrder, NothingAhead, RoundIsRecorded, OneVerdict, VerdictsAreEarned

\* The history only watches the service.
LEMMA HNextIsServices == [HNext]_historyVars => [Next]_vars
<1> SUFFICES ASSUME [HNext]_historyVars PROVE [Next]_vars
  OBVIOUS
<1>1. 0 \in LockWait
  BY TimeAssumption DEF LockWait
<1>2. ASSUME NEW a \in App, NEW c \in ConnectionId, NEW t \in Transition, NEW wait \in LockWait,
             Answers(a, c, t, wait)
      PROVE  Next
  <2>1. Call(a, c, wait)
    BY <1>2 DEF Answers, Call, Transition
  <2> QED
    BY <2>1 DEF Next
<1>3. ASSUME NEW m \in RequestedMode, Asks(m)
      PROVE  Next
  BY <1>3 DEF Asks, Next
<1>4. ASSUME Elsewhere
      PROVE  Next
  BY <1>4 DEF Elsewhere, Next, Call
<1> QED
  BY <1>2, <1>3, <1>4 DEF HNext, historyVars

\* A verdict on one transition, and whatever was said before.
LEMMA CommandedBefore ==
  ASSUME NEW m, Adds(m), NEW type, NEW t, Commanded(type, t)'
  PROVE  Commanded(type, t) \/ (m.type = type /\ m.id = t)
BY DEF Commanded, Adds

LEMMA RoundHasId ==
  ASSUME HInv, phase # "Stable"
  PROVE  /\ transitionId \in Transition /\ transitionId < nextTransitionId
         /\ asked[transitionId] # {} /\ asked[transitionId] \subseteq App
<1>1. transitionId \in Transition /\ transitionId < nextTransitionId
  BY DEF HInv, IdsInOrder, Transition
<1>2. waitingFor \cup responded # {} /\ waitingFor \cup responded \subseteq App
  BY DEF HInv, SInv, Manager!IInv, Manager!TransitionWellFormed, Manager!TypeOK
<1> QED
  BY <1>1, <1>2 DEF HInv, RoundIsRecorded

LEMMA AsksKeepsHInv ==
  ASSUME HInv, SInv', NEW m \in RequestedMode, Asks(m), Remember
  PROVE  HInv'
<1>0. PICK t : t = nextTransitionId
  OBVIOUS
<1>1. ClientsTypeOK /\ NothingAhead /\ OneVerdict /\ VerdictsAreEarned
  BY DEF HInv, SInv, ServiceTypeOK
<1>2. /\ t \in 1 .. MaxTransition /\ MaxTransition \in Nat
      /\ nextTransitionId' = t + 1
      /\ phase' = "Preparing" /\ transitionId' = t
      /\ waitingFor' = Connected /\ responded' = {} /\ Connected # {} /\ Connected \subseteq App
  <2>1. t \in 1 .. MaxTransition
    BY <1>0, BoundAssumption DEF HInv, IdsInOrder, Asks, RequestMode
  <2>2. (t + 1) % IdSpace = t + 1
    BY <2>1, IdSpaceAssumption, HistoryAssumption, BoundAssumption, SMT
  <2> QED
    BY <1>0, <1>1, <2>1, <2>2, BoundAssumption
       DEF Asks, RequestMode, Modes!RequestTransition, Modes!AcceptsRequest, Modes!NextId,
           ClientsTypeOK
<1>3. /\ asked \in [Transition -> SUBSET App] /\ t \in Transition
      /\ asked' = [asked EXCEPT ![t] = Connected] /\ UNCHANGED answers
  BY <1>0, <1>1, <1>2 DEF Asks, NothingAhead, Transition
<1>4. Adds(PrepareMode(t, m))
  BY <1>0, <1>1, HeardOfBroadcast DEF Asks, RequestMode
<1>5. \A type \in {"CommitMode", "AbortMode"} : \A d : Commanded(type, d)' => Commanded(type, d) /\ d # t
  <2>1. PrepareMode(t, m).type = "PrepareMode"
    BY DEF PrepareMode
  <2>2. \A type, d : Commanded(type, d) => d # t
    BY <1>0, <1>1, <1>2 DEF NothingAhead, Commanded, Transition
  <2> QED
    BY <1>4, <2>1, <2>2, CommandedBefore
<1>6. IdsInOrder'
  BY <1>2, <1>3 DEF IdsInOrder
<1>7. NothingAhead'
  <2>1. ASSUME NEW e \in heard'
        PROVE  e.id \in Transition /\ e.id < nextTransitionId' /\ asked'[e.id] # {}
    <3>1. CASE e = PrepareMode(t, m)
      BY <1>2, <1>3, <3>1 DEF PrepareMode
    <3>2. CASE e \in heard
      BY <1>0, <1>1, <1>2, <1>3, <3>2 DEF NothingAhead, Transition
    <3> QED
      BY <1>4, <2>1, <3>1, <3>2 DEF Adds
  <2>2. ASSUME NEW a \in App, NEW d \in Transition, NEW kind \in {"ready", "rejected", "committed"},
               <<a, d, kind>> \in answers'
        PROVE  d < nextTransitionId'
    <3>1. d < t
      BY <1>0, <1>1, <1>3, <2>2 DEF NothingAhead
    <3>2. d \in Nat
      BY DEF Transition
    <3> QED
      BY <1>2, <3>1, <3>2
  <2>3. asked' \in [Transition -> SUBSET App]
    BY <1>2, <1>3
  <2> QED
    BY <2>1, <2>2, <2>3 DEF NothingAhead
<1>8. RoundIsRecorded'
  <2>1. ASSUME NEW a \in App
        PROVE  <<a, t, "committed">> \notin answers
    <3>1. ~(t < t)
      BY <1>2
    <3> QED
      BY <1>0, <1>1, <1>3, <3>1 DEF NothingAhead
  <2>2. ~Commanded("CommitMode", t)' /\ ~Commanded("AbortMode", t)'
    BY <1>5
  <2>3. asked'[t] = waitingFor' \cup responded'
    BY <1>2, <1>3
  <2>4. Preparing(t)'
    BY <1>2, <1>3, <2>1, <2>2 DEF Preparing
  <2> QED
    BY <1>2, <2>2, <2>3, <2>4 DEF RoundIsRecorded
<1>9. OneVerdict'
  BY <1>1, <1>5 DEF OneVerdict
<1>10. VerdictsAreEarned'
  <2>1. \A d \in Transition : d # t => asked'[d] = asked[d]
    BY <1>3
  <2> QED
    BY <1>1, <1>3, <1>5, <1>7, <2>1 DEF VerdictsAreEarned, NothingAhead
<1> QED
  BY <1>6, <1>7, <1>8, <1>9, <1>10 DEF HInv

\* An answer is to the transition in progress, and so is what it brings about.
LEMMA AnswerKeepsNothingAhead ==
  ASSUME HInv, NEW a \in App, NEW t \in Transition, t < nextTransitionId, asked[t] # {},
         NEW kind, Answered(a, t, kind), UNCHANGED nextTransitionId,
         NEW m, m.id = t, Adds(m)
  PROVE  NothingAhead'
<1>1. NothingAhead
  BY DEF HInv
<1>2. answers' = answers \cup {<<a, t, kind>>} /\ UNCHANGED asked
  BY DEF Answered
<1>3. ASSUME NEW e \in heard'
      PROVE  e.id \in Transition /\ e.id < nextTransitionId' /\ asked'[e.id] # {}
  BY <1>1, <1>2, <1>3 DEF NothingAhead, Adds
<1>4. ASSUME NEW b \in App, NEW d \in Transition, NEW k \in {"ready", "rejected", "committed"},
             <<b, d, k>> \in answers'
      PROVE  d < nextTransitionId'
  <2>1. CASE <<b, d, k>> \in answers
    BY <1>1, <2>1 DEF NothingAhead
  <2>2. CASE <<b, d, k>> = <<a, t, kind>>
    BY <2>2
  <2> QED
    BY <1>2, <1>4, <2>1, <2>2
<1>5. asked' \in [Transition -> SUBSET App]
  BY <1>1, <1>2 DEF NothingAhead
<1> QED
  BY <1>3, <1>4, <1>5 DEF NothingAhead

LEMMA ReadyKeepsHInv ==
  ASSUME HInv, SInv', NEW a \in App, NEW c, NEW t \in Transition,
         HandleModeReady(a, c, ModeReady(a, t)), Answered(a, t, "ready"), Remember
  PROVE  HInv'
<1>1. /\ ClientsTypeOK /\ OneVerdict /\ VerdictsAreEarned
      /\ phase = "Preparing" /\ t = transitionId /\ a \in waitingFor
      /\ UNCHANGED <<target, transitionId, nextTransitionId>>
      /\ IF waitingFor = {a}
           THEN phase' = "Committing" /\ waitingFor' = responded \cup {a} /\ responded' = {}
           ELSE /\ UNCHANGED phase
                /\ waitingFor' = waitingFor \ {a} /\ responded' = responded \cup {a}
  BY DEF HInv, SInv, ServiceTypeOK, HandleModeReady, ModeReady, Modes!ApplicationReady,
         Modes!AcceptsReady
<1>2. /\ asked[t] = waitingFor \cup responded /\ ~Commanded("AbortMode", t) /\ Preparing(t)
      /\ t < nextTransitionId /\ asked[t] # {} /\ asked[t] \subseteq App
  BY <1>1, RoundHasId DEF HInv, RoundIsRecorded
<1>3. answers' = answers \cup {<<a, t, "ready">>} /\ UNCHANGED asked
  BY DEF Answered
<1>4. \A b, d : <<b, d, "committed">> \in answers' <=> <<b, d, "committed">> \in answers
  BY <1>3
<1>5. /\ Adds(CommitMode(t, target))
      /\ waitingFor # {a} => UNCHANGED heard
  <2>1. CASE waitingFor = {a}
    BY <1>1, <2>1, HeardOfBroadcast DEF HandleModeReady
  <2>2. CASE waitingFor # {a}
    <3>1. UNCHANGED clients
      BY <1>1, <2>2 DEF HandleModeReady
    <3> QED
      BY <1>1, <3>1, NothingAppended DEF Adds
  <2> QED
    BY <2>1, <2>2
<1>6. CommitMode(t, target).id = t /\ CommitMode(t, target).type = "CommitMode"
  BY DEF CommitMode
<1>7. \A d : /\ Commanded("AbortMode", d)' => Commanded("AbortMode", d)
             /\ Commanded("CommitMode", d)' =>
                  Commanded("CommitMode", d) \/ (d = t /\ waitingFor = {a})
  BY <1>5, <1>6, CommandedBefore DEF Commanded
<1>8. IdsInOrder'
  BY <1>1 DEF HInv, IdsInOrder
<1>9. NothingAhead'
  BY <1>1, <1>2, <1>5, <1>6, AnswerKeepsNothingAhead
<1>10. waitingFor = {a} => \A b \in asked[t] : <<b, t, "ready">> \in answers'
  BY <1>2, <1>3 DEF Preparing
<1>11. RoundIsRecorded'
  <2>1. asked'[t] = waitingFor' \cup responded' /\ ~Commanded("AbortMode", t)'
    BY <1>1, <1>2, <1>3, <1>7
  <2>2. CASE waitingFor = {a}
    <3>1. Committing(t)'
      BY <1>1, <1>2, <1>3, <1>4, <1>10, <2>2 DEF Preparing, Committing
    <3> QED
      BY <1>1, <2>1, <2>2, <3>1 DEF RoundIsRecorded
  <2>3. CASE waitingFor # {a}
    <3>1. Preparing(t)'
      BY <1>1, <1>2, <1>3, <1>4, <1>7, <2>3 DEF Preparing
    <3> QED
      BY <1>1, <2>1, <2>3, <3>1 DEF RoundIsRecorded
  <2> QED
    BY <2>2, <2>3
<1>12. OneVerdict'
  BY <1>1, <1>2, <1>7 DEF OneVerdict
<1>13. VerdictsAreEarned'
  <2>1. \A d \in Transition : Commanded("CommitMode", d)' =>
          \A b \in asked'[d] : <<b, d, "ready">> \in answers'
    BY <1>1, <1>3, <1>7, <1>10 DEF VerdictsAreEarned
  <2>2. \A d \in Transition : Commanded("AbortMode", d)' =>
          /\ \E b \in asked'[d] : <<b, d, "rejected">> \in answers'
          /\ \A b \in App : <<b, d, "committed">> \notin answers'
    BY <1>1, <1>3, <1>4, <1>7 DEF VerdictsAreEarned
  <2> QED
    BY <1>9, <2>1, <2>2 DEF VerdictsAreEarned, NothingAhead
<1> QED
  BY <1>8, <1>9, <1>11, <1>12, <1>13 DEF HInv

LEMMA RejectedKeepsHInv ==
  ASSUME HInv, SInv', NEW a \in App, NEW c, NEW t \in Transition,
         HandleModeRejected(a, c, ModeRejected(a, t)), Answered(a, t, "rejected"), Remember
  PROVE  HInv'
<1>1. /\ ClientsTypeOK /\ OneVerdict /\ VerdictsAreEarned
      /\ phase = "Preparing" /\ t = transitionId /\ a \in waitingFor \cup responded
      /\ phase' = "Stable" /\ UNCHANGED nextTransitionId
  BY DEF HInv, SInv, ServiceTypeOK, HandleModeRejected, ModeRejected, Modes!ApplicationRejected,
         Modes!AcceptsRejection, Modes!Settle
<1>2. /\ asked[t] = waitingFor \cup responded /\ Preparing(t)
      /\ t < nextTransitionId /\ asked[t] # {}
  BY <1>1, RoundHasId DEF HInv, RoundIsRecorded
<1>3. answers' = answers \cup {<<a, t, "rejected">>} /\ UNCHANGED asked
  BY DEF Answered
<1>4. \A b, d : <<b, d, "committed">> \in answers' <=> <<b, d, "committed">> \in answers
  BY <1>3
<1>5. Adds(AbortMode(t)) /\ AbortMode(t).id = t /\ AbortMode(t).type = "AbortMode"
  <2>1. Broadcast(AbortMode(t))
    BY DEF HandleModeRejected, ModeRejected
  <2> QED
    BY <1>1, <2>1, HeardOfBroadcast DEF AbortMode
<1>6. \A d : /\ Commanded("CommitMode", d)' => Commanded("CommitMode", d)
             /\ Commanded("AbortMode", d)' => Commanded("AbortMode", d) \/ d = t
  BY <1>5, CommandedBefore
<1>7. IdsInOrder'
  BY <1>1 DEF HInv, IdsInOrder
<1>8. NothingAhead'
  BY <1>1, <1>2, <1>5, AnswerKeepsNothingAhead
<1>9. OneVerdict'
  BY <1>1, <1>2, <1>6 DEF OneVerdict, Preparing
<1>10. VerdictsAreEarned'
  <2>1. \A d \in Transition : Commanded("CommitMode", d)' =>
          \A b \in asked'[d] : <<b, d, "ready">> \in answers'
    BY <1>1, <1>3, <1>6 DEF VerdictsAreEarned
  <2>2. ASSUME NEW d \in Transition, Commanded("AbortMode", d)'
        PROVE  /\ \E b \in asked'[d] : <<b, d, "rejected">> \in answers'
               /\ \A b \in App : <<b, d, "committed">> \notin answers'
    <3>1. CASE d = t
      BY <1>1, <1>2, <1>3, <1>4, <3>1 DEF Preparing
    <3>2. CASE Commanded("AbortMode", d)
      BY <1>1, <1>3, <1>4, <3>2 DEF VerdictsAreEarned
    <3> QED
      BY <1>6, <2>2, <3>1, <3>2
  <2> QED
    BY <1>8, <2>1, <2>2 DEF VerdictsAreEarned, NothingAhead
<1> QED
  BY <1>1, <1>7, <1>8, <1>9, <1>10 DEF HInv, RoundIsRecorded

LEMMA CommittedKeepsHInv ==
  ASSUME HInv, SInv', NEW a \in App, NEW c, NEW t \in Transition, NEW m, NEW wait,
         HandleModeCommitted(a, c, ModeCommitted(a, t, m), wait), Answered(a, t, "committed"),
         Remember
  PROVE  HInv'
<1>1. /\ ClientsTypeOK /\ OneVerdict /\ VerdictsAreEarned
      /\ phase = "Committing" /\ t = transitionId /\ a \in waitingFor
      /\ UNCHANGED nextTransitionId
      /\ IF waitingFor = {a}
           THEN phase' = "Stable"
           ELSE /\ UNCHANGED <<phase, transitionId>>
                /\ waitingFor' = waitingFor \ {a} /\ responded' = responded \cup {a}
  BY DEF HInv, SInv, ServiceTypeOK, HandleModeCommitted, ModeCommitted,
         Modes!ApplicationCommitted, Modes!AcceptsCommit, Modes!Settle
<1>2. /\ asked[t] = waitingFor \cup responded /\ ~Commanded("AbortMode", t) /\ Committing(t)
      /\ t < nextTransitionId /\ asked[t] # {}
  BY <1>1, RoundHasId DEF HInv, RoundIsRecorded
<1>3. answers' = answers \cup {<<a, t, "committed">>} /\ UNCHANGED asked
  BY DEF Answered
<1>4. UNCHANGED heard
  <2>1. CASE UNCHANGED clients
    BY <1>1, <2>1, NothingAppended
  <2>2. CASE BroadcastState
    BY <1>1, <2>2, StateBroadcastIsNoCommand
  <2> QED
    BY <2>1, <2>2 DEF HandleModeCommitted
<1>5. \A type, d : Commanded(type, d)' <=> Commanded(type, d)
  BY <1>4 DEF Commanded
<1>6. IdsInOrder'
  BY <1>1 DEF HInv, IdsInOrder
<1>7. NothingAhead'
  <2>1. Adds(AbortMode(t)) /\ AbortMode(t).id = t
    BY <1>4 DEF Adds, AbortMode
  <2> QED
    BY <1>1, <1>2, <2>1, AnswerKeepsNothingAhead
<1>8. RoundIsRecorded'
  <2>1. SUFFICES ASSUME waitingFor # {a}
                 PROVE  RoundIsRecorded'
    BY <1>1 DEF RoundIsRecorded
  <2>2. asked'[t] = waitingFor' \cup responded'
    BY <1>1, <1>2, <1>3, <2>1
  <2>3. Committing(t)'
    BY <1>1, <1>2, <1>3, <2>1 DEF Committing
  <2> QED
    BY <1>1, <1>2, <1>5, <2>1, <2>2, <2>3 DEF RoundIsRecorded
<1>9. OneVerdict'
  BY <1>1, <1>5 DEF OneVerdict
<1>10. VerdictsAreEarned'
  <2>1. \A d \in Transition : Commanded("CommitMode", d)' =>
          \A b \in asked'[d] : <<b, d, "ready">> \in answers'
    BY <1>1, <1>3, <1>5 DEF VerdictsAreEarned
  <2>2. ASSUME NEW d \in Transition, Commanded("AbortMode", d)'
        PROVE  /\ \E b \in asked'[d] : <<b, d, "rejected">> \in answers'
               /\ \A b \in App : <<b, d, "committed">> \notin answers'
    <3>1. Commanded("AbortMode", d) /\ d # t
      BY <1>2, <1>5, <2>2
    <3> QED
      BY <1>1, <1>3, <3>1 DEF VerdictsAreEarned
  <2> QED
    BY <1>7, <2>1, <2>2 DEF VerdictsAreEarned, NothingAhead
<1> QED
  BY <1>6, <1>7, <1>8, <1>9, <1>10 DEF HInv

\* A step of the service that concerns no transition keeps the record.
LEMMA SilenceKeepsHInv ==
  ASSUME HInv, SInv', UNCHANGED <<modeVars, asked, answers, heard>>
  PROVE  HInv'
<1>1. \A type, d : Commanded(type, d)' <=> Commanded(type, d)
  BY DEF Commanded
<1>2. IdsInOrder' /\ NothingAhead'
  BY DEF HInv, modeVars, IdsInOrder, NothingAhead
<1>3. RoundIsRecorded'
  BY <1>1 DEF HInv, modeVars, RoundIsRecorded, Preparing, Committing
<1>4. OneVerdict' /\ VerdictsAreEarned'
  BY <1>1 DEF HInv, OneVerdict, VerdictsAreEarned
<1> QED
  BY <1>2, <1>3, <1>4 DEF HInv

LEMMA NextKeepsHInv == HInv /\ [HNext]_historyVars => HInv'
<1> SUFFICES ASSUME HInv, [HNext]_historyVars
             PROVE  HInv'
  OBVIOUS
<1>1. SInv'
  BY HNextIsServices, NextKeepsSInv DEF HInv
<1>2. ASSUME NEW a \in App, NEW c \in ConnectionId, NEW t \in Transition, NEW wait \in LockWait,
             Answers(a, c, t, wait), Remember
      PROVE  HInv'
  <2>1. CASE HandleModeReady(a, c, ModeReady(a, t)) /\ Answered(a, t, "ready")
    BY <1>1, <1>2, <2>1, ReadyKeepsHInv
  <2>2. CASE HandleModeRejected(a, c, ModeRejected(a, t)) /\ Answered(a, t, "rejected")
    BY <1>1, <1>2, <2>2, RejectedKeepsHInv
  <2>3. ASSUME NEW m \in ReportedMode,
               HandleModeCommitted(a, c, ModeCommitted(a, t, m), wait),
               Answered(a, t, "committed")
        PROVE  HInv'
    BY <1>1, <1>2, <2>3, CommittedKeepsHInv
  <2> QED
    BY <1>2, <2>1, <2>2, <2>3 DEF Answers
<1>3. ASSUME NEW m \in RequestedMode, Asks(m), Remember
      PROVE  HInv'
  BY <1>1, <1>3, AsksKeepsHInv
<1>4. CASE Elsewhere /\ UNCHANGED <<asked, answers>> /\ Remember
  <2>1. UNCHANGED <<modeVars, asked, answers, heard>>
    BY <1>4, ElsewhereIsSilent DEF HInv
  <2> QED
    BY <1>1, <2>1, SilenceKeepsHInv
<1>5. CASE UNCHANGED historyVars
  BY <1>1, <1>5, SilenceKeepsHInv DEF historyVars, vars
<1> QED
  BY <1>2, <1>3, <1>4, <1>5 DEF HNext

-----------------------------------------------------------------------------
\* Theorems

\* No transition is both committed and aborted (README.md:20-24), whoever the
\* verdicts were queued for.
THEOREM OutcomeIsUnique == HSpec => []OneVerdict
<1>1. HInv => OneVerdict
  BY DEF HInv
<1> QED
  BY InitHInv, NextKeepsHInv, <1>1, PTL DEF HSpec

\* A commit was agreed to by everyone who was asked; an abort was asked for by
\* somebody who was, before anybody had committed.
THEOREM VerdictsFollowAnswers == HSpec => []VerdictsAreEarned
<1>1. HInv => VerdictsAreEarned
  BY DEF HInv
<1> QED
  BY InitHInv, NextKeepsHInv, <1>1, PTL DEF HSpec

\* Only the last confirmation changes the announced mode.
LEMMA ChangeIsConsented ==
  ASSUME HInv, [HNext]_historyVars, systemMode' # systemMode
  PROVE  \E t \in Transition :
           /\ asked[t] # {}
           /\ \A a \in asked[t] : {<<a, t, "ready">>, <<a, t, "committed">>} \subseteq answers'
           /\ \E a \in asked[t] : <<a, t, "committed">> \notin answers
<1>1. PICK a \in App, c \in ConnectionId, t \in Transition, m \in ReportedMode, wait \in LockWait :
        HandleModeCommitted(a, c, ModeCommitted(a, t, m), wait) /\ Answered(a, t, "committed")
  <2>1. \A n \in RequestedMode : ~Asks(n)
    BY DEF Asks, RequestMode
  <2>2. ~(Elsewhere /\ Remember)
    BY ElsewhereIsSilent DEF HInv
  <2>3. ~UNCHANGED historyVars
    BY DEF historyVars, vars
  <2> QED
    BY <2>1, <2>2, <2>3 DEF HNext, Answers, HandleModeReady, HandleModeRejected
<1>2. phase = "Committing" /\ t = transitionId /\ waitingFor = {a}
  BY <1>1 DEF HandleModeCommitted, ModeCommitted, Modes!ApplicationCommitted,
              Modes!AcceptsCommit, Modes!Settle
<1>3. asked[t] = {a} \cup responded /\ Committing(t)
  BY <1>2 DEF HInv, RoundIsRecorded
<1>4. answers' = answers \cup {<<a, t, "committed">>}
  BY <1>1 DEF Answered
<1> QED
  BY <1>2, <1>3, <1>4 DEF Committing

\* README.md:65-66: the announced mode moves with the last confirmation of a
\* transition that everyone who was asked agreed to, and at no other time.
THEOREM Consent == HSpec => ModeChangesByConsent
<1>1. HInv /\ [HNext]_historyVars =>
        [systemMode' # systemMode =>
           \E t \in Transition :
             /\ asked[t] # {}
             /\ \A a \in asked[t] : {<<a, t, "ready">>, <<a, t, "committed">>} \subseteq answers'
             /\ \E a \in asked[t] : <<a, t, "committed">> \notin answers]_historyVars
  BY ChangeIsConsented
<1> QED
  BY InitHInv, NextKeepsHInv, <1>1, PTL DEF HSpec, ModeChangesByConsent
=============================================================================
