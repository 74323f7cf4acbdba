------------------------- MODULE SamExecutableProofs -------------------------
(***************************************************************************)
(* SamExecutable, for any number of applications, connections and messages *)
(* on their way, whatever crashes, restarts, times out, refuses or fails   *)
(* to commit: no process is ever in a mode that was not agreed to by all   *)
(* who were asked.  Every message that can move a process carries such a   *)
(* mode, wherever it is queued.  And as long as no session of SAM's drops  *)
(* a frame half-read, a script is never told that a transition is in       *)
(* progress, nor finds a mode it does not expect; when the showcase passes *)
(* then, every process is where the console shows it.                      *)
(***************************************************************************)
EXTENDS SamExecutable, SamSystemProofs

\* No message of the queue is one of these.
Free(queue, bad) == \A i \in 1 .. Len(queue) : queue[i] \notin bad

ServiceFree(bad) == \A b \in Connected : Free(clients[b].outbound, bad)

ServerFree(bad) == ServiceFree(bad) /\ \A s \in Session : Free(leftover[s], bad)

DownFree(bad) == \A s \in Session : Free(down[s], bad)

\* The message with which a round begins or becomes a commit.
RoundOrder ==
  IF phase = "Preparing" THEN PrepareMode(transitionId, target) ELSE CommitMode(transitionId, target)

\* What a step of the service may queue is none of these.
NeverPosted(bad) ==
  /\ \A m \in bad : m.type \notin {"StateBroadcast", "AbortMode"}
  /\ \A h : RegisterAccepted(systemMode, h) \notin bad
  /\ phase' # phase /\ phase' # "Stable" => RoundOrder' \notin bad

\* The messages that make a process commit a mode that is none of these.
Unagreed(modes) ==
  {m \in SamToApplication : m.type \in {"RegisterAccepted", "CommitMode"} /\ m.mode \notin modes}

EInv ==
  /\ YInv
  /\ "Startup" \in decided /\ systemMode \in decided
  /\ phase = "Committing" => target \in decided
  /\ \A a \in App : runtime[a].mode \in decided
  /\ ServerFree(Unagreed(decided)) /\ DownFree(Unagreed(decided))

-----------------------------------------------------------------------------
\* Queues

LEMMA FreeOfRest ==
  ASSUME NEW queue \in Seq(SamToApplication), NEW bad, Free(queue, bad), queue # << >>
  PROVE  Free(Tail(queue), bad) /\ Head(queue) \notin bad
<1>1. Len(queue) \in Nat \ {0} /\ Head(queue) = queue[1]
  OBVIOUS
<1>2. /\ Len(Tail(queue)) = Len(queue) - 1
      /\ \A i \in 1 .. Len(queue) - 1 : Tail(queue)[i] = queue[i + 1]
  OBVIOUS
<1> QED
  BY <1>1, <1>2 DEF Free

LEMMA ReportsRest ==
  ASSUME NEW queue \in Seq(ApplicationToSam), NEW bad, Free(queue, bad), queue # << >>
  PROVE  Free(Tail(queue), bad) /\ Head(queue) \notin bad
<1>1. /\ Len(queue) \in Nat /\ Len(queue) > 0 /\ Head(queue) = queue[1]
      /\ Len(Tail(queue)) = Len(queue) - 1
      /\ \A i \in 1 .. Len(queue) - 1 : Tail(queue)[i] = queue[i + 1]
  BY QueueElements
<1>2. ASSUME NEW i \in 1 .. Len(Tail(queue))
      PROVE  Tail(queue)[i] \notin bad
  <2>1. i \in 1 .. Len(queue) - 1 /\ i + 1 \in 1 .. Len(queue)
    BY <1>1, <1>2
  <2> QED
    BY <1>1, <2>1 DEF Free
<1>3. 1 \in 1 .. Len(queue)
  BY <1>1
<1> QED
  BY <1>1, <1>2, <1>3 DEF Free

LEMMA FreeOfMore ==
  ASSUME NEW S, NEW queue \in Seq(S), NEW bad, NEW message, Free(queue, bad), message \notin bad
  PROVE  Free(Append(queue, message), bad) /\ Free(Post(queue, message), bad)
<1>1. /\ Len(Append(queue, message)) = Len(queue) + 1
      /\ \A i \in 1 .. Len(queue) : Append(queue, message)[i] = queue[i]
      /\ Append(queue, message)[Len(queue) + 1] = message
      /\ Len(queue) \in Nat
  OBVIOUS
<1>2. Free(Append(queue, message), bad)
  BY <1>1 DEF Free
<1> QED
  BY <1>2 DEF Post

LEMMA FreeOfNone == ASSUME NEW bad PROVE Free(<< >>, bad)
BY DEF Free

LEMMA FreeOfFewer ==
  ASSUME NEW many, NEW few, few \subseteq many
  PROVE  /\ ServerFree(many) => ServerFree(few)
         /\ DownFree(many) => DownFree(few)
BY DEF Free, ServiceFree, ServerFree, DownFree

-----------------------------------------------------------------------------
\* Rounds

\* A round is for one mode under one id, and those it waits for only get fewer.
LEMMA RoundGoesOn ==
  ASSUME SInv, [Next]_vars, phase' = phase, phase # "Stable"
  PROVE  UNCHANGED <<target, transitionId>> /\ waitingFor' \subseteq waitingFor
<1>1. CASE UNCHANGED modeVars
  BY <1>1 DEF modeVars
<1>2. ASSUME NEW m, RequestMode(m)
      PROVE  FALSE
  BY <1>2 DEF RequestMode, Modes!RequestTransition, Modes!AcceptsRequest
<1>3. ASSUME NEW a, NEW b, NEW c, NEW t, HandleModeReady(a, c, ModeReady(b, t))
      PROVE  UNCHANGED <<target, transitionId>> /\ waitingFor' \subseteq waitingFor
  BY <1>3 DEF HandleModeReady, Modes!ApplicationReady, Modes!AcceptsReady
<1>4. ASSUME NEW a, NEW b, NEW c, NEW t, HandleModeRejected(a, c, ModeRejected(b, t))
      PROVE  FALSE
  BY <1>4 DEF HandleModeRejected, Modes!ApplicationRejected, Modes!AcceptsRejection, Modes!Settle
<1>5. ASSUME NEW a, NEW b, NEW c, NEW t, NEW m, NEW wait,
             HandleModeCommitted(a, c, ModeCommitted(b, t, m), wait)
      PROVE  UNCHANGED <<target, transitionId>> /\ waitingFor' \subseteq waitingFor
  BY <1>5 DEF HandleModeCommitted, Modes!ApplicationCommitted, Modes!AcceptsCommit, Modes!Settle
<1> QED
  BY <1>1, <1>2, <1>3, <1>4, <1>5, ServiceSteps
     DEF Register, Disconnect, HandleHeartbeat, RefreshHealth, Take, Tick, vars

\* A step that opens a round tells everybody who is connected, if there is room.
LEMMA RoundOpens ==
  ASSUME SInv, [Next]_vars, phase' # phase, phase' # "Stable"
  PROVE  \E order \in SamToApplication : order = RoundOrder' /\ Broadcast(order)
<1>1. /\ nextTransitionId \in TransitionId
      /\ phase = "Preparing" => transitionId \in TransitionId
      /\ target \in SystemMode
  BY SameSets DEF SInv, Manager!IInv, Manager!TypeOK, Manager!TransitionWellFormed
<1>2. ASSUME NEW m \in SystemMode, RequestMode(m)
      PROVE  \E order \in SamToApplication : order = RoundOrder' /\ Broadcast(order)
  <2>1. PrepareMode(nextTransitionId, m) \in SamToApplication
    BY <1>1, MessageTypes
  <2>2. phase' = "Preparing" /\ target' = m /\ transitionId' = nextTransitionId
          /\ Broadcast(PrepareMode(nextTransitionId, m))
    BY <1>2 DEF RequestMode, Modes!RequestTransition
  <2> QED
    BY <2>1, <2>2 DEF RoundOrder
<1>3. ASSUME NEW a, NEW b, NEW c, NEW t, HandleModeReady(a, c, ModeReady(b, t))
      PROVE  \E order \in SamToApplication : order = RoundOrder' /\ Broadcast(order)
  <2>1. phase = "Preparing" /\ phase' = "Committing" /\ UNCHANGED <<target, transitionId>>
    BY <1>3 DEF HandleModeReady, Modes!ApplicationReady, Modes!AcceptsReady
  <2>2. Broadcast(CommitMode(transitionId, target))
    BY <1>3, <2>1 DEF HandleModeReady
  <2>3. CommitMode(transitionId, target) \in SamToApplication
    BY <1>1, <2>1, MessageTypes
  <2> QED
    BY <2>1, <2>2, <2>3 DEF RoundOrder
<1>4. ASSUME NEW a, NEW b, NEW c, NEW t, NEW m, NEW wait,
             \/ HandleModeRejected(a, c, ModeRejected(b, t))
             \/ HandleModeCommitted(a, c, ModeCommitted(b, t, m), wait)
      PROVE  FALSE
  BY <1>4 DEF HandleModeRejected, Modes!ApplicationRejected, Modes!Settle, HandleModeCommitted,
              Modes!ApplicationCommitted, Modes!AcceptsCommit
<1> QED
  BY <1>2, <1>3, <1>4, ServiceSteps
     DEF Register, Disconnect, HandleHeartbeat, RefreshHealth, Take, Tick, vars, modeVars

-----------------------------------------------------------------------------
\* The service

LEMMA BroadcastIsFree ==
  ASSUME ClientsTypeOK, NEW bad, NEW message, message \notin bad, Broadcast(message),
         ServiceFree(bad)
  PROVE  ServiceFree(bad)'
<1>1. Connected' = Connected
        /\ \A b \in Connected : clients'[b].outbound = Post(clients[b].outbound, message)
  BY DEF Broadcast, ClientsTypeOK, ClientConnection, Connected
<1>2. \A b \in Connected : clients[b].outbound \in Seq(SamToApplication)
  BY DEF ClientsTypeOK, ClientConnection
<1> QED
  BY <1>1, <1>2, FreeOfMore DEF ServiceFree

LEMMA StateBroadcastIsFree ==
  ASSUME ClientsTypeOK, NEW bad, \A m \in bad : m.type # "StateBroadcast",
         BroadcastState \/ BroadcastStateIfChanged, ServiceFree(bad)
  PROVE  ServiceFree(bad)'
<1>1. ASSUME NEW m, NEW h PROVE StateBroadcast(m, h) \notin bad
  BY DEF StateBroadcast
<1>2. CASE BroadcastState
  BY <1>1, <1>2, BroadcastIsFree DEF BroadcastState
<1>3. CASE UNCHANGED clients
  BY <1>3 DEF ServiceFree, Connected
<1> QED
  BY <1>2, <1>3 DEF BroadcastStateIfChanged

\* A round's order is the only message that is not the same in every round.
LEMMA ServiceKeepsFree ==
  ASSUME SInv, NEW bad, NeverPosted(bad), ServiceFree(bad), [Next]_vars
  PROVE  ServiceFree(bad)'
<1>1. /\ ClientsTypeOK
      /\ \A b \in Connected : clients[b].outbound \in Seq(SamToApplication)
      /\ \A m, h : StateBroadcast(m, h) \notin bad
      /\ \A t : AbortMode(t) \notin bad
      /\ \A m \in bad : m.type # "StateBroadcast"
  BY DEF SInv, ServiceTypeOK, ClientsTypeOK, ClientConnection, NeverPosted, StateBroadcast, AbortMode
<1>2. ASSUME UNCHANGED clients
      PROVE  ServiceFree(bad)'
  BY <1>2 DEF ServiceFree, Connected
<1>3. CASE phase' # phase /\ phase' # "Stable"
  <2>1. PICK order \in SamToApplication : order = RoundOrder' /\ Broadcast(order)
    BY <1>3, RoundOpens
  <2> QED
    BY <1>1, <1>3, <2>1, BroadcastIsFree DEF NeverPosted
<1>4. ASSUME NEW a, NEW wait, Register(a, wait)
      PROVE  ServiceFree(bad)'
  <2>1. Free(<<RegisterAccepted(systemMode, systemHealth')>>, bad)
    BY DEF Free, NeverPosted
  <2> QED
    BY <1>1, <1>4, <2>1 DEF Register, ServiceFree, Connected
<1>5. ASSUME NEW a, NEW c, NEW wait, Disconnect(a, c, wait)
      PROVE  ServiceFree(bad)'
  <2>1. Connected' = Connected \ {a}
          /\ \A b \in Connected \ {a} : clients'[b].outbound =
               Post(clients[b].outbound, StateBroadcast(systemMode, systemHealth'))
    BY <1>1, <1>5 DEF Disconnect, ClientsTypeOK, ClientConnection, Connected
  <2> QED
    BY <1>1, <2>1, FreeOfMore DEF ServiceFree
<1>6. ASSUME NEW a, NEW b, NEW c, NEW wait, NEW h, NEW m,
             HandleHeartbeat(a, c, Heartbeat(b, h, m), wait) \/ RefreshHealth(wait)
      PROVE  ServiceFree(bad)'
  BY <1>1, <1>6, StateBroadcastIsFree DEF HandleHeartbeat, RefreshHealth
<1>7. ASSUME NEW a, NEW b, NEW c, NEW t, HandleModeReady(a, c, ModeReady(b, t)),
             phase' = phase \/ phase' = "Stable"
      PROVE  ServiceFree(bad)'
  BY <1>2, <1>7 DEF HandleModeReady, Modes!ApplicationReady, Modes!AcceptsReady
<1>8. ASSUME NEW a, NEW b, NEW c, NEW t, HandleModeRejected(a, c, ModeRejected(b, t))
      PROVE  ServiceFree(bad)'
  BY <1>1, <1>8, BroadcastIsFree DEF HandleModeRejected
<1>9. ASSUME NEW a, NEW b, NEW c, NEW t, NEW m, NEW wait,
             HandleModeCommitted(a, c, ModeCommitted(b, t, m), wait)
      PROVE  ServiceFree(bad)'
  BY <1>1, <1>2, <1>9, StateBroadcastIsFree DEF HandleModeCommitted
<1>10. ASSUME NEW m, RequestMode(m), phase' = phase \/ phase' = "Stable"
       PROVE  FALSE
  BY <1>10 DEF RequestMode, Modes!RequestTransition, Modes!AcceptsRequest
<1>11. ASSUME NEW a \in App, Take(a)
       PROVE  ServiceFree(bad)'
  <2>1. clients[a].outbound \in Seq(SamToApplication) /\ clients[a].outbound # << >>
          /\ a \in Connected
    BY <1>1, <1>11 DEF Take
  <2>2. /\ Connected' = Connected /\ clients'[a].outbound = Tail(clients[a].outbound)
        /\ \A b \in Connected \ {a} : clients'[b] = clients[b]
    BY <1>1, <1>11, <2>1 DEF Take, ClientsTypeOK, ClientConnection, Connected
  <2>3. Free(Tail(clients[a].outbound), bad)
    BY <2>1, FreeOfRest DEF ServiceFree
  <2> QED
    BY <2>2, <2>3 DEF ServiceFree
<1> QED
  BY <1>2, <1>3, <1>4, <1>5, <1>6, <1>7, <1>8, <1>9, <1>10, <1>11, ServiceSteps DEF Tick, vars

\* Only the last confirmation changes the mode that is announced.
LEMMA ModeIsTargets ==
  ASSUME SInv, [Next]_vars
  PROVE  systemMode' = systemMode \/ (phase = "Committing" /\ phase' = "Stable" /\ systemMode' = target)
<1>1. ASSUME NEW a, NEW b, NEW c, NEW t, NEW m, NEW wait,
             HandleModeCommitted(a, c, ModeCommitted(b, t, m), wait)
      PROVE  systemMode' = systemMode \/ (phase = "Committing" /\ phase' = "Stable" /\ systemMode' = target)
  <2>1. m = target /\ phase = "Committing"
    BY <1>1 DEF HandleModeCommitted, ModeCommitted, Modes!ApplicationCommitted, Modes!AcceptsCommit
  <2> QED
    BY <1>1, <2>1 DEF HandleModeCommitted, ModeCommitted
<1>2. ASSUME NEW a, NEW b, NEW c, NEW wait, NEW t, NEW m, NEW h,
             \/ Register(a, wait) \/ Disconnect(a, c, wait)
             \/ HandleHeartbeat(a, c, Heartbeat(b, h, m), wait)
             \/ HandleModeReady(a, c, ModeReady(b, t))
             \/ HandleModeRejected(a, c, ModeRejected(b, t))
             \/ RequestMode(m) \/ RefreshHealth(wait) \/ Take(a) \/ Tick
      PROVE  UNCHANGED systemMode
  BY <1>2 DEF Register, Disconnect, HandleHeartbeat, HandleModeReady, HandleModeRejected,
              RequestMode, RefreshHealth, Take, Tick
<1>3. CASE UNCHANGED vars
  BY <1>3 DEF vars
<1> QED
  BY <1>1, <1>2, <1>3, ServiceSteps

-----------------------------------------------------------------------------
\* The server

LEMMA ServerKeepsFree ==
  ASSUME VInv, NEW bad, NeverPosted(bad), ServerFree(bad), [ServerNext]_serverVars
  PROVE  ServerFree(bad)'
<1> DEFINE Leftovers == \A r \in Session : Free(leftover'[r], bad)
<1>1. ServiceFree(bad)'
  BY NextIsServices, ServiceKeepsFree DEF VInv, ServerFree
<1>2. /\ leftover \in [Session -> Seq(SamToApplication)]
      /\ \A r \in Session : Free(leftover[r], bad)
      /\ \A b \in Connected : Free(clients[b].outbound, bad)
  BY DEF VInv, LeftoverOK, ServerFree, ServiceFree
<1>3. ASSUME UNCHANGED leftover
      PROVE  Leftovers
  BY <1>2, <1>3
<1>4. ASSUME NEW s \in Session, NEW a, NEW wait, RegisterSession(s, a, wait)
      PROVE  Leftovers
  <2>1. \A r \in Session : IsCurrent(r) /\ identity[r].app = a => a \in Connected
    BY DEF IsCurrent, VerifyConnection
  <2> QED
    BY <1>2, <1>4, <2>1 DEF RegisterSession
<1>5. ASSUME NEW s \in Session, Forward(s)
      PROVE  Leftovers
  <2>1. ASSUME leftover[s] # << >>, leftover' = [leftover EXCEPT ![s] = Tail(@)]
        PROVE  Leftovers
    <3>1. Free(Tail(leftover[s]), bad)
      BY <1>2, <2>1, FreeOfRest
    <3> QED
      BY <1>2, <2>1, <3>1
  <2> QED
    BY <1>3, <1>5, <2>1 DEF Forward
<1>6. ASSUME NEW s \in Session, SessionNext(s)
      PROVE  Leftovers
  <2>1. ASSUME NEW wait,
               Accept(s) \/ EndUnregistered(s) \/ Replaced(s) \/ Break(s)
                 \/ Receive(s, wait) \/ Teardown(s, wait)
        PROVE  UNCHANGED leftover
    BY <2>1 DEF Accept, EndUnregistered, Replaced, Break, Receive, Teardown, sessionVars
  <2> QED
    BY <1>3, <1>4, <1>5, <1>6, <2>1 DEF SessionNext
<1>7. Leftovers
  BY <1>3, <1>6 DEF ServerNext, serverVars, sessionVars
<1> QED
  BY <1>1, <1>7 DEF ServerFree

-----------------------------------------------------------------------------
\* What is on its way to the processes

LEMMA OutgoingIsFree ==
  ASSUME NEW bad, ServerFree(bad), NEW s \in Session
  PROVE  Free(Outgoing(s), bad)
<1>1. IsCurrent(s) => identity[s].app \in Connected
  BY DEF IsCurrent, VerifyConnection
<1> QED
  BY <1>1 DEF Outgoing, ServerFree, ServiceFree

LEMMA DownKeepsFree ==
  ASSUME YInv, NEW bad, ServerFree(bad), DownFree(bad), [SystemNext]_systemVars
  PROVE  DownFree(bad)'
<1>1. down \in [Session -> Seq(SamToApplication)] /\ \A s \in Session : Free(down[s], bad)
  BY DEF YInv, ChannelsTypeOK, DownFree
<1>2. ASSUME UNCHANGED down
      PROVE  DownFree(bad)'
  BY <1>1, <1>2 DEF DownFree
<1>3. ASSUME NEW s \in Session, Sends(s)
      PROVE  DownFree(bad)'
  <2>1. Outgoing(s) \in Seq(SamToApplication) /\ Outgoing(s) # << >>
    BY <1>3, OutgoingType DEF YInv, Sends, Forward, Take, Outgoing
  <2>2. Head(Outgoing(s)) \notin bad
    BY <2>1, OutgoingIsFree, FreeOfRest
  <2>3. Free(Append(down[s], Head(Outgoing(s))), bad)
    BY <1>1, <2>2, FreeOfMore
  <2>4. CASE down' = [down EXCEPT ![s] = Append(@, Head(Outgoing(s)))]
    BY <1>1, <2>3, <2>4 DEF DownFree
  <2> QED
    BY <1>2, <1>3, <2>4 DEF Sends
<1>4. ASSUME NEW s \in Session, SessionStep(s)
      PROVE  DownFree(bad)'
  BY <1>2, <1>3, <1>4 DEF SessionStep, ServerStep, Delivers, Cut, Cuts, Registers, Handles, Refuses,
                          SeesEnd, Ends, Misses, Expires
<1>5. ASSUME NEW s \in Session, down' = [down EXCEPT ![s] = << >>]
      PROVE  DownFree(bad)'
  BY <1>1, <1>5, FreeOfNone DEF DownFree
<1>6. ASSUME NEW s \in Session, down[s] # << >>, down' = [down EXCEPT ![s] = Tail(@)]
      PROVE  DownFree(bad)'
  <2>1. Free(Tail(down[s]), bad)
    BY <1>1, <1>6, FreeOfRest
  <2> QED
    BY <1>1, <1>6, <2>1 DEF DownFree
<1>7. ASSUME NEW a, NEW process, Becomes(a, process)
      PROVE  DownFree(bad)'
  BY <1>1, <1>7, FreeOfNone DEF Becomes, DownFree
<1>8. ASSUME NEW a \in App, NEW s \in Session, ProcessStep(a, s)
      PROVE  DownFree(bad)'
  <2>1. CASE ReceivesRegistration(a, s) \/ Answers(a, s)
    BY <1>6, <1>7, <2>1 DEF ReceivesRegistration, Synchronize, Answers
  <2>2. CASE RegistrationEnds(a, s) \/ SessionEnds(a, s) \/ ReaderEnds(a, s) \/ TimesOut(a, s)
    BY <1>5, <2>2 DEF RegistrationEnds, SessionEnds, ReaderEnds, TimesOut, LetGo
  <2>3. CASE Connect(a, s) \/ Beats(a, s)
    BY <1>2, <2>3 DEF Connect, Beats
  <2> QED
    BY <1>8, <2>1, <2>2, <2>3 DEF ProcessStep, ClientStep
<1>9. ASSUME NEW a \in App, EndsProcess(a)
      PROVE  DownFree(bad)'
  BY <1>7, <1>9 DEF EndsProcess, Crash, Launch
<1> QED
  BY <1>2, <1>4, <1>8, <1>9, SystemSteps DEF Monitor, Command, systemVars, clientVars

-----------------------------------------------------------------------------
\* The modes of the processes

\* A process takes a mode from a message, or starts over.
LEMMA ModesAreAgreed ==
  ASSUME YInv, NEW modes, "Startup" \in modes, \A a \in App : runtime[a].mode \in modes,
         DownFree(Unagreed(modes)), [SystemNext]_systemVars
  PROVE  \A a \in App : runtime'[a].mode \in modes
<1> DEFINE Modest == \A b \in App : runtime'[b].mode \in modes
<1>1. runtime \in [App -> Process] /\ down \in [Session -> Seq(SamToApplication)]
  BY DEF YInv, ChannelsTypeOK
<1>2. ASSUME UNCHANGED runtime
      PROVE  Modest
  BY <1>2
<1>3. ASSUME NEW a \in App, NEW m \in modes, NEW h, Runs(a, m, h)
      PROVE  Modest
  BY <1>1, <1>3 DEF Runs, Process
<1>4. ASSUME NEW a \in App, NEW place, MoveTo(a, place)
      PROVE  Modest
  BY <1>1, <1>4 DEF MoveTo, Process
<1>5. ASSUME NEW a \in App, NEW h, Becomes(a, NotStarted) \/ Becomes(a, Started(h))
      PROVE  Modest
  <2>1. NotStarted.mode = "Startup" /\ Started(h).mode = "Startup"
    BY DEF NotStarted, Started
  <2> QED
    BY <1>1, <1>5, <2>1 DEF Becomes
<1>6. ASSUME NEW s \in Session, down[s] # << >>, Head(down[s]).type \in {"RegisterAccepted", "CommitMode"}
      PROVE  Head(down[s]).mode \in modes
  <2>1. Head(down[s]) \notin Unagreed(modes) /\ Head(down[s]) \in SamToApplication
    BY <1>1, <1>6, FreeOfRest, QueueRest DEF DownFree
  <2> QED
    BY <1>6, <2>1 DEF Unagreed
<1>7. ASSUME NEW a \in App, NEW s \in Session, ProcessStep(a, s)
      PROVE  Modest
  <2>1. CASE Connect(a, s)
    BY <1>1, <2>1 DEF Connect, Process
  <2>6. CASE Beats(a, s)
    BY <1>1, <2>6 DEF Beats, Process
  <2>2. CASE ReceivesRegistration(a, s)
    BY <1>3, <1>5, <1>6, <2>2 DEF ReceivesRegistration, Synchronize
  <2>3. CASE RegistrationEnds(a, s) \/ SessionEnds(a, s) \/ ReaderEnds(a, s) \/ TimesOut(a, s)
    BY <1>2, <1>4, <2>3 DEF RegistrationEnds, SessionEnds, ReaderEnds, TimesOut
  <2>4. CASE Answers(a, s) /\ Prepare(a, s, Head(down[s]))
    BY <1>1, <2>4 DEF Prepare, Process
  <2>5. CASE Answers(a, s) /\ Commit(a, s, Head(down[s]))
    BY <1>3, <1>4, <1>6, <2>5 DEF Answers, Commit
  <2> QED
    BY <1>7, <2>1, <2>2, <2>3, <2>4, <2>5, <2>6 DEF ProcessStep, ClientStep, Answers
<1>8. ASSUME NEW a \in App, EndsProcess(a)
      PROVE  Modest
  BY <1>5, <1>8 DEF EndsProcess, Crash, Launch
<1>9. ASSUME NEW s \in Session, SessionStep(s)
      PROVE  Modest
  BY <1>2, <1>9 DEF SessionStep, ServerStep, Expires, Cut
<1> QED
  BY <1>2, <1>7, <1>8, <1>9, SystemSteps DEF Monitor, Command, systemVars, clientVars

-----------------------------------------------------------------------------
\* The process as a whole

LEMMA StepIsSystems == [ExecutableNext]_allVars => [SystemNext]_systemVars
<1> SUFFICES ASSUME [ExecutableNext]_allVars PROVE [SystemNext]_systemVars
  OBVIOUS
<1>1. CASE UNCHANGED allVars
  BY <1>1 DEF allVars
<1>2. CASE Alone(SystemStep)
  BY <1>2 DEF Alone, While, SystemNext
<1>3. ASSUME NEW m, Command(m)
      PROVE  SystemNext
  BY <1>3, BoundAssumption DEF Command, SystemNext
<1>4. CASE DriverStep
  BY <1>3, <1>4 DEF DriverStep, Poll, GiveUp, Skip, Check, Issue, Verify
<1>5. CASE Operate
  BY <1>3, <1>5 DEF Operate
<1>6. ASSUME \/ Crash(Telemetry)
             \/ \E s \in Session : TimesOut(Telemetry, s) \/ Expires(s) \/ Cut(s)
             \/ \E h \in Policy : Launch(Telemetry, h)
      PROVE  SystemNext
  BY <1>6, ExecutableAssumption DEF Trouble, SystemNext
<1>7. CASE Fail \/ ComeBack \/ PowerOff \/ PowerOn \/ LoseFrame
  <2>1. "rejectsOnce" \in Policy /\ Handler \subseteq Policy
    BY ExecutableAssumption DEF Policy
  <2> QED
    BY <1>6, <1>7, <2>1 DEF Fail, ComeBack, PowerOff, PowerOn, LoseFrame
<1> QED
  BY <1>1, <1>2, <1>4, <1>5, <1>7 DEF ExecutableNext, While

\* What is decided stays so, and a commit is for what is decided.
LEMMA StepRemembers ==
  EInv /\ [ExecutableNext]_allVars =>
    /\ decided \subseteq decided'
    /\ phase' = "Committing" => target' \in decided'
<1> SUFFICES ASSUME EInv, [ExecutableNext]_allVars
             PROVE  /\ decided \subseteq decided'
                    /\ phase' = "Committing" => target' \in decided'
  OBVIOUS
<1>1. CASE UNCHANGED allVars
  <2>1. UNCHANGED <<phase, target, decided>>
    BY <1>1 DEF allVars, systemVars, serverVars, vars, modeVars, historyVars
  <2> QED
    BY <2>1 DEF EInv
<1>2. CASE Remember
  BY <1>2 DEF Remember
<1> QED
  BY <1>1, <1>2 DEF ExecutableNext, Alone, While

LEMMA InitEInv == ExecutableInit => EInv
<1> SUFFICES ASSUME ExecutableInit PROVE EInv
  OBVIOUS
<1>1. YInv /\ decided = {"Startup"}
  BY InitYInv DEF ExecutableInit
<1>2. systemMode = "Startup" /\ phase = "Stable" /\ Connected = {}
        /\ leftover = [s \in Session |-> << >>] /\ down = [s \in Session |-> << >>]
        /\ runtime \in [App -> {Started(h) : h \in Policy}]
  BY DEF ExecutableInit, SystemInit, ServerInit, Init, Modes!New, Connected
<1>3. \A a \in App : runtime[a].mode = "Startup"
  BY <1>2 DEF Started
<1> QED
  BY <1>1, <1>2, <1>3, FreeOfNone DEF EInv, ServerFree, ServiceFree, DownFree

LEMMA NextKeepsEInv == EInv /\ [ExecutableNext]_allVars => EInv'
<1> SUFFICES ASSUME EInv, [ExecutableNext]_allVars PROVE EInv'
  OBVIOUS
<1>1. decided \subseteq decided' /\ (phase' = "Committing" => target' \in decided')
  BY StepRemembers
<1>2. [SystemNext]_systemVars /\ YInv /\ VInv /\ SInv /\ [ServerNext]_serverVars /\ [Next]_vars
  BY StepIsSystems, NextIsServers, NextIsServices DEF EInv, YInv, VInv
<1>3. YInv'
  BY <1>2, NextKeepsYInv
<1>4. ASSUME NEW modes, modes = decided'
      PROVE  /\ \A a \in App : runtime'[a].mode \in modes
             /\ ServerFree(Unagreed(modes))' /\ DownFree(Unagreed(modes))'
  <2>1. Unagreed(modes) \subseteq Unagreed(decided)
    BY <1>1, <1>4 DEF Unagreed
  <2>2. ServerFree(Unagreed(modes)) /\ DownFree(Unagreed(modes))
    BY <2>1, FreeOfFewer DEF EInv
  <2>3. NeverPosted(Unagreed(modes))
    <3>1. \A h : RegisterAccepted(systemMode, h) \notin Unagreed(modes)
      BY <1>1, <1>4 DEF EInv, Unagreed, RegisterAccepted
    <3>2. phase' # phase /\ phase' # "Stable" => RoundOrder' \notin Unagreed(modes)
      <4>1. phase' # "Stable" => phase' \in {"Preparing", "Committing"}
        <5>1. SInv'
          BY <1>3 DEF YInv, VInv
        <5> QED
          BY <5>1, SameSets DEF SInv, Manager!IInv, Manager!TypeOK
      <4> QED
        BY <1>1, <1>4, <4>1 DEF RoundOrder, Unagreed, PrepareMode, CommitMode
    <3> QED
      BY <3>1, <3>2 DEF NeverPosted, Unagreed
  <2>4. "Startup" \in modes /\ \A a \in App : runtime[a].mode \in modes
    BY <1>1, <1>4 DEF EInv
  <2>5. \A a \in App : runtime'[a].mode \in modes
    BY <1>2, <2>2, <2>4, ModesAreAgreed
  <2>6. ServerFree(Unagreed(modes))' /\ DownFree(Unagreed(modes))'
    BY <1>2, <2>2, <2>3, ServerKeepsFree, DownKeepsFree
  <2> QED
    BY <2>5, <2>6
<1>5. /\ \A a \in App : runtime'[a].mode \in decided'
      /\ (ServerFree(Unagreed(decided)) /\ DownFree(Unagreed(decided)))'
  BY <1>4
<1>6. systemMode' \in decided' /\ "Startup" \in decided'
  BY <1>1, <1>2, ModeIsTargets DEF EInv
<1> QED
  BY <1>1, <1>3, <1>5, <1>6 DEF EInv

\* The process around the server, its scripts and its operator use the system
\* as SamSystem allows it: what is proved of the system holds here.
THEOREM ExecutableIsSystem == ExecutableSpec => SystemSpec
<1>1. ExecutableInit => SystemInit
  BY DEF ExecutableInit
<1> QED
  BY <1>1, StepIsSystems, PTL DEF ExecutableSpec, SystemSpec

\* DEMO_GUIDE.md:45, "No application changes mode merely because it received a
\* request": whatever crashes, times out, reconnects or fails to commit, no
\* process is ever in a mode for which SAM had not every participant's consent.
THEOREM Unanimous == ExecutableSpec => []UnanimousOrNobody
<1>1. EInv => UnanimousOrNobody
  BY DEF EInv, UnanimousOrNobody
<1> QED
  BY <1>1, InitEInv, NextKeepsEInv, PTL DEF ExecutableSpec

\* What the console shows of a process in a live session is what the process
\* is, as soon as its heartbeat has been handled, whatever earlier sessions of
\* it left on their connections.
THEOREM RecordsAreTrue == ExecutableSpec => []RecordIsTrue
<1>1. RecordComes => RecordIsTrue
  <2>1. Len(<< >>) = 0
    OBVIOUS
  <2> QED
    BY <2>1 DEF RecordComes, LastSaid, OutOfStep, RecordIsTrue
<1> QED
  BY <1>1, ExecutableIsSystem, AlwaysRecordComes, PTL

-----------------------------------------------------------------------------
\* The round's message, and its answer

IsAnswer(message) ==
  IF phase = "Preparing"
    THEN message.type \in {"ModeReady", "ModeRejected"} /\ message.id = transitionId
    ELSE message.type = "ModeCommitted" /\ message.id = transitionId /\ message.mode = target

Within(message, queue) == \E i \in 1 .. Len(queue) : queue[i] = message

Coming(s) ==
  \/ Within(RoundOrder, Outgoing(s))
  \/ Within(RoundOrder, down[s])
  \/ \E answer \in ApplicationToSam : IsAnswer(answer) /\ Within(answer, up[s])

\* Whoever was asked in its present session has the order or the answer on its
\* connection, unless SAM lost a frame of it.  Nobody was asked on a connection that is not there yet.
AnswersCome ==
  /\ asked \in [App -> Nat]
  /\ \A a \in App : asked[a] < nextConnectionId
  /\ \A a \in waitingFor, s \in Session :
       /\ phase # "Stable" /\ stage[s] = "registered" /\ IsCurrent(s)
       /\ InSession(a, s) /\ asked[a] = identity[s].id
       => Coming(s) \/ OutOfStep(s)

LEMMA WithinMore ==
  ASSUME NEW S, NEW queue \in Seq(S), NEW x, NEW message
  PROVE  /\ Within(x, queue) => Within(x, Append(queue, message))
         /\ Within(message, Append(queue, message))
<1>1. /\ Len(Append(queue, message)) = Len(queue) + 1
      /\ \A i \in 1 .. Len(queue) : Append(queue, message)[i] = queue[i]
      /\ Append(queue, message)[Len(queue) + 1] = message
      /\ Len(queue) \in Nat
  OBVIOUS
<1> QED
  BY <1>1 DEF Within

LEMMA WithinRest ==
  ASSUME NEW S, NEW queue \in Seq(S), NEW x, Within(x, queue)
  PROVE  queue # << >> /\ (x = Head(queue) \/ Within(x, Tail(queue)))
<1>1. PICK i \in 1 .. Len(queue) : queue[i] = x
  BY DEF Within
<1>2. queue # << >> /\ Head(queue) = queue[1] /\ Len(queue) \in Nat
  BY <1>1
<1>3. CASE i = 1
  BY <1>1, <1>2, <1>3
<1>4. CASE i # 1
  <2>1. i - 1 \in 1 .. Len(queue) - 1 /\ Len(Tail(queue)) = Len(queue) - 1
          /\ Tail(queue)[i - 1] = queue[i]
    BY <1>1, <1>2, <1>4
  <2> QED
    BY <1>1, <1>2, <2>1 DEF Within
<1> QED
  BY <1>3, <1>4

LEMMA WithinExtended ==
  ASSUME NEW longer, NEW queue, Len(longer) \in Nat, Len(queue) \in Nat,
         Extends(longer, queue), NEW x, Within(x, queue)
  PROVE  Within(x, longer)
BY DEF Extends, Within

\* Those who are told, and on which connection.
LEMMA RoundReaches ==
  ASSUME VInv, NEW order \in SamToApplication, Broadcast(order), NEW a \in Connected,
         clients'[a] # clients[a]
  PROVE  a \in Connected' /\ clients'[a].id = clients[a].id /\ Within(order, clients'[a].outbound)
<1>1. clients \in [Connected -> ClientConnection] /\ clients[a].outbound \in Seq(SamToApplication)
  BY DEF VInv, SInv, ServiceTypeOK, ClientsTypeOK, ClientConnection
<1>2. a \in Connected' /\ clients'[a] = [clients[a] EXCEPT !.outbound = Post(@, order)]
  BY DEF Broadcast, Connected
<1>3. clients'[a].id = clients[a].id /\ clients'[a].outbound = Post(clients[a].outbound, order)
  BY <1>1, <1>2 DEF ClientConnection
<1>4. Post(clients[a].outbound, order) # clients[a].outbound
  BY <1>1, <1>2, <1>3 DEF ClientConnection
<1>5. clients'[a].outbound = Append(clients[a].outbound, order)
  BY <1>3, <1>4 DEF Post
<1> QED
  BY <1>1, <1>2, <1>3, <1>5, WithinMore

LEMMA IdsAreOld ==
  ASSUME VInv
  PROVE  /\ \A b \in Connected : clients[b].id \in Nat /\ clients[b].id < nextConnectionId
         /\ nextConnectionId \in Nat \ {0}
         /\ \A s \in Registered : identity[s].id \in Nat \ {0} /\ identity[s].id < nextConnectionId
<1>1. nextConnectionId \in Nat \ {0}
  BY BoundAssumption DEF VInv, SInv, ServiceTypeOK
<1>2. \A s \in Registered : identity[s].id \in Nat \ {0} /\ identity[s].id < nextConnectionId
  BY BoundAssumption DEF VInv, SessionsTypeOK, IdsAreUnique, ConnectionId
<1>3. ASSUME NEW b \in Connected
      PROVE  \E s \in Registered : identity[s].id = clients[b].id
  <2>1. PICK s \in Session : stage[s] \in {"registered", "closing"} /\ identity[s].id = clients[b].id
    BY DEF VInv, ConnectionsHaveSessions
  <2>2. s \in Registered
    BY <2>1, SessionIsRegistered
  <2> QED
    BY <2>1, <2>2
<1> QED
  BY <1>1, <1>2, <1>3

LEMMA IdsGoUp ==
  ASSUME SInv, [Next]_vars
  PROVE  nextConnectionId' \in {nextConnectionId, nextConnectionId + 1}
<1>1. ASSUME NEW a, NEW wait, Register(a, wait)
      PROVE  nextConnectionId' = nextConnectionId + 1
  BY <1>1 DEF Register
<1>2. ASSUME NEW a, NEW c, NEW wait, Disconnect(a, c, wait)
      PROVE  UNCHANGED nextConnectionId
  BY <1>2 DEF Disconnect
<1> QED
  BY <1>1, <1>2, ServiceSteps, CallsKeepIds, TakeAndTickKeepIds

LEMMA AskedFollows ==
  ASSUME [ExecutableNext]_allVars
  PROVE  asked' = IF phase' = phase THEN asked
                  ELSE IF phase' = "Stable" THEN [a \in App |-> 0]
                  ELSE NewRound
<1>1. CASE UNCHANGED allVars
  BY <1>1 DEF allVars, systemVars, serverVars, vars, modeVars, historyVars
<1>2. CASE Remember
  BY <1>2 DEF Remember
<1> QED
  BY <1>1, <1>2 DEF ExecutableNext, Alone, While

LEMMA AskedStaysOld ==
  ASSUME VInv, AnswersCome, [Next]_vars, [ExecutableNext]_allVars
  PROVE  asked' \in [App -> Nat] /\ \A a \in App : asked'[a] < nextConnectionId'
<1>0. /\ nextConnectionId \in Nat \ {0}
      /\ \A b \in Connected : clients[b].id \in Nat /\ clients[b].id < nextConnectionId
  BY IdsAreOld
<1>6. nextConnectionId \in Nat
  BY <1>0
<1>7. nextConnectionId' = nextConnectionId \/ nextConnectionId' = nextConnectionId + 1
  BY IdsGoUp DEF VInv
<1>1. /\ nextConnectionId' \in Nat \ {0} /\ nextConnectionId <= nextConnectionId'
      /\ \A b \in Connected : clients[b].id \in Nat /\ clients[b].id < nextConnectionId
      /\ nextConnectionId \in Nat
  BY <1>0, <1>7
<1>2. CASE asked' = asked
  <2>1. asked \in [App -> Nat] /\ \A a \in App : asked[a] < nextConnectionId
    BY DEF AnswersCome
  <2>2. ASSUME NEW a \in App
        PROVE  asked[a] < nextConnectionId'
    <3>1. asked[a] \in Nat /\ asked[a] < nextConnectionId
      BY <2>1
    <3> QED
      BY <3>1, <1>6, <1>7
  <2> QED
    BY <1>2, <2>1, <2>2
<1>3. CASE asked' = [a \in App |-> 0]
  BY <1>1, <1>3
<1>4. CASE asked' = NewRound
  BY <1>1, <1>4 DEF NewRound
<1> QED
  BY <1>2, <1>3, <1>4, AskedFollows

-----------------------------------------------------------------------------
\* A round that goes on keeps the message or the answer on its way.

\* The session's task takes the answer off the connection only to record it.
LEMMA HandledAnswerCounts ==
  ASSUME YInv, NEW a \in waitingFor, NEW s \in Session, identity[s].app = a,
         phase # "Stable", Handles(s), IsAnswer(Head(up[s])),
         phase' = phase
  PROVE  a \notin waitingFor'
<1> DEFINE message == Head(up[s])
<1>1. /\ HandleMessage(a, identity[s].id, message)
      /\ message.type \in {"ModeReady", "ModeRejected", "ModeCommitted"}
      /\ phase \in {"Preparing", "Committing"} /\ target # mode
  BY SameSets DEF Handles, IsAnswer, YInv, VInv, SInv, Manager!IInv, Manager!TypeOK,
                  Manager!TransitionWellFormed
<1>2. CASE phase = "Preparing" /\ message.type = "ModeReady"
  <2>1. Accepts(a, message)
    BY <1>2 DEF Accepts, IsAnswer, Modes!AcceptsReady
  <2>2. Modes!ApplicationReady(a, message.id)
    BY <1>1, <1>2, <2>1 DEF HandleMessage, IsLate, HandleModeReady
  <2> QED
    BY <1>2, <2>2 DEF Modes!ApplicationReady
<1>3. CASE phase = "Preparing" /\ message.type = "ModeRejected"
  <2>1. Accepts(a, message)
    BY <1>3 DEF Accepts, IsAnswer, Modes!AcceptsRejection
  <2>2. Modes!ApplicationRejected(a, message.id)
    BY <1>1, <1>3, <2>1 DEF HandleMessage, IsLate, HandleModeRejected
  <2> QED
    BY <1>3, <2>2 DEF Modes!ApplicationRejected, Modes!Settle
<1>4. CASE phase = "Committing" /\ message.type = "ModeCommitted"
  <2>1. Accepts(a, message)
    BY <1>4 DEF Accepts, IsAnswer, Modes!AcceptsCommit
  <2>2. Modes!ApplicationCommitted(a, message.id, message.mode)
    BY <1>1, <1>4, <2>1 DEF HandleMessage, IsLate, HandleModeCommitted
  <2> QED
    BY <1>4, <2>2 DEF Modes!ApplicationCommitted, Modes!Settle
<1> QED
  BY <1>1, <1>2, <1>3, <1>4 DEF IsAnswer

\* The process takes the order off the connection only to answer it.
LEMMA OrderIsAnswered ==
  ASSUME YInv, NEW a \in App, NEW s \in Session, stage[s] = "registered",
         phase \in {"Preparing", "Committing"},
         ~OutOfStep(s), Replies(a, s), Head(down[s]) = RoundOrder
  PROVE  \E answer \in ApplicationToSam : IsAnswer(answer) /\ Within(answer, up'[s])
<1> DEFINE message == Head(down[s])
<1>1. /\ up \in [Session -> Seq(ApplicationToSam)] /\ up[s] \in Seq(ApplicationToSam)
      /\ down[s] # << >> /\ down[s] \in Seq(SamToApplication) /\ message \in SamToApplication
      /\ ~Deaf(s)
  BY QueueRest DEF YInv, ChannelsTypeOK, Replies, Answers, Deaf
<1>2. ASSUME NEW answer \in ApplicationToSam, IsAnswer(answer), Write(s, answer)
      PROVE  \E x \in ApplicationToSam : IsAnswer(x) /\ Within(x, up'[s])
  <2>1. up'[s] = Append(up[s], answer)
    BY <1>1, <1>2 DEF Write
  <2> QED
    BY <1>1, <1>2, <2>1, WithinMore
<1>3. CASE phase = "Preparing"
  <2>1. message.type = "PrepareMode" /\ message.id = transitionId
    BY <1>3 DEF RoundOrder, PrepareMode
  <2>2. message.id \in TransitionId
    BY <1>1, <2>1, OrderParts
  <2>3. Write(s, ModeReady(a, message.id)) \/ Write(s, ModeRejected(a, message.id))
    BY <2>1 DEF Replies, Prepare, Commits
  <2>4. IsAnswer(ModeReady(a, message.id)) /\ IsAnswer(ModeRejected(a, message.id))
    BY <1>3, <2>1 DEF IsAnswer, ModeReady, ModeRejected
  <2> QED
    BY <1>2, <2>2, <2>3, <2>4, ApplicationMessages
<1>4. CASE phase = "Committing"
  <2>1. message.type = "CommitMode" /\ message.id = transitionId /\ message.mode = target
    BY <1>4 DEF RoundOrder, CommitMode
  <2>2. message.id \in TransitionId /\ message.mode \in SystemMode
    BY <1>1, <2>1, OrderParts
  <2>3. Write(s, ModeCommitted(a, message.id, message.mode))
    BY <2>1 DEF Replies, Prepare, Commits
  <2>4. IsAnswer(ModeCommitted(a, message.id, message.mode))
    BY <1>4, <2>1 DEF IsAnswer, ModeCommitted
  <2> QED
    BY <1>2, <2>2, <2>3, <2>4, ApplicationMessages
<1> QED
  BY <1>3, <1>4

\* A session that lost a frame does not find its step again.
LEMMA OutOfStepStays ==
  ASSUME CInv, [SystemNext]_systemVars, NEW a \in App, NEW s \in Session,
         stage[s] = "registered", stage'[s] = "registered",
         InSession(a, s), InSession(a, s)', OutOfStep(s)
  PROVE  OutOfStep(s)'
<1>1. YInv /\ EndsOK /\ OneProcess /\ ChannelsTypeOK /\ Deaf(s)
  BY DEF CInv, YInv, Deaf
<1>2. CASE SessionStep(s)
  <2>1. ~Registers(s) /\ ~Cuts(s) /\ ~Handles(s)
    BY DEF Registers, RegisterSession, Move, Cuts, Handles, IsError, OutOfStep
  <2>2. UNCHANGED up
    BY <1>1, <1>2, <2>1, SessionStepOwn DEF Delivers
  <2> QED
    BY <2>2 DEF OutOfStep
<1>3. CASE /\ Starts(a, s) \/ Beats(a, s) \/ Replies(a, s)
           /\ UNCHANGED <<vars, sessionVars, holder>>
  <2>1. UNCHANGED up
    BY <1>1, <1>3 DEF Starts, ReceivesRegistration, Beats, Replies, Prepare, Commits, Write
  <2> QED
    BY <2>1 DEF OutOfStep
<1> QED
  BY <1>1, <1>2, <1>3, SessionGoesOn DEF SameLines, OutOfStep

\* The whole way: SAM's queue, the connection, the process, and back.
LEMMA StaysOnItsWay ==
  ASSUME CInv, [SystemNext]_systemVars, phase # "Stable", phase' = phase,
         NEW a \in waitingFor, a \in waitingFor', a \in App, NEW s \in Session,
         stage[s] = "registered", stage'[s] = "registered",
         InSession(a, s), InSession(a, s)', Coming(s), ~OutOfStep(s)
  PROVE  Coming(s)' \/ OutOfStep(s)'
<1>1. /\ YInv /\ EndsOK /\ OneProcess /\ ChannelsTypeOK /\ VInv /\ SInv
      /\ [Next]_vars /\ YInv' /\ VInv' /\ ChannelsTypeOK'
  <2>1. YInv'
    BY NextKeepsYInv DEF CInv
  <2> QED
    BY <2>1, NextIsServers, NextIsServices DEF CInv, YInv, VInv
<1>2. UNCHANGED <<target, transitionId>> /\ phase \in {"Preparing", "Committing"}
        /\ s \in Registered /\ identity[s].app = a
  BY <1>1, RoundGoesOn, SameSets
     DEF SInv, Manager!IInv, Manager!TypeOK, VInv, SessionsTypeOK, OneProcess
<1>3. /\ RoundOrder' = RoundOrder
      /\ \A x \in ApplicationToSam : IsAnswer(x)' <=> IsAnswer(x)
      /\ RoundOrder.type \in {"PrepareMode", "CommitMode"}
  BY <1>2 DEF RoundOrder, IsAnswer, PrepareMode, CommitMode
<1>4. /\ Outgoing(s) \in Seq(SamToApplication) /\ Outgoing(s)' \in Seq(SamToApplication)
      /\ down[s] \in Seq(SamToApplication) /\ up[s] \in Seq(ApplicationToSam)
  BY <1>1, OutgoingType, NextOutgoingType DEF ChannelsTypeOK
<1>5. ASSUME Extends(Outgoing(s)', Outgoing(s)), Within(RoundOrder, Outgoing(s))
      PROVE  Within(RoundOrder, Outgoing(s)')
  <2>1. Len(Outgoing(s)) \in Nat /\ Len(Outgoing(s)') \in Nat
    BY <1>4
  <2> QED
    BY <1>5, <2>1, WithinExtended
<1>6. CASE SessionStep(s)
  <2>1. ~Registers(s)
    BY <1>1, <1>2 DEF Registers, RegisterSession, Move
  <2>5. CASE Cuts(s)
    BY <1>1, <2>5, CutLeaves
  <2>2. Delivers(s) \/ Cuts(s) \/ Handles(s)
    BY <1>1, <1>6, <2>1, SessionStepOwn
  <2>3. CASE Delivers(s)
    <3>1. Outgoing(s) # << >> /\ Outgoing(s)' = Tail(Outgoing(s)) /\ up'[s] = up[s]
      BY <1>1, <2>3, ForwardTakes DEF Delivers, Sends
    <3>2. \/ down'[s] = down[s] /\ Head(Outgoing(s)).type \in {"StateBroadcast", "AbortMode"}
          \/ down'[s] = Append(down[s], Head(Outgoing(s)))
      BY <1>1, <2>3 DEF Delivers, Sends, ChannelsTypeOK
    <3>3. CASE Within(RoundOrder, Outgoing(s))
      <4>1. Within(RoundOrder, Outgoing(s)') \/ RoundOrder = Head(Outgoing(s))
        BY <1>4, <3>1, <3>3, WithinRest
      <4>2. RoundOrder = Head(Outgoing(s)) => Within(RoundOrder, down'[s])
        BY <1>3, <1>4, <3>2, WithinMore
      <4> QED
        BY <1>3, <4>1, <4>2 DEF Coming
    <3>4. CASE Within(RoundOrder, down[s])
      <4>1. Within(RoundOrder, down'[s])
        BY <1>4, <3>2, <3>4, WithinMore
      <4> QED
        BY <1>3, <4>1 DEF Coming
    <3> QED
      BY <1>3, <3>1, <3>3, <3>4 DEF Coming
  <2>4. CASE Handles(s)
    <3>1. up[s] # << >> /\ up'[s] = Tail(up[s]) /\ down'[s] = down[s]
      BY <1>1, <2>4 DEF Handles, Drained, ChannelsTypeOK
    <3>2. Extends(Outgoing(s)', Outgoing(s))
      <4>1. Receive(s, 0) \/ UNCHANGED serverVars
        BY <1>1, <2>4, HandlesIsServers
      <4>2. 0 \in LockWait
        BY TimeAssumption DEF LockWait
      <4> QED
        BY <1>1, <4>1, <4>2, OutgoingLasts DEF serverVars, sessionVars
    <3>3. ASSUME NEW x \in ApplicationToSam, IsAnswer(x), Within(x, up[s])
          PROVE  Within(x, up'[s])
      <4>1. x # Head(up[s])
        BY <1>1, <1>2, <2>4, <3>3, HandledAnswerCounts
      <4> QED
        BY <1>4, <3>1, <3>3, <4>1, WithinRest
    <3> QED
      BY <1>3, <1>5, <3>1, <3>2, <3>3 DEF Coming
  <2> QED
    BY <2>2, <2>3, <2>4, <2>5
<1>7. CASE /\ Starts(a, s) \/ Beats(a, s) \/ Replies(a, s)
           /\ UNCHANGED <<vars, sessionVars, holder>>
  <2>1. Outgoing(s)' = Outgoing(s)
    BY <1>7 DEF vars, sessionVars, Outgoing, IsCurrent, VerifyConnection, Registered, Connected
  <2>2. up'[s] = up[s] \/ \E message : up'[s] = Append(up[s], message)
    BY <1>1, <1>7, <2>1
       DEF Starts, ReceivesRegistration, Beats, Replies, Answers, Prepare, Commits, Write, ChannelsTypeOK
  <2>3. \A x : Within(x, up[s]) => Within(x, up'[s])
    BY <1>4, <2>2, WithinMore
  <2>4. ASSUME Within(RoundOrder, down[s])
        PROVE  Coming(s)'
    <3>1. CASE Beats(a, s)
      BY <1>3, <2>4, <3>1 DEF Beats, Coming
    <3>2. CASE Starts(a, s) \/ Replies(a, s)
      <4>1. down[s] # << >> /\ down'[s] = Tail(down[s])
        BY <1>1, <3>2 DEF Starts, ReceivesRegistration, Replies, Answers, ChannelsTypeOK
      <4>2. Starts(a, s) => Head(down[s]) # RoundOrder
        BY <1>3 DEF Starts, ReceivesRegistration
      <4>3. CASE Head(down[s]) = RoundOrder
        <5>1. \E x \in ApplicationToSam : IsAnswer(x) /\ Within(x, up'[s])
          BY <1>1, <1>2, <3>2, <4>2, <4>3, OrderIsAnswered
        <5> QED
          BY <1>3, <5>1 DEF Coming
      <4>4. CASE Head(down[s]) # RoundOrder
        <5>1. Within(RoundOrder, down'[s])
          BY <1>4, <2>4, <4>1, <4>4, WithinRest
        <5> QED
          BY <1>3, <5>1 DEF Coming
      <4> QED
        BY <4>3, <4>4
    <3> QED
      BY <1>7, <3>1, <3>2
  <2> QED
    BY <1>3, <2>1, <2>3, <2>4 DEF Coming
<1>8. CASE /\ runtime'[a] = runtime[a] /\ holder'[s] = holder[s]
           /\ SameSession(s) /\ SameLines(s) /\ Elsewhere(s)
  <2>1. Extends(Outgoing(s)', Outgoing(s))
    BY <1>1, <1>8, ElsewhereExtends
  <2> QED
    BY <1>3, <1>5, <1>8, <2>1 DEF Coming, SameLines
<1> QED
  BY <1>1, <1>6, <1>7, <1>8, SessionGoesOn

LEMMA NextKeepsAnswers ==
  ASSUME CInv, AnswersCome, [ExecutableNext]_allVars
  PROVE  AnswersCome'
<1>1. /\ [SystemNext]_systemVars /\ [Next]_vars
      /\ YInv /\ EndsOK /\ OneProcess /\ ChannelsTypeOK /\ VInv /\ SInv
      /\ YInv' /\ VInv' /\ OneProcess'
  <2>1. [SystemNext]_systemVars
    BY StepIsSystems
  <2>2. CInv'
    BY <2>1, NextKeepsCInv
  <2> QED
    BY <2>1, <2>2, NextIsServers, NextIsServices DEF CInv, YInv, VInv
<1>2. asked' \in [App -> Nat] /\ \A a \in App : asked'[a] < nextConnectionId'
  BY <1>1, AskedStaysOld
<1>3. ASSUME NEW a \in waitingFor', NEW s \in Session, phase' # "Stable",
             stage'[s] = "registered", IsCurrent(s)', InSession(a, s)',
             asked'[a] = identity'[s].id
      PROVE  Coming(s)' \/ OutOfStep(s)'
  <2>1. a \in App
    <3>1. SInv'
      BY <1>1 DEF VInv
    <3> QED
      BY <3>1, SameSets DEF SInv, Manager!IInv, Manager!TypeOK
  <2>2. s \in Registered' /\ identity'[s].app = a /\ a \in Connected'
          /\ clients'[a].id = identity'[s].id
    BY <1>1, <1>3, <2>1 DEF IsCurrent, VerifyConnection, OneProcess
  <2>3. CASE phase' = phase
    <3>1. asked' = asked /\ waitingFor' \subseteq waitingFor
      BY <1>1, <1>3, <2>3, AskedFollows, RoundGoesOn
    <3>2. stage[s] = "registered" /\ SameSession(s)
      <4>1. InSession(a, s)
        <5>1. ASSUME Connect(a, s)
              PROVE  FALSE
          BY <1>1, <1>3, <5>1, MoveIsOwn DEF Connect, Accept
        <5> QED
          BY <1>1, <1>3, <2>1, <5>1, SessionBegins
      <4>2. ~Registers(s)
        <5>1. Registers(s) => identity'[s].id = nextConnectionId
          <6>1. ASSUME Registers(s)
                PROVE  identity'[s] = [app |-> a, id |-> nextConnectionId]
            BY <1>1, <2>1, <4>1, <6>1, RegistersOwn
          <6>2. [app |-> a, id |-> nextConnectionId].id = nextConnectionId
            OBVIOUS
          <6> QED
            BY <6>1, <6>2
        <5>2. nextConnectionId \in Nat
          BY <1>1 DEF SInv, ServiceTypeOK
        <5>3. asked[a] \in Nat /\ asked[a] < nextConnectionId
          BY <2>1 DEF AnswersCome
        <5>4. asked[a] # nextConnectionId
          BY <5>2, <5>3
        <5> QED
          BY <1>3, <3>1, <5>1, <5>4
      <4>3. SessionStep(s) => stage[s] = "registered" /\ SameSession(s)
        BY <1>1, <1>3, <4>2, SessionStepOwn
      <4>4. UNCHANGED sessionVars => stage[s] = "registered" /\ SameSession(s)
        BY <1>3, NothingRegisters DEF sessionVars
      <4>5. SameSession(s) => stage[s] = "registered"
        BY <1>3 DEF SameSession
      <4> QED
        BY <1>1, <1>3, <2>1, <4>1, <4>3, <4>4, <4>5, SessionGoesOn
    <3>3. InSession(a, s)
      <4>1. ~Connect(a, s)
        BY <3>2 DEF Connect, Accept, Move
      <4> QED
        BY <1>1, <1>3, <2>1, <4>1, SessionBegins
    <3>4. IsCurrent(s) /\ identity[s].id = asked[a]
      <4>1. s \in Registered /\ identity'[s] = identity[s]
        BY <2>2, <3>2 DEF SameSession
      <4> QED
        BY <1>1, <1>3, <3>1, <3>2, <4>1, CurrentBefore
    <3>5. Coming(s) \/ OutOfStep(s)
      BY <1>3, <2>3, <3>1, <3>2, <3>3, <3>4 DEF AnswersCome
    <3> QED
      BY <1>1, <1>3, <2>1, <2>3, <3>1, <3>2, <3>3, <3>5, StaysOnItsWay, OutOfStepStays
  <2>4. CASE phase' # phase
    <3>1. asked' = NewRound
      BY <1>3, <2>4, AskedFollows
    <3>2. a \in Connected /\ clients'[a] # clients[a]
      <4>1. identity'[s].id # 0
        BY <1>1, <2>2, BoundAssumption DEF VInv, SessionsTypeOK, ConnectionId
      <4> QED
        BY <1>3, <2>1, <3>1, <4>1 DEF NewRound
    <3>3. PICK order \in SamToApplication : order = RoundOrder' /\ Broadcast(order)
      BY <1>1, <1>3, <2>4, RoundOpens
    <3>4. Within(order, clients'[a].outbound)
      BY <1>1, <3>2, <3>3, RoundReaches
    <3>5. Outgoing(s)' = clients'[a].outbound
      BY <1>3, <2>2 DEF Outgoing
    <3> QED
      BY <3>3, <3>4, <3>5 DEF Coming
  <2> QED
    BY <2>3, <2>4
<1> QED
  BY <1>2, <1>3 DEF AnswersCome

LEMMA InitAnswers == ExecutableInit => AnswersCome
BY DEF ExecutableInit, SystemInit, ServerInit, Init, Modes!New, AnswersCome

\* As long as a participant is in the session on which the round's message was
\* queued for it, the message or the answer is on its way, or SAM has lost a
\* frame of this session and is about to end it: however sessions overlap, time
\* out, are replaced or evicted, a transition is stuck on nobody who stays.
THEOREM AnswersAreComing == ExecutableSpec => []AnswerIsComing
<1>1. CInv /\ AnswersCome => AnswerIsComing
  <2> SUFFICES ASSUME CInv, AnswersCome, NEW a \in waitingFor, NEW s \in Session,
                      phase # "Stable", stage[s] = "registered", IsCurrent(s), InSession(a, s),
                      asked[a] = identity[s].id, ~OutOfStep(s)
               PROVE  InFlight(s)
    BY DEF AnswerIsComing
  <2>1. Coming(s)
    BY DEF AnswersCome
  <2>2. RoundOrder.type = RoundMessage /\ RoundOrder.id = transitionId
    BY DEF RoundOrder, RoundMessage, PrepareMode, CommitMode
  <2>3. \A answer : IsAnswer(answer) =>
          answer.type \notin {"Register", "Heartbeat", "Fragment"} /\ answer.id = transitionId
    BY DEF IsAnswer
  <2>4. \A q : Within(RoundOrder, q) =>
          \E i \in 1 .. Len(q) : q[i].type = RoundMessage /\ q[i].id = transitionId
    BY <2>2 DEF Within
  <2>5. \A answer, q : IsAnswer(answer) /\ Within(answer, q) =>
          \E i \in 1 .. Len(q) : q[i].type \notin {"Register", "Heartbeat", "Fragment"} /\ q[i].id = transitionId
    BY <2>3 DEF Within
  <2> QED
    BY <2>1, <2>4, <2>5 DEF Coming, InFlight
<1>2. ExecutableSpec => []CInv
  BY ExecutableIsSystem, AlwaysCInv
<1>3. ExecutableSpec => []AnswersCome
  BY <1>2, InitAnswers, NextKeepsAnswers, PTL DEF ExecutableSpec
<1> QED
  BY <1>1, <1>2, <1>3, PTL

-----------------------------------------------------------------------------
\* Orders and reports name the round and the mode that they are of.

Untrue(message) ==
  \/ message.id >= nextTransitionId
  \/ phase # "Stable" /\ message.id = transitionId /\ message.mode # target

FalseOrders == {m \in SamToApplication : m.type \in {"PrepareMode", "CommitMode"} /\ Untrue(m)}

FalseReports ==
  {m \in ApplicationToSam :
     \/ m.type \in {"ModeReady", "ModeRejected"} /\ m.id >= nextTransitionId
     \/ m.type = "ModeCommitted" /\ Untrue(m)}

OrdersTrue ==
  /\ phase # "Stable" => transitionId < nextTransitionId
  /\ ServerFree(FalseOrders) /\ DownFree(FalseOrders)
  /\ \A s \in Session : Free(up[s], FalseReports)

\* A round goes on under its id and with its target, or takes the next id.
LEMMA RoundsAreNumbered ==
  ASSUME YInv, [Next]_vars
  PROVE  /\ nextTransitionId \in Nat /\ nextTransitionId' \in Nat
         /\ nextTransitionId <= nextTransitionId'
         /\ phase' # "Stable" =>
              \/ phase # "Stable" /\ UNCHANGED <<target, transitionId, nextTransitionId>>
              \/ phase = "Stable" /\ transitionId' = nextTransitionId
                   /\ nextTransitionId' = nextTransitionId + 1
<1>1. nextTransitionId \in Nat /\ nextTransitionId <= MaxTransition + 1 /\ MaxTransition \in Nat
  BY BoundAssumption DEF YInv, IdsInBound
<1>2. ASSUME NEW m, RequestMode(m)
      PROVE  /\ phase = "Stable" /\ transitionId' = nextTransitionId
             /\ nextTransitionId' = nextTransitionId + 1
  <2>1. /\ phase = "Stable" /\ transitionId' = nextTransitionId
        /\ nextTransitionId' = (nextTransitionId + 1) % IdSpace
        /\ nextTransitionId <= MaxTransition
    BY <1>2 DEF RequestMode, Modes!RequestTransition, Modes!AcceptsRequest, Modes!NextId
  <2>2. nextTransitionId + 1 < IdSpace /\ IdSpace \in Nat
    BY <1>1, <2>1, SystemAssumption, IdSpaceAssumption
  <2>3. (nextTransitionId + 1) % IdSpace = nextTransitionId + 1
    BY <1>1, <2>2
  <2> QED
    BY <2>1, <2>3
<1>3. ASSUME NEW a, NEW b, NEW c, NEW t, HandleModeReady(a, c, ModeReady(b, t))
      PROVE  phase # "Stable" /\ UNCHANGED <<target, transitionId, nextTransitionId>>
  BY <1>3 DEF HandleModeReady, Modes!ApplicationReady, Modes!AcceptsReady
<1>4. ASSUME NEW a, NEW b, NEW c, NEW t, HandleModeRejected(a, c, ModeRejected(b, t))
      PROVE  phase' = "Stable" /\ UNCHANGED nextTransitionId
  BY <1>4 DEF HandleModeRejected, Modes!ApplicationRejected, Modes!AcceptsRejection, Modes!Settle
<1>5. ASSUME NEW a, NEW b, NEW c, NEW t, NEW m, NEW wait,
             HandleModeCommitted(a, c, ModeCommitted(b, t, m), wait)
      PROVE  /\ UNCHANGED nextTransitionId
             /\ phase' # "Stable" => phase # "Stable" /\ UNCHANGED <<target, transitionId>>
  BY <1>5 DEF HandleModeCommitted, Modes!ApplicationCommitted, Modes!AcceptsCommit, Modes!Settle
<1>6. CASE UNCHANGED modeVars
  BY <1>1, <1>6 DEF modeVars
<1>7. \/ UNCHANGED modeVars \/ \E m : RequestMode(m)
      \/ \E a, b, c, t : HandleModeReady(a, c, ModeReady(b, t))
      \/ \E a, b, c, t : HandleModeRejected(a, c, ModeRejected(b, t))
      \/ \E a, b, c, t, m, wait : HandleModeCommitted(a, c, ModeCommitted(b, t, m), wait)
  BY ServiceSteps DEF Register, Disconnect, HandleHeartbeat, RefreshHealth, Take, Tick, vars
<1> QED
  BY <1>1, <1>2, <1>3, <1>4, <1>5, <1>6, <1>7

\* What was true of a message stays so.
LEMMA TruthLasts ==
  ASSUME YInv, OrdersTrue, [Next]_vars
  PROVE  /\ FalseOrders' \subseteq FalseOrders /\ FalseReports' \subseteq FalseReports
         /\ phase' # "Stable" => transitionId' < nextTransitionId'
<1>1. /\ nextTransitionId \in Nat /\ nextTransitionId' \in Nat
      /\ nextTransitionId <= nextTransitionId'
      /\ phase' # "Stable" =>
           \/ phase # "Stable" /\ UNCHANGED <<target, transitionId, nextTransitionId>>
           \/ phase = "Stable" /\ transitionId' = nextTransitionId
                /\ nextTransitionId' = nextTransitionId + 1
  BY RoundsAreNumbered
<1>2. ASSUME NEW message, message.id \in Nat, Untrue(message)'
      PROVE  Untrue(message)
  BY <1>1, <1>2 DEF Untrue
<1>3. \A m \in SamToApplication : m.type \in {"PrepareMode", "CommitMode"} => m.id \in Nat
  BY OrderParts, IdSpaceAssumption DEF TransitionId
<1>4. \A m \in ApplicationToSam : m.type \in {"ModeReady", "ModeRejected", "ModeCommitted"} => m.id \in Nat
  BY IdSpaceAssumption DEF ApplicationToSam, Fragment, TransitionId
<1> QED
  BY <1>1, <1>2, <1>3, <1>4 DEF FalseOrders, FalseReports, OrdersTrue

\* A process reports what it was ordered.
LEMMA ReportsAreTrue ==
  ASSUME CInv, NEW orders, NEW reports, DownFree(orders),
         \A s \in Session : Free(up[s], reports),
         \A m \in reports : m.type \in {"ModeReady", "ModeRejected", "ModeCommitted"},
         \A a, t, m : CommitMode(t, m) \notin orders => ModeCommitted(a, t, m) \notin reports,
         \A a, t : \A m \in SystemMode : PrepareMode(t, m) \notin orders =>
           ModeReady(a, t) \notin reports /\ ModeRejected(a, t) \notin reports,
         [SystemNext]_systemVars
  PROVE  \A s \in Session : Free(up'[s], reports)
<1> DEFINE True == \A s \in Session : Free(up'[s], reports)
<1>1. /\ up \in [Session -> Seq(ApplicationToSam)] /\ down \in [Session -> Seq(SamToApplication)]
      /\ \A s \in Session : Free(up[s], reports)
  BY DEF CInv, YInv, ChannelsTypeOK
<1>2. ASSUME UNCHANGED up
      PROVE  True
  BY <1>1, <1>2
<1>3. ASSUME NEW s \in Session, NEW message, message \notin reports, Write(s, message)
      PROVE  True
  <2>1. Free(Append(up[s], message), reports)
    BY <1>1, <1>3, FreeOfMore
  <2> QED
    BY <1>1, <1>2, <1>3, <2>1 DEF Write
<1>4. ASSUME NEW s \in Session, SessionStep(s)
      PROVE  True
  <2>3. CASE Cuts(s)
    <3>1. up' = [up EXCEPT ![s] = <<Fragment>>]
      BY <2>3 DEF Cuts
    <3>2. Fragment \notin reports
      BY DEF Fragment
    <3>3. Free(<<Fragment>>, reports)
      BY <3>2 DEF Free
    <3> QED
      BY <1>1, <3>1, <3>3
  <2>1. CASE Drained(s) /\ up[s] # << >>
    <3>1. Free(Tail(up[s]), reports)
      BY <1>1, <2>1, QueueElements DEF Free
    <3> QED
      BY <1>1, <2>1, <3>1 DEF Drained
  <2>2. CASE Unread(s)
    BY <1>1, <2>2, FreeOfNone DEF Unread
  <2> QED
    BY <1>2, <1>4, <2>1, <2>2, <2>3
       DEF SessionStep, ServerStep, Registers, Delivers, Handles, Refuses, SeesEnd, Ends, Misses,
           Expires, Cut
<1>5. ASSUME NEW a \in App, NEW s \in Session, ProcessStep(a, s)
      PROVE  True
  <2>1. CASE Connect(a, s)
    <3>1. Free(<<RegisterMessage(a)>>, reports)
      BY DEF Free, RegisterMessage
    <3> QED
      BY <1>1, <2>1, <3>1 DEF Connect
  <2>2. CASE Beats(a, s)
    BY <1>3, <2>2 DEF Beats, Heartbeat
  <2>3. CASE Answers(a, s) /\ Prepare(a, s, Head(down[s]))
    <3> DEFINE message == Head(down[s])
    <3>1. message \notin orders /\ message \in SamToApplication /\ message.type = "PrepareMode"
      BY <1>1, <2>3, FreeOfRest, QueueRest DEF Answers, Prepare, DownFree
    <3>2. message = PrepareMode(message.id, message.mode)
      BY <3>1 DEF SamToApplication, PrepareMode
    <3>3. message.mode \in SystemMode
      BY <3>1, OrderParts
    <3>4. ModeReady(a, message.id) \notin reports /\ ModeRejected(a, message.id) \notin reports
      BY <3>1, <3>2, <3>3
    <3> QED
      BY <1>3, <2>3, <3>4 DEF Prepare
  <2>4. CASE Answers(a, s) /\ Commit(a, s, Head(down[s]))
    <3> DEFINE message == Head(down[s])
    <3>1. message \notin orders /\ message \in SamToApplication /\ message.type = "CommitMode"
      BY <1>1, <2>4, FreeOfRest, QueueRest DEF Answers, Commit, DownFree
    <3>2. message = CommitMode(message.id, message.mode)
      BY <3>1 DEF SamToApplication, CommitMode
    <3>3. ModeCommitted(a, message.id, message.mode) \notin reports
      BY <3>1, <3>2
    <3> QED
      BY <1>2, <1>3, <2>4, <3>3 DEF Commit
  <2>5. CASE \/ ReceivesRegistration(a, s) \/ RegistrationEnds(a, s) \/ SessionEnds(a, s)
             \/ ReaderEnds(a, s) \/ TimesOut(a, s)
    BY <1>2, <2>5 DEF ReceivesRegistration, RegistrationEnds, SessionEnds, ReaderEnds, TimesOut
  <2> QED
    BY <1>5, <2>1, <2>2, <2>3, <2>4, <2>5 DEF ProcessStep, ClientStep, Answers
<1> QED
  BY <1>2, <1>4, <1>5, SystemSteps DEF Monitor, Command, systemVars, clientVars

LEMMA InitOrders == SystemInit => OrdersTrue
BY FreeOfNone DEF SystemInit, ServerInit, Init, Modes!New, OrdersTrue, ServerFree, ServiceFree,
                  DownFree, Connected

LEMMA NextKeepsOrders ==
  ASSUME CInv, OrdersTrue, [SystemNext]_systemVars
  PROVE  OrdersTrue'
<1>1. YInv /\ VInv /\ SInv /\ [ServerNext]_serverVars /\ [Next]_vars /\ SInv'
  <2>1. YInv'
    BY NextKeepsYInv DEF CInv
  <2> QED
    BY <2>1, NextIsServers, NextIsServices DEF CInv, YInv, VInv
<1>2. ASSUME NEW orders, orders = FalseOrders'
      PROVE  ServerFree(orders)' /\ DownFree(orders)' /\ DownFree(orders)
  <2>1. ServerFree(orders) /\ DownFree(orders)
    BY <1>1, <1>2, TruthLasts, FreeOfFewer DEF OrdersTrue
  <2>2. NeverPosted(orders)
    <3>1. phase' # "Stable" => ~Untrue(RoundOrder)'
      <4>1. phase' # "Stable" => transitionId' < nextTransitionId'
              /\ transitionId' \in Nat /\ nextTransitionId' \in Nat
        BY <1>1, TruthLasts, RoundsAreNumbered, NextKeepsYInv, BoundAssumption DEF CInv, YInv, IdsInBound
      <4>2. RoundOrder'.id = transitionId' /\ RoundOrder'.mode = target'
        BY DEF RoundOrder, PrepareMode, CommitMode
      <4> QED
        BY <4>1, <4>2 DEF Untrue
    <3> QED
      BY <1>2, <3>1 DEF NeverPosted, FalseOrders, RegisterAccepted
  <2> QED
    BY <1>1, <2>1, <2>2, ServerKeepsFree, DownKeepsFree
<1>3. ASSUME NEW reports, NEW orders, reports = FalseReports', orders = FalseOrders'
      PROVE  \A s \in Session : Free(up'[s], reports)
  <2>1. \A s \in Session : Free(up[s], reports)
    BY <1>1, <1>3, TruthLasts DEF OrdersTrue, Free
  <2>2. \A a, t, m : CommitMode(t, m) \notin orders => ModeCommitted(a, t, m) \notin reports
    <3> SUFFICES ASSUME NEW a, NEW t, NEW m, ModeCommitted(a, t, m) \in reports
                 PROVE  CommitMode(t, m) \in orders
      OBVIOUS
    <3>1. t \in TransitionId /\ m \in SystemMode /\ Untrue(ModeCommitted(a, t, m))'
      BY <1>3 DEF FalseReports, ApplicationToSam, Fragment, ModeCommitted
    <3>2. CommitMode(t, m) \in SamToApplication /\ Untrue(CommitMode(t, m))'
      BY <3>1, MessageTypes DEF Untrue, CommitMode, ModeCommitted
    <3> QED
      BY <1>3, <3>2 DEF FalseOrders, CommitMode
  <2>3. \A a, t : \A m \in SystemMode : PrepareMode(t, m) \notin orders =>
          ModeReady(a, t) \notin reports /\ ModeRejected(a, t) \notin reports
    <3> SUFFICES ASSUME NEW a, NEW t, NEW m \in SystemMode,
                        ModeReady(a, t) \in reports \/ ModeRejected(a, t) \in reports
                 PROVE  PrepareMode(t, m) \in orders
      OBVIOUS
    <3>1. t \in TransitionId /\ t >= nextTransitionId'
      BY <1>3 DEF FalseReports, ApplicationToSam, Fragment, ModeReady, ModeRejected
    <3>2. PrepareMode(t, m) \in SamToApplication /\ Untrue(PrepareMode(t, m))'
      BY <3>1, MessageTypes DEF Untrue, PrepareMode
    <3> QED
      BY <1>3, <3>2 DEF FalseOrders, PrepareMode
  <2> QED
    BY <1>2, <1>3, <2>1, <2>2, <2>3, ReportsAreTrue DEF FalseReports
<1>4. (ServerFree(FalseOrders) /\ DownFree(FalseOrders))'
  BY <1>2
<1>5. \A s \in Session : Free(up[s], FalseReports)'
  BY <1>3
<1> QED
  BY <1>1, <1>4, <1>5, TruthLasts DEF OrdersTrue

-----------------------------------------------------------------------------
\* Connections that last

\* SAM is still to handle the registration.
Awaits(a, s) == stage[s] = "accepted" /\ up[s] = <<RegisterMessage(a)>>

\* What SAM takes, or is about to take, for a's session is where a's process is.
Faithful(a, s) ==
  /\ Awaits(a, s) => InSession(a, s)
  /\ IsCurrent(s) /\ identity[s].app = a => InSession(a, s) /\ stage[s] = "registered"

Kept(a) == a \in Known => a \in Connected

\* The process gives up the connection only when SAM has.
HoldsOn(a, s) == InSession(a, s) /\ ~InSession(a, s)' => stage[s] = "ended"

LEMMA AwaitedBefore ==
  ASSUME CInv, [SystemNext]_systemVars, NEW a \in App, NEW s \in Session, Awaits(a, s)'
  PROVE  Awaits(a, s) \/ InSession(a, s)'
<1>1. YInv /\ VInv /\ ChannelsTypeOK /\ EndsOK /\ OneProcess
        /\ runtime \in [App -> Process] /\ up \in [Session -> Seq(ApplicationToSam)]
        /\ (stage[s] = "accepted" => s \notin Registered)
  BY DEF CInv, YInv, ChannelsTypeOK, VInv, SessionsTypeOK
<1>2. CASE UNCHANGED <<stage, up>>
  BY <1>2 DEF Awaits
<1>3. ASSUME NEW r \in Session, SessionStep(r)
      PROVE  Awaits(a, s)
  <2>1. CASE r # s
    BY <1>1, <1>3, <2>1, SessionStepIsOwn DEF SameSession, SameLines, Awaits
  <2>2. CASE r = s
    <3>1. CASE Delivers(s) \/ Cuts(s) \/ Handles(s)
      <4>1. stage[s] = "registered" /\ UNCHANGED stage
        BY <3>1 DEF Delivers, Cuts, Sends, Forward, Handles, sessionVars
      <4> QED
        BY <4>1 DEF Awaits
    <3>2. CASE Registers(s) \/ Refuses(s) \/ SeesEnd(s) \/ Ends(s) \/ Misses(s) \/ Expires(s)
      <4>1. \E from, to : Move(s, from, to) /\ to # "accepted"
        BY <3>2 DEF Registers, RegisterSession, Refuses, SeesEnd, Ends, Break, Replaced, Teardown,
                    Misses, Expires, EndUnregistered
      <4> QED
        BY <1>1, <4>1, MoveIsOwn DEF Awaits
    <3> QED
      BY <1>3, <2>2, <3>1, <3>2 DEF SessionStep, ServerStep, Cut
  <2> QED
    BY <2>1, <2>2
<1>4. ASSUME NEW b \in App, NEW r \in Session, ProcessStep(b, r)
      PROVE  Awaits(a, s) \/ InSession(a, s)'
  <2>1. CASE r # s
    BY <1>1, <1>4, <2>1, ProcessStepIsOwn DEF SameSession, Awaits
  <2>2. CASE Connect(b, s)
    <3>1. up'[s] = <<RegisterMessage(b)>> /\ InSession(b, s)'
      BY <1>1, <2>2 DEF Connect, InSession, Process
    <3>2. RegisterMessage(a) = RegisterMessage(b)
      BY <3>1 DEF Awaits
    <3>3. a = b
      BY <3>2 DEF RegisterMessage
    <3> QED
      BY <3>1, <3>3
  <2>3. CASE Beats(b, s) \/ Answers(b, s)
    <3>1. UNCHANGED stage /\ Running(b, s)
      BY <2>3 DEF Beats, Answers, sessionVars
    <3>2. s \in Registered
      BY <1>1, <3>1 DEF OneProcess, Running, InSession
    <3> QED
      BY <1>1, <3>1, <3>2 DEF Awaits
  <2>4. CASE \/ ReceivesRegistration(b, s) \/ RegistrationEnds(b, s) \/ SessionEnds(b, s)
             \/ ReaderEnds(b, s) \/ TimesOut(b, s)
    BY <1>2, <2>4
       DEF ReceivesRegistration, RegistrationEnds, SessionEnds, ReaderEnds, TimesOut,
           serverVars, sessionVars
  <2> QED
    BY <1>4, <2>1, <2>2, <2>3, <2>4 DEF ProcessStep, ClientStep
<1> QED
  BY <1>2, <1>3, <1>4, SystemSteps
     DEF Monitor, Command, systemVars, clientVars, serverVars, sessionVars

\* A session becomes current by registering.
LEMMA CurrentOnce ==
  ASSUME CInv, [SystemNext]_systemVars, NEW s \in Session, IsCurrent(s)'
  PROVE  Registers(s) \/ (IsCurrent(s) /\ identity'[s] = identity[s])
<1>1. YInv /\ VInv /\ SInv /\ [Next]_vars
  BY NextIsServers, NextIsServices DEF CInv, YInv, VInv
<1>2. CASE s \in Registered /\ identity'[s] = identity[s]
  <2>1. identity[s].id # nextConnectionId
    BY <1>1, <1>2, BoundAssumption DEF VInv, IdsAreUnique, SessionsTypeOK, ConnectionId
  <2> QED
    BY <1>1, <1>2, <2>1, IdsAreGained DEF IsCurrent, VerifyConnection
<1>3. CASE UNCHANGED identity
  BY <1>2, <1>3 DEF IsCurrent, Registered
<1>4. ASSUME NEW r \in Session, Registers(r), r # s
      PROVE  s \in Registered /\ identity'[s] = identity[s]
  BY <1>4 DEF Registers, RegisterSession, IsCurrent, Registered
<1>5. ASSUME NEW r \in Session, SessionStep(r), ~Registers(r)
      PROVE  UNCHANGED identity
  BY <1>5 DEF SessionStep, ServerStep, Delivers, Cut, Cuts, Sends, Forward, Handles, Refuses,
              SeesEnd, Break, Ends, Replaced, Teardown, Misses, Expires, EndUnregistered, sessionVars
<1>6. ASSUME NEW b \in App, NEW r \in Session, ProcessStep(b, r)
      PROVE  UNCHANGED identity
  BY <1>1, <1>6, ProcessStepIsOwn
<1>7. UNCHANGED identity \/ \E r \in Session : Registers(r)
  BY <1>5, <1>6, SystemSteps DEF Monitor, Command, systemVars, serverVars, sessionVars
<1> QED
  BY <1>2, <1>3, <1>4, <1>7

\* As long as the process does not let go of it, no frame was lost on it and
\* all orders are true, SAM has no reason to end the session.
LEMMA FaithfulLasts ==
  ASSUME CInv, OrdersTrue, [SystemNext]_systemVars, NEW a \in App, NEW s \in Session,
         Faithful(a, s), HoldsOn(a, s), ~OutOfStep(s)
  PROVE  Faithful(a, s)'
<1>1. YInv /\ VInv /\ ChannelsTypeOK /\ EndsOK /\ OneProcess
        /\ up \in [Session -> Seq(ApplicationToSam)] /\ EndOK(s)
  BY DEF CInv, YInv, ChannelsTypeOK, EndsOK
<1>2. Awaits(a, s)' => InSession(a, s)'
  <2>1. Awaits(a, s) => InSession(a, s) /\ stage[s] # "ended"
    BY DEF Faithful, Awaits
  <2> QED
    BY <2>1, AwaitedBefore DEF HoldsOn
<1>3. ASSUME IsCurrent(s)', identity'[s].app = a, Registers(s)
      PROVE  InSession(a, s)' /\ stage'[s] = "registered"
  <2>1. stage[s] = "accepted" /\ RegisterSession(s, Head(up[s]).app, 0) /\ Move(s, "accepted", "registered")
    BY <1>3 DEF Registers, RegisterSession, Move
  <2>2. PICK b \in App : up[s] = <<RegisterMessage(b)>>
    BY <1>1, <2>1 DEF EndOK
  <2>3. Head(up[s]).app = b
    BY <2>2 DEF RegisterMessage
  <2>4. identity'[s] = [app |-> b, id |-> nextConnectionId]
    BY <2>1, <2>3 DEF RegisterSession
  <2>5. b = a
    BY <1>3, <2>4
  <2>6. InSession(a, s)
    BY <2>1, <2>2, <2>5 DEF Faithful, Awaits
  <2>7. InSession(a, s)'
    BY <2>1, <2>6 DEF HoldsOn
  <2> QED
    BY <1>1, <2>1, <2>7, MoveIsOwn
<1>4. ASSUME IsCurrent(s)', identity'[s].app = a, IsCurrent(s), identity'[s] = identity[s]
      PROVE  InSession(a, s)' /\ stage'[s] = "registered"
  <2>1. InSession(a, s) /\ InSession(a, s)' /\ stage[s] = "registered"
    BY <1>4 DEF Faithful, HoldsOn
  <2>2. CASE SessionStep(s)
    <3>1. ~Registers(s) /\ ~Misses(s) /\ ~Expires(s)
      BY <2>1 DEF Registers, RegisterSession, Misses, Expires, EndUnregistered, Move
    <3>2. CASE Delivers(s) \/ Cuts(s) \/ Handles(s)
      BY <2>1, <3>2 DEF Delivers, Cuts, Sends, Forward, Handles, sessionVars
    <3>3. ~Refuses(s)
      <4> SUFFICES ASSUME up[s] # << >>, IsError(s, Head(up[s]))
                   PROVE  FALSE
        BY DEF Refuses
      <4> DEFINE report == Head(up[s])
      <4>1. report.type = "ModeCommitted" /\ Modes!WrongCommittedMode(report.id, report.mode)
        BY <1>4 DEF IsError, OutOfStep
      <4>2. report \in ApplicationToSam /\ report \notin FalseReports
        BY <1>1, QueueElements, QueueRest DEF OrdersTrue, Free
      <4>3. ~Untrue(report)
        BY <4>1, <4>2 DEF FalseReports
      <4> QED
        BY <4>1, <4>3 DEF Modes!WrongCommittedMode, Untrue
    <3>4. ~SeesEnd(s)
      <4>1. holder[s] = {a}
        BY <1>1, <2>1 DEF OneProcess
      <4> QED
        BY <4>1 DEF SeesEnd
    <3>5. ~Ends(s)
      BY <1>4, <2>1 DEF Ends, Replaced, Teardown, Move
    <3> QED
      BY <2>1, <2>2, <3>1, <3>2, <3>3, <3>4, <3>5 DEF SessionStep, ServerStep, Cut
  <2>3. CASE UNCHANGED sessionVars
    BY <2>1, <2>3 DEF sessionVars
  <2> QED
    BY <1>1, <2>1, <2>2, <2>3, SessionGoesOn DEF SameSession
<1> QED
  BY <1>2, <1>3, <1>4, CurrentOnce DEF Faithful

-----------------------------------------------------------------------------
\* Entries that last

LEMMA KnownStay ==
  ASSUME SInv, [Next]_vars, NEW a
  PROVE  /\ a \in Known => a \in Known'
         /\ a \in Known' /\ a \notin Known => a \in Connected'
<1>1. applications \in [Known -> ApplicationStatus]
  BY DEF SInv, ServiceTypeOK, RegistryTypeOK
<1>2. ASSUME NEW b, NEW wait, Register(b, wait)
      PROVE  /\ a \in Known => a \in Known'
             /\ a \in Known' /\ a \notin Known => a \in Connected'
  BY <1>2 DEF Register, RegisterStatus, Known, Connected
<1>3. ASSUME NEW b, NEW c, NEW d, NEW wait, NEW t, NEW m, NEW h,
             \/ Disconnect(b, c, wait)
             \/ HandleHeartbeat(b, c, Heartbeat(d, h, m), wait)
             \/ HandleModeReady(b, c, ModeReady(d, t))
             \/ HandleModeRejected(b, c, ModeRejected(d, t))
             \/ HandleModeCommitted(b, c, ModeCommitted(d, t, m), wait)
             \/ RequestMode(m) \/ RefreshHealth(wait) \/ Take(b) \/ Tick
      PROVE  Known' = Known
  BY <1>1, <1>3
     DEF Disconnect, MarkDisconnected, HandleHeartbeat, UpdateHeartbeat, HandleModeReady,
         HandleModeRejected, HandleModeCommitted, SetMode, RequestMode, RefreshHealth, Take, Tick,
         GrowOlder, Known
<1>4. CASE UNCHANGED vars
  BY <1>4 DEF vars, Known
<1> QED
  BY <1>2, <1>3, <1>4, ServiceSteps

\* Only the teardown of its current session takes an application away.
LEMMA ConnectionLasts ==
  ASSUME CInv, [SystemNext]_systemVars, NEW a \in Connected,
         \A s \in Session : IsCurrent(s) /\ identity[s].app = a => stage[s] = "registered"
  PROVE  a \in Connected'
<1>1. YInv /\ VInv /\ SInv /\ [ServerNext]_serverVars
  BY NextIsServers DEF CInv, YInv, VInv
<1>2. SameIds => a \in Connected'
  BY DEF SameIds
<1>3. ASSUME NEW s \in Session, SessionNext(s)
      PROVE  a \in Connected'
  <2>1. ASSUME NEW b \in App, NEW wait \in LockWait, RegisterSession(s, b, wait)
        PROVE  a \in Connected'
    BY <2>1 DEF RegisterSession, Register, Connected
  <2>2. CASE Forward(s)
    BY <1>1, <1>2, <2>2, ForwardIsServices, TakeAndTickKeepIds
  <2>3. ASSUME NEW wait \in LockWait, Receive(s, wait)
        PROVE  a \in Connected'
    BY <1>1, <1>2, <2>3, ReceiveIsServices
  <2>4. ASSUME NEW wait \in LockWait, Teardown(s, wait)
        PROVE  a \in Connected'
    <3>1. CASE IsCurrent(s)
      <4>1. identity[s].app # a
        BY <2>4, <3>1 DEF Teardown, Move
      <4> QED
        BY <2>4, <3>1, <4>1 DEF Teardown, Disconnect, Connected
    <3>2. CASE ~IsCurrent(s)
      BY <2>4, <3>2 DEF Teardown, vars, Connected
    <3> QED
      BY <3>1, <3>2
  <2>5. CASE Accept(s) \/ EndUnregistered(s) \/ Replaced(s) \/ Break(s)
    BY <2>5 DEF Accept, EndUnregistered, Replaced, Break, vars, Connected
  <2> QED
    BY <1>3, <2>1, <2>2, <2>3, <2>4, <2>5 DEF SessionNext
<1>4. ASSUME NEW m, NEW wait, RequestMode(m) \/ RefreshHealth(wait) \/ Tick
      PROVE  a \in Connected'
  BY <1>1, <1>2, <1>4, CallsKeepIds, TakeAndTickKeepIds
<1>5. CASE UNCHANGED serverVars
  BY <1>5 DEF serverVars, vars, Connected
<1> QED
  BY <1>1, <1>3, <1>4, <1>5 DEF ServerNext

LEMMA KeptLasts ==
  ASSUME CInv, [SystemNext]_systemVars, NEW a, Kept(a),
         \A s \in Session : IsCurrent(s) /\ identity[s].app = a => stage[s] = "registered"
  PROVE  Kept(a)'
<1>1. SInv /\ [Next]_vars
  BY NextIsServers, NextIsServices DEF CInv, YInv, VInv
<1> QED
  BY <1>1, KnownStay, ConnectionLasts DEF Kept

-----------------------------------------------------------------------------
\* The steps in which no process is ended or started

Regular == SystemStep \/ (\E m \in SystemMode : Command(m)) \/ UNCHANGED systemVars

\* The process takes every mode that a registration may tell it.
Willing(a) ==
  \A s \in Session : down[s] # << >> /\ Head(down[s]).type = "RegisterAccepted" =>
    Prepares(runtime[a].handler, Head(down[s]).mode)

\* The process answers a request for Working.
AsksForWorking(a, s) ==
  /\ Answers(a, s) /\ Prepare(a, s, Head(down[s]))
  /\ Head(down[s]).mode = "Working"

LEMMA RegularIsSystems == Regular => [SystemNext]_systemVars
BY DEF Regular, SystemNext

\* A process that can commit and is asked for nothing it refuses goes on.
LEMMA RegularHoldsOn ==
  ASSUME CInv, Regular, NEW a \in App, Willing(a),
         runtime[a].handler \in {"agrees", "rejectsOnce"}
  PROVE  /\ \A s \in Session : HoldsOn(a, s)
         /\ runtime[a].at # "off" => runtime'[a].at # "off"
         /\ \/ runtime'[a].handler = runtime[a].handler
            \/ /\ runtime[a].handler = "rejectsOnce" /\ runtime'[a].handler = "agrees"
               /\ \E s \in Session : AsksForWorking(a, s)
<1> DEFINE Good == /\ \A s \in Session : HoldsOn(a, s)
                   /\ runtime[a].at # "off" => runtime'[a].at # "off"
                   /\ \/ runtime'[a].handler = runtime[a].handler
                      \/ /\ runtime[a].handler = "rejectsOnce" /\ runtime'[a].handler = "agrees"
                         /\ \E s \in Session : AsksForWorking(a, s)
<1>1. YInv /\ runtime \in [App -> Process]
  BY DEF CInv, YInv, ChannelsTypeOK
<1>2. ASSUME runtime'[a] = runtime[a]
      PROVE  Good
  BY <1>2 DEF HoldsOn, InSession
<1>3. ASSUME NEW r \in Session, ClientStep(a, r)
      PROVE  Good
  <2>1. CASE Connect(a, r)
    <3>1. runtime'[a] = [runtime[a] EXCEPT !.at = "registering", !.session = r]
      BY <1>1, <2>1 DEF Connect
    <3>2. runtime'[a].at = "registering" /\ runtime'[a].handler = runtime[a].handler
      BY <1>1, <3>1 DEF Process
    <3>3. \A s \in Session : ~InSession(a, s)
      BY <2>1 DEF Connect, InSession
    <3> QED
      BY <3>2, <3>3 DEF HoldsOn
  <2>2. CASE ReceivesRegistration(a, r)
    <3>1. Runs(a, Head(down[r]).mode, runtime[a].handler)
      BY <2>2 DEF ReceivesRegistration, Synchronize, Willing
    <3>2. /\ runtime'[a].at = "running" /\ runtime'[a].handler = runtime[a].handler
          /\ runtime'[a].session = runtime[a].session
      BY <1>1, <3>1 DEF Runs, Process
    <3> QED
      BY <3>2 DEF HoldsOn, InSession
  <2>3. CASE RegistrationEnds(a, r) \/ SessionEnds(a, r)
    <3>1. /\ MoveTo(a, "idle") /\ stage[r] = "ended"
          /\ \A s \in Session : InSession(a, s) => s = r
      BY <2>3 DEF RegistrationEnds, SessionEnds, InSession, Running
    <3>2. runtime'[a].at = "idle" /\ runtime'[a].handler = runtime[a].handler
      BY <1>1, <3>1 DEF MoveTo, Process
    <3> QED
      BY <3>1, <3>2 DEF HoldsOn
  <2>4. CASE Beats(a, r)
    <3>1. runtime'[a] = [runtime[a] EXCEPT !.reported = TRUE]
      BY <1>1, <2>4 DEF Beats
    <3>2. /\ runtime'[a].at = runtime[a].at /\ runtime'[a].handler = runtime[a].handler
          /\ runtime'[a].session = runtime[a].session
      BY <1>1, <3>1 DEF Process
    <3> QED
      BY <3>2 DEF HoldsOn, InSession
  <2>5. CASE Answers(a, r) /\ Prepare(a, r, Head(down[r]))
    <3> DEFINE h == runtime[a].handler
               m == Head(down[r]).mode
    <3>1. runtime'[a] = [runtime[a] EXCEPT !.handler = AfterPrepare(h, m)]
      BY <1>1, <2>5 DEF Prepare
    <3>2. /\ runtime'[a].at = runtime[a].at /\ runtime'[a].handler = AfterPrepare(h, m)
          /\ runtime'[a].session = runtime[a].session
      BY <1>1, <3>1 DEF Process
    <3>3. \/ AfterPrepare(h, m) = h
          \/ h = "rejectsOnce" /\ AfterPrepare(h, m) = "agrees" /\ AsksForWorking(a, r)
      BY <2>5 DEF AfterPrepare, AsksForWorking
    <3> QED
      BY <3>2, <3>3 DEF HoldsOn, InSession
  <2>6. CASE Answers(a, r) /\ Commit(a, r, Head(down[r]))
    <3>1. Runs(a, Head(down[r]).mode, runtime[a].handler)
      BY <2>6 DEF Commit
    <3>2. /\ runtime'[a].at = "running" /\ runtime'[a].handler = runtime[a].handler
          /\ runtime'[a].session = runtime[a].session
      BY <1>1, <3>1 DEF Runs, Process
    <3> QED
      BY <3>2 DEF HoldsOn, InSession
  <2>7. CASE ReaderEnds(a, r)
    BY <1>2, <2>7 DEF ReaderEnds
  <2> QED
    BY <1>3, <2>1, <2>2, <2>3, <2>4, <2>5, <2>6, <2>7 DEF ClientStep, Answers
<1>4. ASSUME NEW b \in App, NEW r \in Session, ClientStep(b, r), b # a
      PROVE  Good
  BY <1>1, <1>2, <1>4, ProcessStepIsOwn DEF ProcessStep
<1>5. ASSUME NEW r \in Session, ServerStep(r)
      PROVE  Good
  BY <1>2, <1>5 DEF ServerStep
<1> QED
  BY <1>2, <1>3, <1>4, <1>5 DEF Regular, SystemStep, Monitor, Command, systemVars, clientVars

\* A process that agrees to everything, with SAM's side of its connections.
Stays(a) ==
  /\ runtime[a].at # "off" /\ runtime[a].handler = "agrees"
  /\ Kept(a)
  /\ \A s \in Session : Faithful(a, s)

\* Nothing that SAM has still to read is torn.
Torn == {Fragment}

Unharmed == \A s \in Session : Free(up[s], Torn)

LEMMA UnharmedInStep ==
  ASSUME YInv, Unharmed, NEW s \in Session
  PROVE  ~OutOfStep(s)
BY QueueElements DEF Unharmed, Torn, Free, OutOfStep, YInv, ChannelsTypeOK

LEMMA StaysOn ==
  ASSUME CInv, OrdersTrue, Unharmed, Regular, NEW a \in App, Stays(a)
  PROVE  Stays(a)'
<1>1. Willing(a) /\ runtime[a].handler = "agrees" /\ runtime[a].at # "off"
  BY DEF Stays, Willing, Prepares
<1>2. /\ \A s \in Session : HoldsOn(a, s)
      /\ runtime'[a].at # "off" /\ runtime'[a].handler = "agrees"
  BY <1>1, RegularHoldsOn
<1>3. [SystemNext]_systemVars
  BY RegularIsSystems
<1>4. \A s \in Session : Faithful(a, s)'
  BY <1>2, <1>3, FaithfulLasts, UnharmedInStep DEF Stays, CInv
<1>5. Kept(a)'
  BY <1>3, KeptLasts DEF Stays, Faithful
<1> QED
  BY <1>2, <1>4, <1>5 DEF Stays

-----------------------------------------------------------------------------
\* The scripts, line by line

LEMMA DemoLines ==
  /\ Len(Demo) = 7
  /\ Demo[1] = Until("applications")
  /\ Demo[2] = Request("Standby") /\ Demo[3] = Reached("Standby")
  /\ Demo[4] = Request("Working") /\ Demo[5] = Reached("Working")
  /\ Demo[6] = Request("Standby") /\ Demo[7] = Reached("Standby")
BY DEF Demo

LEMMA ShowcaseLines ==
  /\ Len(Showcase) = 14
  /\ Showcase[1] = Until("applications")
  /\ Showcase[2] = Request("Standby") /\ Showcase[3] = Reached("Standby")
  /\ Showcase[4] = Until("absent") /\ Showcase[5] = HealthIs("Failed")
  /\ Showcase[6] = Until("recovered") /\ Showcase[7] = HealthIs("Healthy")
  /\ Showcase[8] = RequestRefused("Working")
  /\ Showcase[9] = Until("settled") /\ Showcase[10] = Until("unchanged")
  /\ Showcase[11] = Request("Working") /\ Showcase[12] = Reached("Working")
  /\ Showcase[13] = Request("Standby") /\ Showcase[14] = Reached("Standby")
BY DEF Showcase

LEMMA Words ==
  /\ \A m : /\ Request(m).do = "request" /\ Request(m).mode = m
            /\ RequestRefused(m).do = "requestRefused" /\ RequestRefused(m).mode = m
            /\ Reached(m).do = "reached" /\ Reached(m).mode = m
  /\ \A h : HealthIs(h).do = "health"
  /\ \A what : Until(what).do = what
BY DEF Request, RequestRefused, Reached, HealthIs, Until

\* A request is followed by the poll for what it asks for.
Follows(instructions, n) ==
  LET i == instructions[n]
      next == instructions[n + 1]
  IN  /\ i.do = "request" => /\ n + 1 <= Len(instructions)
                             /\ next.do = "reached" /\ next.mode = i.mode
                             /\ i.mode \in {"Standby", "Working"}
      /\ i.do = "reached" => i.mode \in {"Standby", "Working"}

LEMMA DemoFollows ==
  ASSUME NEW n \in 1 .. Len(Demo)
  PROVE  Follows(Demo, n) /\ Demo[n].do \notin {"requestRefused", "unchanged", "settled"}
<1>1. n \in {1, 2, 3, 4, 5, 6, 7}
  BY DemoLines
<1>2. CASE n \in {1, 2, 3}
  BY <1>2, DemoLines, Words DEF Follows
<1>3. CASE n \in {4, 5, 6, 7}
  BY <1>3, DemoLines, Words DEF Follows
<1> QED
  BY <1>1, <1>2, <1>3

LEMMA ShowcaseFollows ==
  ASSUME NEW n \in 1 .. Len(Showcase)
  PROVE  /\ Follows(Showcase, n)
         /\ Showcase[n].do = "requestRefused" => n = 8
         /\ Showcase[n].do = "settled" => n = 9
         /\ Showcase[n].do = "unchanged" => n = 10
         /\ Showcase[n].do = "request" => n \in {2, 11, 13}
         /\ Showcase[n].do = "reached" /\ n < 12 => n = 3
<1>1. n \in {1, 2, 3, 4, 5, 6, 7, 8, 9, 10, 11, 12, 13, 14}
  BY ShowcaseLines
<1>2. CASE n \in {1, 2, 3, 4}
  BY <1>2, ShowcaseLines, Words DEF Follows
<1>3. CASE n \in {5, 6, 7, 8}
  BY <1>3, ShowcaseLines, Words DEF Follows
<1>4. CASE n \in {9, 10, 11}
  BY <1>4, ShowcaseLines, Words DEF Follows
<1>5. CASE n \in {12, 13, 14}
  BY <1>5, ShowcaseLines, Words DEF Follows
<1> QED
  BY <1>1, <1>2, <1>3, <1>4, <1>5

LEMMA LinesFollow ==
  ASSUME NEW n \in 1 .. Len(Instructions)
  PROVE  /\ Follows(Instructions, n) /\ Len(Instructions) \in Nat
         /\ n = 1 => Instructions[n].do = "applications"
         /\ Instructions[n].do = "requestRefused" => script = "showcase" /\ n = 8
         /\ Instructions[n].do = "unchanged" => script = "showcase" /\ n = 10
<1>1. CASE script = "showcase"
  <2>1. Instructions = Showcase
    BY <1>1 DEF Instructions
  <2>2. Len(Showcase) \in Nat /\ Showcase[1].do = "applications"
    BY ShowcaseLines, Words
  <2> QED
    BY <1>1, <2>1, <2>2, ShowcaseFollows
<1>2. CASE script # "showcase"
  <2>1. Instructions = Demo
    BY <1>2 DEF Instructions
  <2>2. Len(Demo) \in Nat /\ Demo[1].do = "applications"
    BY DemoLines, Words
  <2> QED
    BY <2>1, <2>2, DemoFollows
<1> QED
  BY <1>1, <1>2

-----------------------------------------------------------------------------
\* The scripts, step by step

\* Whoever is not telemetry is there for good.
OthersStay ==
  script # "console" =>
    /\ Unharmed
    /\ \A a \in App \ {Telemetry} : Stays(a) /\ (line >= 2 => a \in Known)

\* What the script has read before it requests.
HasChecked ==
  /\ line <= Len(Instructions) /\ original = systemMode
  /\ Now.do = "requestRefused" \/ (Now.do = "request" /\ systemMode # Now.mode)

\* A round is open only while its script waits for its end.
DriverInv ==
  /\ line \in Nat \ {0} /\ cuts \in Nat
  /\ script # "console" =>
       /\ outcome = "running" => line <= Len(Instructions)
       /\ line <= Len(Instructions) /\ phase # "Stable" =>
            Now.do = "settled" \/ (Now.do = "reached" /\ target = Now.mode)
       /\ checked => HasChecked
  /\ script = "showcase" =>
       /\ line \in 4 .. 8 => systemMode = "Standby"
       /\ line \in 9 .. 10 => original = "Standby"
       /\ line = 9 /\ phase # "Stable" => target = "Working"

\* As long as no frame is lost, nothing goes wrong.
InTurn ==
  /\ outcome # "failed"
  /\ script = "showcase" /\ line \in 9 .. 10 => systemMode = "Standby"

\* SAM and the processes go on.
Quiet ==
  /\ SystemStep \/ UNCHANGED systemVars
  /\ UNCHANGED <<line, outcome, checked, original, trouble, cuts>>

LEMMA ScriptSteps ==
  ASSUME [ExecutableNext]_allVars, script # "console", cuts \in Nat
  PROVE  /\ script' = script
         /\ \/ Quiet \/ PowerOff \/ PowerOn
            \/ outcome = "running" /\ DriverStep
            \/ LoseFrame /\ ~Intact'
<1>1. CASE UNCHANGED allVars
  BY <1>1 DEF allVars, driverVars, Quiet
<1>2. CASE While(DriverStep)
  BY <1>2 DEF While, DriverStep
<1>3. CASE While(PowerOff) \/ While(PowerOn)
  BY <1>3 DEF While, PowerOff, PowerOn
<1>4. CASE Alone(SystemStep)
  BY <1>4 DEF Alone, While, driverVars, Quiet
<1>5. CASE While(Operate) \/ While(Fail) \/ While(ComeBack)
  BY <1>5 DEF While, Operate, Fail, ComeBack
<1>6. CASE While(LoseFrame)
  BY <1>6 DEF While, LoseFrame, Intact
<1> QED
  BY <1>1, <1>2, <1>3, <1>4, <1>5, <1>6 DEF ExecutableNext

LEMMA ScriptIsFixed == [ExecutableNext]_allVars => UNCHANGED script
BY DEF ExecutableNext, Alone, While, DriverStep, Operate, Fail, ComeBack, PowerOff, PowerOn,
       LoseFrame, driverVars, allVars

LEMMA CutsAreCounted ==
  cuts \in Nat /\ [ExecutableNext]_allVars => cuts' \in Nat /\ (Intact' => Intact)
BY DEF ExecutableNext, Alone, While, DriverStep, Operate, Fail, ComeBack, PowerOff, PowerOn,
       LoseFrame, driverVars, allVars, Intact

\* A frame lost is nothing to the coordinator.
LEMMA LossIsOwn ==
  ASSUME LoseFrame
  PROVE  /\ UNCHANGED <<runtime, holder, applications, modeVars, systemMode>>
         /\ UNCHANGED <<script, line, outcome, checked, original, trouble>>
BY DEF LoseFrame, Cut, Cuts, Sends, Forward, Take, vars

\* SAM takes what the script requests.
LEMMA RequestIsTaken ==
  ASSUME SInv, OthersStay, DriverInv, script # "console", outcome = "running", checked
  PROVE  Modes!AcceptsRequest(Now.mode, Connected)
<1>1. line \in 1 .. Len(Instructions)
  <2>1. line \in Nat \ {0} /\ line <= Len(Instructions)
    BY DEF DriverInv
  <2>2. Len(Instructions) \in Nat
    BY DemoLines, ShowcaseLines DEF Instructions
  <2> QED
    BY <2>1, <2>2
<1>2. HasChecked
  BY DEF DriverInv
<1>3. line # 1 /\ (Now.do = "requestRefused" => script = "showcase" /\ line = 8)
  BY <1>1, <1>2, LinesFollow DEF Now, HasChecked
<1>4. phase = "Stable"
  BY <1>1, <1>2 DEF DriverInv, HasChecked
<1>5. Connected # {}
  <2>1. PICK a \in App : a # Telemetry
    BY ExecutableAssumption
  <2>2. a \in Known /\ Kept(a)
    BY <1>1, <1>3, <2>1 DEF OthersStay, Stays
  <2> QED
    BY <2>2 DEF Kept
<1>6. Now.mode # systemMode
  <2>1. CASE Now.do = "requestRefused"
    <3>1. Now = RequestRefused("Working") /\ systemMode = "Standby"
      BY <1>3, <2>1, ShowcaseLines DEF Now, Instructions, DriverInv
    <3> QED
      BY <3>1, Words
  <2> QED
    BY <1>2, <2>1 DEF HasChecked
<1> QED
  BY <1>4, <1>5, <1>6 DEF Modes!AcceptsRequest, SInv, Agreement, AuthoritativeModeAgrees

Stands == UNCHANGED <<systemVars, line, original>> /\ (checked' => checked)

Checks ==
  /\ UNCHANGED <<systemVars, line>> /\ original' = systemMode
  /\ Now.do = "requestRefused" \/ (Now.do = "request" /\ systemMode # Now.mode)

Passes == UNCHANGED <<systemVars, original>> /\ line' = line + 1 /\ ~checked'

Skips ==
  /\ Now.do = "request" /\ systemMode = Now.mode
  /\ UNCHANGED <<systemVars, original>> /\ line' = line + 2 /\ ~checked'

Requests == Command(Now.mode) /\ original' = systemMode /\ line' = line + 1 /\ ~checked'

LEMMA DriverMoves ==
  ASSUME DriverInv, script # "console", outcome = "running", DriverStep
  PROVE  /\ UNCHANGED <<script, trouble, cuts>>
         /\ outcome' = "running" => line' <= Len(Instructions)
         /\ outcome' = "failed" =>
              \/ checked /\ ~Modes!AcceptsRequest(Now.mode, Connected)
              \/ Now.do = "unchanged" /\ systemMode # original
         /\ line \in 1 .. Len(Instructions)
         /\ \/ Stands
            \/ Checks
            \/ Now.do \in Polls /\ Holds(Now) /\ Passes
            \/ Now.do = "unchanged" /\ systemMode = original /\ Passes
            \/ Skips
            \/ Now.do \in {"request", "requestRefused"} /\ phase = "Stable" /\ Requests
<1>1. line \in 1 .. Len(Instructions) /\ UNCHANGED <<script, trouble, cuts>>
        /\ (checked => HasChecked)
  <2>1. line \in Nat \ {0} /\ line <= Len(Instructions) /\ (checked => HasChecked)
    BY DEF DriverInv
  <2>2. Len(Instructions) \in Nat
    BY DemoLines, ShowcaseLines DEF Instructions
  <2> QED
    BY <2>1, <2>2 DEF DriverStep
<1>2. line + 1 \in Nat /\ line + 2 \in Nat /\ Len(Instructions) \in Nat
  BY <1>1, LinesFollow
<1>3. ASSUME NEW n \in Nat, Goto(n)
      PROVE  /\ outcome' # "failed" /\ line' = n
             /\ outcome' = "running" => line' <= Len(Instructions)
  BY <1>2, <1>3 DEF Goto
<1>4. CASE Poll
  <2>1. ~checked /\ UNCHANGED checked
    BY <1>1, <1>4 DEF Poll, Polls, HasChecked
  <2> QED
    BY <1>1, <1>2, <1>3, <1>4, <2>1 DEF Poll, Passes
<1>5. CASE GiveUp
  BY <1>1, <1>5 DEF GiveUp, Return, Stands
<1>6. CASE Skip
  BY <1>1, <1>2, <1>3, <1>6 DEF Skip, Skips
<1>7. CASE Check
  BY <1>1, <1>7 DEF Check, Checks
<1>8. CASE Issue
  <2>1. HasChecked /\ Now.do \in {"request", "requestRefused"}
    BY <1>1, <1>8 DEF Issue, HasChecked
  <2>2. CASE Command(Now.mode) /\ Goto(line + 1)
    <3>1. phase = "Stable"
      BY <2>2 DEF Command, RequestMode, Modes!RequestTransition, Modes!AcceptsRequest
    <3>2. Requests
      BY <1>2, <1>3, <1>8, <2>1, <2>2 DEF Issue, Requests, HasChecked
    <3> QED
      BY <1>1, <1>2, <1>3, <2>1, <2>2, <3>1, <3>2
  <2>3. CASE ~Modes!AcceptsRequest(Now.mode, Connected) /\ Return("failed") /\ UNCHANGED systemVars
    BY <1>1, <1>8, <2>3 DEF Issue, Return, Stands
  <2> QED
    BY <1>8, <2>2, <2>3 DEF Issue
<1>9. CASE Verify
  <2>1. ~checked /\ UNCHANGED checked
    BY <1>1, <1>9 DEF Verify, HasChecked
  <2>2. CASE systemMode = original
    BY <1>1, <1>2, <1>3, <1>9, <2>1, <2>2 DEF Verify, Passes
  <2>3. CASE systemMode # original
    BY <1>1, <1>9, <2>3 DEF Verify, Return, Stands
  <2> QED
    BY <2>2, <2>3
<1> QED
  BY <1>4, <1>5, <1>6, <1>7, <1>8, <1>9 DEF DriverStep

LEMMA PassesAreRegular ==
  ASSUME Quiet \/ Stands \/ Checks \/ Passes \/ Skips \/ Requests \/ UNCHANGED systemVars
  PROVE  Regular
<1>1. ASSUME NEW m, Command(m)
      PROVE  m \in SystemMode
  BY <1>1, BoundAssumption DEF Command
<1> QED
  BY <1>1 DEF Quiet, Stands, Checks, Passes, Skips, Requests, Regular

\* Only a command opens a round.
LEMMA NoRoundByItself ==
  ASSUME YInv, SystemStep \/ UNCHANGED systemVars, phase' # "Stable"
  PROVE  phase # "Stable" /\ UNCHANGED <<target, transitionId>>
<1>1. UNCHANGED nextTransitionId
  <2>1. ASSUME NEW s \in Session, ServerStep(s)
        PROVE  UNCHANGED nextTransitionId
    <3>1. CASE Handles(s)
      BY <3>1
         DEF Handles, HandleMessage, HandleHeartbeat, HandleModeReady, HandleModeRejected,
             HandleModeCommitted, Modes!ApplicationReady, Modes!ApplicationRejected,
             Modes!ApplicationCommitted, Modes!Settle, vars, modeVars
    <3>2. CASE Registers(s) \/ Misses(s) \/ Delivers(s) \/ Refuses(s) \/ SeesEnd(s) \/ Ends(s)
      BY <3>2
         DEF Registers, RegisterSession, Register, Misses, EndUnregistered, Delivers, Sends, Forward,
             Take, Refuses, SeesEnd, Break, Ends, Replaced, Teardown, Disconnect, vars, modeVars
    <3> QED
      BY <2>1, <3>1, <3>2 DEF ServerStep
  <2> QED
    BY <2>1 DEF SystemStep, ClientStep, Monitor, RefreshHealth, systemVars, serverVars, vars, modeVars
<1>2. [Next]_vars
  <2>1. [SystemNext]_systemVars
    BY DEF SystemNext
  <2> QED
    BY <2>1, NextIsServers, NextIsServices DEF YInv
<1>3. nextTransitionId \in Nat
  BY BoundAssumption DEF YInv, IdsInBound
<1> QED
  BY <1>1, <1>2, <1>3, RoundsAreNumbered

\* Only a frame lost tears what SAM reads.
LEMMA UnharmedLasts ==
  ASSUME CInv, Unharmed, Regular \/ UNCHANGED up
  PROVE  Unharmed'
<1>1. /\ up \in [Session -> Seq(ApplicationToSam)]
      /\ \A s \in Session : Free(up[s], Torn)
  BY DEF CInv, YInv, ChannelsTypeOK, Unharmed
<1> SUFFICES \A s \in Session : Free(up'[s], Torn)
  BY DEF Unharmed, Torn, Fragment
<1>2. CASE UNCHANGED up
  BY <1>1, <1>2
<1>3. ASSUME NEW s \in Session, NEW message, message.type # "Fragment", Write(s, message)
      PROVE  \A r \in Session : Free(up'[r], Torn)
  <2>1. message \notin Torn
    BY <1>3 DEF Torn, Fragment
  <2>2. Free(Append(up[s], message), Torn)
    BY <1>1, <2>1, FreeOfMore
  <2> QED
    BY <1>1, <1>2, <1>3, <2>2 DEF Write
<1>4. ASSUME NEW s \in Session, ServerStep(s)
      PROVE  \A r \in Session : Free(up'[r], Torn)
  <2>1. CASE Drained(s) /\ up[s] # << >>
    <3>1. Free(Tail(up[s]), Torn)
      BY <1>1, <2>1, ReportsRest
    <3> QED
      BY <1>1, <2>1, <3>1 DEF Drained
  <2>2. CASE Unread(s)
    BY <1>1, <2>2, FreeOfNone DEF Unread
  <2> QED
    BY <1>2, <1>4, <2>1, <2>2
       DEF ServerStep, Registers, Misses, Delivers, Handles, Refuses, SeesEnd, Ends
<1>5. ASSUME NEW a \in App, NEW s \in Session, ClientStep(a, s)
      PROVE  \A r \in Session : Free(up'[r], Torn)
  <2>1. CASE Connect(a, s)
    <3>1. Free(<<RegisterMessage(a)>>, Torn)
      BY DEF Free, RegisterMessage, Torn, Fragment
    <3> QED
      BY <1>1, <2>1, <3>1 DEF Connect
  <2>2. CASE Beats(a, s)
    BY <1>3, <2>2 DEF Beats, Heartbeat
  <2>3. CASE Answers(a, s)
    BY <1>2, <1>3, <2>3 DEF Answers, Prepare, Commit, ModeReady, ModeRejected, ModeCommitted
  <2>4. CASE \/ ReceivesRegistration(a, s) \/ RegistrationEnds(a, s) \/ SessionEnds(a, s)
             \/ ReaderEnds(a, s)
    BY <1>2, <2>4 DEF ReceivesRegistration, RegistrationEnds, SessionEnds, ReaderEnds
  <2> QED
    BY <1>5, <2>1, <2>2, <2>3, <2>4 DEF ClientStep
<1> QED
  BY <1>2, <1>4, <1>5 DEF Regular, SystemStep, Monitor, Command, systemVars, clientVars

-----------------------------------------------------------------------------
\* Telemetry, until it has refused

\* The showcase up to the end of the transition that is to be refused.
BeforeRefusal == script = "showcase" /\ (line <= 8 \/ (line = 9 /\ phase # "Stable"))

\* Requests for Working other than that of the round to be refused.
EarlyOrders ==
  {m \in SamToApplication :
     m.type = "PrepareMode" /\ m.mode = "Working" /\ ~(line = 9 /\ m.id = transitionId)}

\* Off and on again, with the interlock, which is used up in that round only.
Powered ==
  /\ trouble \in 0 .. 2
  /\ trouble = 0 => Stays(Telemetry)
  /\ trouble = 1 => runtime[Telemetry].at = "off"
  /\ trouble = 2 => /\ runtime[Telemetry].at # "off"
                    /\ \/ runtime[Telemetry].handler = "rejectsOnce"
                       \/ line = 9 /\ runtime[Telemetry].handler = "agrees"

\* A registration that the power cut left behind is the only thing SAM may yet
\* take for telemetry, and as long as it may, SAM has not seen telemetry go.
Leftover(s) == Awaits(Telemetry, s) /\ ~InSession(Telemetry, s)

NothingElse(s) == Kept(Telemetry) /\ \A r \in Session \ {s} : Faithful(Telemetry, r)

Returned ==
  /\ line <= 4 /\ trouble # 0 => \A s \in Session : Leftover(s) => NothingElse(s)
  /\ line >= 5 => trouble # 0 /\ \A s \in Session : Faithful(Telemetry, s)
  /\ line >= 7 => Telemetry \in Connected

IsReady(message) == message.type = "ModeReady" /\ message.id = transitionId

IsRejection(message) == message.type = "ModeRejected" /\ message.id = transitionId

NoReady(queue) == \A i \in 1 .. Len(queue) : ~IsReady(queue[i])

RejectsFirst(queue) ==
  \E j \in 1 .. Len(queue) : IsRejection(queue[j]) /\ \A i \in 1 .. j - 1 : ~IsReady(queue[i])

\* Telemetry has not agreed to the round, nor will it before it has refused.
Refusing(queue) ==
  IF runtime[Telemetry].handler = "rejectsOnce" THEN NoReady(queue) ELSE RejectsFirst(queue)

Refused ==
  /\ phase = "Preparing" /\ target = "Working" /\ Telemetry \in waitingFor
  /\ \A s \in Session : IsCurrent(s) /\ identity[s].app = Telemetry => Refusing(up[s])

TelemetryReturns ==
  BeforeRefusal =>
    /\ "Working" \notin decided
    /\ ServerFree(EarlyOrders) /\ DownFree(EarlyOrders)
    /\ Powered /\ Returned
    /\ line = 9 => Refused

-----------------------------------------------------------------------------
\* The script is in step with SAM.

LEMMA NextKeepsDriver ==
  ASSUME YInv, DriverInv, [ExecutableNext]_allVars
  PROVE  DriverInv'
<1>1. SInv /\ [Next]_vars /\ [SystemNext]_systemVars /\ cuts \in Nat /\ cuts' \in Nat
        /\ UNCHANGED script
  BY StepIsSystems, NextIsServers, NextIsServices, CutsAreCounted, ScriptIsFixed
     DEF YInv, VInv, DriverInv
<1>2. phase = "Stable" \/ target # systemMode
  BY <1>1 DEF SInv, Agreement, AuthoritativeModeAgrees, Manager!IInv, Manager!TransitionWellFormed
<1>3. CASE script = "console"
  <2>1. UNCHANGED <<script, line>>
    BY <1>3 DEF ExecutableNext, Alone, While, DriverStep, Active, Operate, Fail, ComeBack, PowerOff,
                PowerOn, LoseFrame, driverVars, allVars
  <2> QED
    BY <1>1, <1>3, <2>1 DEF DriverInv
<1>4. ASSUME script # "console", UNCHANGED <<line, outcome, checked, original>>,
             phase' # "Stable" => phase # "Stable" /\ target' = target
      PROVE  DriverInv'
  <2>1. ASSUME line <= Len(Instructions),
               \/ script = "showcase" /\ line \in 4 .. 8
               \/ checked
        PROVE  systemMode' = systemMode
    <3>1. Now.do \notin {"settled", "reached"} => phase = "Stable"
      BY <1>4, <2>1 DEF DriverInv
    <3>2. checked => Now.do \notin {"settled", "reached"}
      BY <1>4 DEF DriverInv, HasChecked
    <3>3. script = "showcase" /\ line \in 4 .. 8 => Now.do \notin {"settled", "reached"}
      <4> SUFFICES ASSUME script = "showcase", line \in 4 .. 8
                   PROVE  Now.do \notin {"settled", "reached"}
        OBVIOUS
      <4>1. line \in 1 .. Len(Showcase) /\ Now = Showcase[line]
        BY ShowcaseLines DEF Now, Instructions
      <4> QED
        BY <4>1, ShowcaseFollows
    <3> QED
      BY <1>1, <2>1, <3>1, <3>2, <3>3, ModeIsTargets
  <2>2. script = "showcase" /\ line \in 4 .. 8 => line <= Len(Instructions)
    BY ShowcaseLines DEF Instructions
  <2>3. Instructions' = Instructions /\ Now' = Now
    BY <1>1, <1>4 DEF Instructions, Now
  <2>4. checked => line <= Len(Instructions)
    BY <1>4 DEF DriverInv, HasChecked
  <2> QED
    BY <1>1, <1>4, <2>1, <2>2, <2>3, <2>4 DEF DriverInv, HasChecked
<1>5. CASE script # "console" /\ Quiet
  <2>1. phase' # "Stable" => phase # "Stable" /\ target' = target
    BY <1>5, NoRoundByItself DEF Quiet
  <2> QED
    BY <1>4, <1>5, <2>1 DEF Quiet
<1>6. CASE script # "console" /\ (PowerOff \/ PowerOn \/ LoseFrame)
  <2>1. UNCHANGED <<line, outcome, checked, original, phase, target>>
    BY <1>6, LossIsOwn DEF PowerOff, PowerOn, Crash, Launch, serverVars, vars, modeVars
  <2> QED
    BY <1>4, <1>6, <2>1
<1>7. CASE script # "console" /\ outcome = "running" /\ DriverStep
  <2>1. /\ outcome' = "running" => line' <= Len(Instructions)
        /\ line \in 1 .. Len(Instructions)
        /\ Follows(Instructions, line) /\ Len(Instructions) \in Nat
    BY <1>7, DriverMoves, LinesFollow
  <2>2. Instructions' = Instructions
    BY <1>1 DEF Instructions
  <2>3. ASSUME script = "showcase"
        PROVE  /\ Now = Showcase[line] /\ line \in 1 .. Len(Showcase) /\ Len(Showcase) = 14
               /\ Now.do = "requestRefused" => line = 8
               /\ Now.do = "settled" => line = 9
               /\ Now.do = "unchanged" => line = 10
               /\ Now.do = "request" => line \in {2, 11, 13}
               /\ Now.do = "reached" /\ line < 12 => line = 3
    <3>1. Instructions = Showcase
      BY <2>3 DEF Instructions
    <3> QED
      BY <2>1, <3>1, ShowcaseFollows, ShowcaseLines DEF Now
  <2>4. CASE Stands
    <3>1. UNCHANGED <<phase, target, systemMode>>
      BY <2>4 DEF Stands, systemVars, serverVars, vars, modeVars
    <3> QED
      BY <1>1, <2>1, <2>2, <2>4, <3>1 DEF DriverInv, Now, Stands, HasChecked
  <2>5. CASE Checks
    <3>1. UNCHANGED <<phase, target, systemMode, line>> /\ original' = systemMode
      BY <2>5 DEF Checks, systemVars, serverVars, vars, modeVars
    <3>2. script = "showcase" => line \notin 9 .. 10
      BY <2>3, <2>5 DEF Checks
    <3>3. HasChecked'
      BY <2>1, <2>2, <2>5, <3>1 DEF HasChecked, Checks, Now
    <3> QED
      BY <1>1, <2>1, <2>2, <2>5, <3>1, <3>2, <3>3 DEF DriverInv, Now
  <2>6. ASSUME line' \in Nat \ {0}, phase' = "Stable", ~checked',
               script = "showcase" => /\ line' \in 4 .. 8 => systemMode' = "Standby"
                                      /\ line' \in 9 .. 10 => original' = "Standby"
        PROVE  DriverInv'
    BY <1>1, <2>1, <2>2, <2>6 DEF DriverInv
  <2>7. CASE Now.do \in Polls /\ Holds(Now) /\ Passes
    <3>1. UNCHANGED <<phase, systemMode, original>> /\ line' = line + 1 /\ ~checked'
      BY <2>7 DEF Passes, systemVars, serverVars, vars, modeVars
    <3>2. phase = "Stable"
      <4>1. Now.do = "settled" => phase = "Stable"
        BY <2>7 DEF Holds
      <4>2. Now.do = "reached" => systemMode = Now.mode
        BY <2>7 DEF Holds
      <4> QED
        BY <1>2, <1>7, <2>1, <4>1, <4>2 DEF DriverInv
    <3>3. ASSUME script = "showcase", line' \in 4 .. 10
          PROVE  line # 8 /\ (line' \in 4 .. 8 => systemMode' = "Standby")
      <4>1. line \in 3 .. 9 /\ line # 8
        <5>1. line = 8 => Now.do = "requestRefused"
          BY <2>3, <3>3, ShowcaseLines, Words
        <5> QED
          BY <2>1, <2>7, <3>1, <3>3, <5>1 DEF Polls
      <4>2. line = 3 => systemMode = "Standby"
        <5>1. line = 3 => Now.do = "reached" /\ Now.mode = "Standby"
          BY <2>3, <3>3, ShowcaseLines, Words
        <5> QED
          BY <2>7, <5>1 DEF Holds
      <4> QED
        BY <3>1, <3>3, <4>1, <4>2 DEF DriverInv
    <3>4. script = "showcase" /\ line' \in 9 .. 10 => original' = "Standby"
      BY <2>1, <3>1, <3>3 DEF DriverInv
    <3> QED
      BY <2>1, <2>6, <3>1, <3>2, <3>3, <3>4
  <2>8. CASE Now.do = "unchanged" /\ Passes
    <3>1. script = "showcase" /\ line' = 11 /\ ~checked'
      BY <2>1, <2>3, <2>8, LinesFollow DEF Now, Passes
    <3>2. phase = "Stable" /\ phase' = phase
      BY <1>7, <2>1, <2>8 DEF DriverInv, Passes, systemVars, serverVars, vars, modeVars
    <3> QED
      BY <2>6, <3>1, <3>2
  <2>9. CASE Skips
    <3>1. phase = "Stable" /\ UNCHANGED <<phase, systemMode>> /\ line' = line + 2 /\ ~checked'
      BY <1>7, <2>1, <2>9 DEF DriverInv, Skips, systemVars, serverVars, vars, modeVars
    <3>2. ASSUME script = "showcase", line' \in 4 .. 10
          PROVE  systemMode' = "Standby" /\ line' \notin 9 .. 10
      <4>1. line = 2
        BY <2>3, <2>9, <3>1, <3>2 DEF Skips
      <4>2. Now.mode = "Standby"
        BY <2>3, <3>2, <4>1, ShowcaseLines, Words
      <4> QED
        BY <2>9, <3>1, <4>1, <4>2 DEF Skips
    <3> QED
      BY <2>1, <2>6, <3>1, <3>2
  <2>10. CASE Now.do \in {"request", "requestRefused"} /\ phase = "Stable" /\ Requests
    <3>1. /\ target' = Now.mode /\ line' = line + 1 /\ original' = systemMode /\ ~checked'
          /\ UNCHANGED systemMode
      BY <2>10 DEF Requests, Command, RequestMode, Modes!RequestTransition
    <3>2. CASE Now.do = "request"
      <4>1. Now'.do = "reached" /\ Now'.mode = Now.mode
        BY <2>1, <2>2, <3>1, <3>2 DEF Now, Follows
      <4>2. script = "showcase" => line' \notin 4 .. 10
        BY <2>3, <3>1, <3>2
      <4> QED
        BY <1>1, <2>1, <2>2, <3>1, <4>1, <4>2 DEF DriverInv
    <3>3. CASE Now.do = "requestRefused"
      <4>1. script = "showcase" /\ line = 8 /\ line' = 9
        BY <2>1, <3>1, <3>3, LinesFollow DEF Now
      <4>2. Now'.do = "settled" /\ target' = "Working"
        <5>1. Now' = Showcase[9] /\ Now = Showcase[8]
          BY <1>1, <2>1, <4>1 DEF Now, Instructions
        <5> QED
          BY <3>1, <5>1, ShowcaseLines, Words
      <4>3. systemMode = "Standby"
        BY <4>1 DEF DriverInv
      <4> QED
        BY <1>1, <2>1, <2>2, <3>1, <4>1, <4>2, <4>3 DEF DriverInv
    <3> QED
      BY <2>10, <3>2, <3>3
  <2> QED
    BY <1>7, <2>4, <2>5, <2>7, <2>8, <2>9, <2>10, DriverMoves
<1> QED
  BY <1>1, <1>3, <1>5, <1>6, <1>7, ScriptSteps

\* No command is refused, and the refused mode is not reached.
LEMMA NextKeepsTurn ==
  ASSUME YInv, OthersStay, DriverInv, InTurn, TelemetryReturns, [ExecutableNext]_allVars, Intact'
  PROVE  InTurn'
<1>1. SInv /\ [Next]_vars /\ UNCHANGED script /\ cuts \in Nat /\ line \in Nat
  BY StepIsSystems, NextIsServers, NextIsServices, ScriptIsFixed DEF YInv, VInv, DriverInv
<1>2. CASE script = "console"
  <2>1. UNCHANGED outcome
    BY <1>2 DEF ExecutableNext, Alone, While, DriverStep, Active, Operate, Fail, ComeBack, PowerOff,
                PowerOn, LoseFrame, driverVars, allVars
  <2> QED
    BY <1>1, <1>2, <2>1 DEF InTurn
<1>3. ASSUME script = "showcase", line \in 9 .. 10, ~(phase = "Stable" /\ phase' # "Stable")
      PROVE  systemMode' = "Standby"
  <2>1. line = 10 => phase = "Stable"
    <3>1. Instructions = Showcase
      BY <1>3 DEF Instructions
    <3>2. line <= Len(Instructions)
      BY <1>3, <3>1, ShowcaseLines
    <3>3. line = 10 => Now.do = "unchanged"
      BY <3>1, ShowcaseLines, Words DEF Now
    <3> QED
      BY <1>3, <3>2, <3>3 DEF DriverInv
  <2>2. line = 9 => phase # "Committing"
    BY <1>3 DEF TelemetryReturns, BeforeRefusal, Refused
  <2> QED
    BY <1>1, <1>3, <2>1, <2>2, ModeIsTargets DEF InTurn
<1>4. CASE script # "console" /\ Quiet
  <2>1. phase' # "Stable" => phase # "Stable"
    BY <1>4, NoRoundByItself DEF Quiet
  <2> QED
    BY <1>1, <1>3, <1>4, <2>1 DEF InTurn, Quiet
<1>5. CASE script # "console" /\ (PowerOff \/ PowerOn)
  <2>1. UNCHANGED <<line, outcome, systemMode>>
    BY <1>5 DEF PowerOff, PowerOn, Crash, Launch, serverVars, vars
  <2> QED
    BY <1>1, <2>1 DEF InTurn
<1>6. CASE script # "console" /\ outcome = "running" /\ DriverStep
  <2>1. /\ outcome' = "failed" =>
             \/ checked /\ ~Modes!AcceptsRequest(Now.mode, Connected)
             \/ Now.do = "unchanged" /\ systemMode # original
        /\ line \in 1 .. Len(Instructions)
        /\ \/ Stands
           \/ Checks
           \/ Now.do \in Polls /\ Passes
           \/ Now.do = "unchanged" /\ Passes
           \/ Skips
           \/ Requests
    BY <1>6, DriverMoves
  <2>2. outcome' # "failed"
    <3>1. checked => Modes!AcceptsRequest(Now.mode, Connected)
      BY <1>1, <1>6, RequestIsTaken
    <3>2. Now.do = "unchanged" => script = "showcase" /\ line = 10
      BY <2>1, LinesFollow DEF Now
    <3> QED
      BY <2>1, <3>1, <3>2 DEF InTurn, DriverInv
  <2>3. UNCHANGED systemMode
    BY <2>1 DEF Stands, Checks, Passes, Skips, Requests, Command, RequestMode, systemVars, serverVars,
                vars
  <2>4. script = "showcase" /\ line' \in 9 .. 10 => line \in 8 .. 10
    <3> SUFFICES ASSUME script = "showcase", line' \in 9 .. 10
                 PROVE  line \in 8 .. 10
      OBVIOUS
    <3>1. Skips => line \in {2, 11, 13}
      <4>1. line \in 1 .. Len(Showcase) /\ Now = Showcase[line]
        BY <2>1 DEF Now, Instructions
      <4> QED
        BY <4>1, ShowcaseFollows DEF Skips
    <3> QED
      BY <1>1, <2>1, <3>1 DEF Stands, Checks, Passes, Skips, Requests
  <2> QED
    BY <1>1, <2>2, <2>3, <2>4 DEF InTurn, DriverInv
<1> QED
  BY <1>1, <1>2, <1>4, <1>5, <1>6, ScriptSteps

-----------------------------------------------------------------------------
\* The others

\* The power of one application is nothing to the others.
LEMMA PowerIsOwn ==
  ASSUME CInv, NEW b \in App, EndsProcess(b), UNCHANGED <<serverVars, up>>,
         NEW a \in App, a # b, Stays(a)
  PROVE  Stays(a)'
<1>1. ChannelsTypeOK /\ runtime'[a] = runtime[a]
  BY EndIsOwn DEF CInv, YInv
<1>2. /\ UNCHANGED <<stage, identity, clients, applications, up>>
      /\ \A s \in Session : InSession(a, s)' <=> InSession(a, s)
  BY <1>1 DEF serverVars, sessionVars, vars, InSession
<1>3. Kept(a)'
  BY <1>2 DEF Stays, Kept, Known, Connected
<1>4. \A s \in Session : Faithful(a, s)'
  BY <1>2 DEF Stays, Faithful, Awaits, IsCurrent, VerifyConnection, Registered, Connected
<1> QED
  BY <1>1, <1>3, <1>4 DEF Stays

LEMMA SwitchEndsProcess ==
  ASSUME PowerOff \/ PowerOn
  PROVE  /\ EndsProcess(Telemetry) /\ UNCHANGED <<serverVars, up, line, outcome, original>>
         /\ ~Quiet
BY DEF PowerOff, PowerOn, Crash, Launch, EndsProcess, Policy, Quiet

LEMMA NextKeepsOthers ==
  ASSUME CInv, OrdersTrue, OthersStay, DriverInv, [ExecutableNext]_allVars, Intact'
  PROVE  OthersStay'
<1>1. /\ YInv /\ SInv /\ [Next]_vars /\ [SystemNext]_systemVars
      /\ UNCHANGED script /\ cuts \in Nat /\ line \in Nat
  BY StepIsSystems, NextIsServers, NextIsServices, ScriptIsFixed DEF CInv, YInv, VInv, DriverInv
<1>2. CASE script = "console"
  BY <1>1, <1>2 DEF OthersStay
<1>3. CASE script # "console"
  <2>0. Unharmed'
    <3>1. (PowerOff \/ PowerOn) => UNCHANGED up
      BY SwitchEndsProcess
    <3>2. outcome = "running" /\ DriverStep => Regular
      BY <1>3, DriverMoves, PassesAreRegular
    <3>3. Regular \/ UNCHANGED up
      BY <1>1, <1>3, <3>1, <3>2, ScriptSteps, PassesAreRegular
    <3> QED
      BY <1>3, <3>3, UnharmedLasts DEF OthersStay
  <2> SUFFICES ASSUME NEW a \in App \ {Telemetry}
               PROVE  Stays(a)' /\ (line' >= 2 => a \in Known')
    BY <2>0 DEF OthersStay
  <2>1. Stays(a) /\ (line >= 2 => a \in Known) /\ Unharmed
    BY <1>3 DEF OthersStay
  <2>2. a \in Known => a \in Known'
    BY <1>1, KnownStay
  <2>3. CASE Quiet
    <3>1. Regular
      BY <2>3, PassesAreRegular
    <3> QED
      BY <2>1, <2>2, <2>3, <3>1, StaysOn DEF Quiet
  <2>4. CASE PowerOff \/ PowerOn
    <3>1. Stays(a)'
      BY <2>1, <2>4, SwitchEndsProcess, PowerIsOwn, ExecutableAssumption
    <3> QED
      BY <2>1, <2>2, <2>4, <3>1, SwitchEndsProcess
  <2>5. CASE outcome = "running" /\ DriverStep
    <3>1. Regular
      BY <1>1, <1>3, <2>5, DriverMoves, PassesAreRegular
    <3>2. line \in 1 .. Len(Instructions) /\ line \in Nat
      BY <1>1, <1>3, <2>5, DriverMoves DEF DriverInv
    <3>3. line' >= 2 => line >= 2 \/ a \in Known
      <4>1. CASE line = 1
        <5>1. Now.do = "applications"
          BY <3>2, <4>1, LinesFollow DEF Now
        <5>2. line' # line => Holds(Now)
          BY <1>1, <1>3, <2>5, <5>1, DriverMoves DEF Stands, Checks, Skips
        <5> QED
          BY <4>1, <5>1, <5>2 DEF Holds
      <4> QED
        BY <3>2, <4>1
    <3> QED
      BY <2>1, <2>2, <3>1, <3>3, StaysOn
  <2> QED
    BY <1>1, <1>3, <2>3, <2>4, <2>5, ScriptSteps
<1> QED
  BY <1>2, <1>3

-----------------------------------------------------------------------------
\* The round that telemetry refuses

\* A deadline passes, or the script finds what it waits for.
Reads ==
  /\ UNCHANGED <<systemVars, trouble>>
  /\ line' \in {line, line + 1, line + 2}
  /\ line' # line => line <= 7 /\ line' <= 8
  /\ line' # line /\ line' >= 5 => line' = line + 1 /\ Now.do \in Polls /\ Holds(Now)

LEMMA ShowcaseSteps ==
  ASSUME YInv, DriverInv, [ExecutableNext]_allVars, BeforeRefusal', Intact'
  PROVE  /\ BeforeRefusal /\ script = "showcase" /\ script' = "showcase" /\ line \in Nat
         /\ line = 9 => UNCHANGED <<line, transitionId>>
         /\ \/ Quiet
            \/ PowerOff \/ PowerOn
            \/ Reads
            \/ line = 2 /\ line' = 3 /\ Requests /\ UNCHANGED trouble
            \/ line = 8 /\ line' = 9 /\ phase = "Stable" /\ Command("Working") /\ UNCHANGED trouble
<1>1. /\ script = "showcase" /\ script' = "showcase" /\ SInv
      /\ line \in Nat \ {0} /\ cuts \in Nat
  BY ScriptIsFixed DEF BeforeRefusal, YInv, VInv, DriverInv
<1>2. line' <= 8 \/ (line' = 9 /\ phase' # "Stable")
  BY DEF BeforeRefusal
<1>3. CASE Quiet
  <2>1. line' = line /\ (phase' # "Stable" => phase # "Stable" /\ transitionId' = transitionId)
    BY <1>3, NoRoundByItself DEF Quiet
  <2> QED
    BY <1>1, <1>2, <1>3, <2>1 DEF BeforeRefusal
<1>4. CASE PowerOff \/ PowerOn
  <2>1. UNCHANGED <<line, phase, transitionId>>
    BY <1>4, SwitchEndsProcess DEF serverVars, vars, modeVars
  <2> QED
    BY <1>1, <1>2, <1>4, <2>1 DEF BeforeRefusal
<1>5. CASE outcome = "running" /\ DriverStep
  <2>1. Instructions = Showcase /\ line \in 1 .. Len(Showcase) /\ Len(Showcase) = 14 /\ UNCHANGED trouble
    BY <1>1, <1>5, DriverMoves, ShowcaseLines DEF Instructions
  <2>2. /\ Now.do = "requestRefused" => line = 8
        /\ Now.do = "settled" => line = 9
        /\ Now.do = "unchanged" => line = 10
        /\ Now.do = "request" => line \in {2, 11, 13}
        /\ Now = Showcase[line]
    BY <2>1, ShowcaseFollows DEF Now
  <2>3. CASE Stands \/ Checks
    <3>1. UNCHANGED <<systemVars, line, phase, transitionId>>
      BY <2>3 DEF Stands, Checks, systemVars, serverVars, vars, modeVars
    <3> QED
      BY <1>1, <1>2, <2>1, <3>1 DEF BeforeRefusal, Reads
  <2>4. CASE Now.do \in Polls /\ Holds(Now) /\ Passes
    <3>1. line # 8
      BY <2>2, <2>4, ShowcaseLines, Words DEF Polls
    <3> QED
      BY <1>1, <1>2, <2>1, <2>4, <3>1 DEF BeforeRefusal, Reads, Passes
  <2>5. CASE Now.do = "unchanged" /\ Passes
    BY <1>1, <1>2, <2>2, <2>5 DEF Passes
  <2>6. CASE Skips
    BY <1>1, <1>2, <2>1, <2>2, <2>6 DEF BeforeRefusal, Reads, Skips
  <2>7. CASE Now.do = "request" /\ Requests
    BY <1>1, <1>2, <2>1, <2>2, <2>7 DEF BeforeRefusal, Requests
  <2>8. CASE Now.do = "requestRefused" /\ phase = "Stable" /\ Requests
    <3>1. Now.mode = "Working"
      BY <2>2, <2>8, ShowcaseLines, Words
    <3> QED
      BY <1>1, <1>2, <2>1, <2>2, <2>8, <3>1 DEF BeforeRefusal, Requests
  <2> QED
    BY <1>1, <1>5, <2>3, <2>4, <2>5, <2>6, <2>7, <2>8, DriverMoves
<1> QED
  BY <1>1, <1>3, <1>4, <1>5, ScriptSteps

\* Working is asked for in one round only, and that is not decided.
LEMMA NextKeepsWorkingAway ==
  ASSUME CInv, EInv, DriverInv, DriverInv', TelemetryReturns,
         [ExecutableNext]_allVars, BeforeRefusal', line' = 9 => phase' = "Preparing", Intact'
  PROVE  "Working" \notin decided' /\ (ServerFree(EarlyOrders) /\ DownFree(EarlyOrders))'
<1>1. /\ YInv /\ VInv /\ SInv /\ [SystemNext]_systemVars /\ [ServerNext]_serverVars /\ [Next]_vars
      /\ BeforeRefusal /\ line \in Nat /\ line' \in Nat
  BY StepIsSystems, NextIsServers, NextIsServices, ShowcaseSteps DEF CInv, YInv, VInv, DriverInv
<1>2. SInv'
  BY <1>1, NextKeepsYInv DEF YInv, VInv
<1>3. phase' # "Stable" /\ line' # 9 => target' = "Standby"
  <2>1. Instructions' = Showcase /\ line' \in 1 .. Len(Showcase) /\ script' = "showcase"
          /\ line' <= 9
    <3>1. line' \in 1 .. 9 /\ script' = "showcase"
      BY <1>1 DEF BeforeRefusal, DriverInv
    <3> QED
      BY <3>1, ShowcaseLines DEF Instructions
  <2>2. phase' # "Stable" => Now'.do = "settled" \/ (Now'.do = "reached" /\ target' = Now'.mode)
    BY <2>1 DEF DriverInv
  <2>3. Now' = Showcase[line']
    BY <2>1 DEF Now
  <2>4. /\ Now'.do = "settled" => line' = 9
        /\ Now'.do = "reached" => line' = 3
    BY <2>1, <2>3, ShowcaseFollows
  <2> QED
    BY <2>2, <2>3, <2>4, ShowcaseLines, Words
<1>4. "Working" \notin decided'
  <2>1. "Working" \notin decided
    BY <1>1 DEF TelemetryReturns
  <2>2. phase' = "Committing" => target' # "Working"
    BY <1>3
  <2>3. CASE Remember
    BY <2>1, <2>2, <2>3 DEF Remember
  <2>4. CASE UNCHANGED allVars
    BY <2>1, <2>4 DEF allVars, historyVars
  <2> QED
    BY <2>3, <2>4 DEF ExecutableNext, Alone, While
<1>5. ASSUME NEW orders, orders = EarlyOrders'
      PROVE  ServerFree(orders)' /\ DownFree(orders)'
  <2>1. orders \subseteq EarlyOrders
    BY <1>1, <1>5, ShowcaseSteps DEF EarlyOrders
  <2>2. ServerFree(orders) /\ DownFree(orders)
    BY <1>1, <2>1, FreeOfFewer DEF TelemetryReturns
  <2>3. NeverPosted(orders)
    <3>1. \A m \in orders : m.type = "PrepareMode"
      BY <1>5 DEF EarlyOrders
    <3>2. phase' # "Stable" => RoundOrder' \notin orders
      <4>1. CASE line' = 9
        <5>1. RoundOrder'.id = transitionId'
          BY DEF RoundOrder, PrepareMode, CommitMode
        <5> QED
          BY <1>5, <4>1, <5>1 DEF EarlyOrders
      <4>2. CASE line' # 9
        <5>1. RoundOrder'.mode = target'
          BY DEF RoundOrder, PrepareMode, CommitMode
        <5> QED
          BY <1>3, <1>5, <4>2, <5>1 DEF EarlyOrders
      <4> QED
        BY <4>1, <4>2
    <3> QED
      BY <3>1, <3>2 DEF NeverPosted, RegisterAccepted
  <2> QED
    BY <1>1, <2>2, <2>3, ServerKeepsFree, DownKeepsFree
<1> QED
  BY <1>4, <1>5

-----------------------------------------------------------------------------
\* Telemetry's power

LEMMA OffStaysOff ==
  ASSUME CInv, Regular, NEW a \in App, runtime[a].at = "off"
  PROVE  runtime'[a] = runtime[a]
<1>1. YInv
  BY DEF CInv
<1>2. ASSUME NEW r \in Session, ClientStep(a, r)
      PROVE  runtime'[a] = runtime[a]
  BY <1>2 DEF ClientStep, Connect, ReceivesRegistration, RegistrationEnds, Beats, Answers, SessionEnds,
              ReaderEnds, InSession, Running
<1>3. ASSUME NEW b \in App, NEW r \in Session, ClientStep(b, r), b # a
      PROVE  runtime'[a] = runtime[a]
  BY <1>1, <1>3, ProcessStepIsOwn DEF ProcessStep
<1> QED
  BY <1>2, <1>3 DEF Regular, SystemStep, ServerStep, Monitor, Command, systemVars, clientVars

\* The interlock is used up by the request of the round to be refused.
LEMMA TelemetryGoesOn ==
  ASSUME CInv, EInv, Regular, TelemetryReturns, BeforeRefusal
  PROVE  /\ \A s \in Session : HoldsOn(Telemetry, s)
         /\ runtime[Telemetry].at = "off" => runtime'[Telemetry].at = "off"
         /\ runtime[Telemetry].at # "off" => runtime'[Telemetry].at # "off"
         /\ trouble = 2 =>
              \/ runtime'[Telemetry].handler = runtime[Telemetry].handler
              \/ line = 9 /\ runtime'[Telemetry].handler = "agrees"
<1>1. /\ Powered /\ Telemetry \in App /\ YInv
      /\ \A s \in Session : down[s] \in Seq(SamToApplication)
  BY ExecutableAssumption DEF TelemetryReturns, CInv, YInv, ChannelsTypeOK
<1>2. CASE runtime[Telemetry].at = "off"
  <2>1. runtime'[Telemetry] = runtime[Telemetry]
    BY <1>1, <1>2, OffStaysOff
  <2> QED
    BY <1>2, <2>1 DEF HoldsOn, InSession
<1>3. CASE runtime[Telemetry].at # "off"
  <2>1. runtime[Telemetry].handler \in {"agrees", "rejectsOnce"}
    BY <1>1, <1>3 DEF Powered, Stays
  <2>2. Willing(Telemetry)
    <3> SUFFICES ASSUME NEW s \in Session, down[s] # << >>, Head(down[s]).type = "RegisterAccepted"
                 PROVE  Head(down[s]).mode # "Working"
      BY DEF Willing, Prepares
    <3>1. Head(down[s]) \in SamToApplication /\ Head(down[s]) \notin Unagreed(decided)
      BY <1>1, QueueRest, FreeOfRest DEF EInv, DownFree
    <3>2. Head(down[s]).mode \in decided
      BY <3>1 DEF Unagreed
    <3> QED
      BY <3>2 DEF TelemetryReturns
  <2>3. ASSUME NEW s \in Session, AsksForWorking(Telemetry, s)
        PROVE  line = 9
    <3>1. /\ down[s] # << >> /\ Head(down[s]).type = "PrepareMode" /\ Head(down[s]).mode = "Working"
      BY <2>3 DEF AsksForWorking, Answers, Prepare
    <3>2. Head(down[s]) \in SamToApplication /\ Head(down[s]) \notin EarlyOrders
      BY <1>1, <3>1, QueueRest, FreeOfRest DEF TelemetryReturns, DownFree
    <3> QED
      BY <3>1, <3>2 DEF EarlyOrders
  <2> QED
    BY <1>1, <1>3, <2>1, <2>2, <2>3, RegularHoldsOn
<1> QED
  BY <1>2, <1>3

LEMMA PowerTelemetry ==
  ASSUME CInv, PowerOff \/ PowerOn
  PROVE  /\ \A s \in Session : ~InSession(Telemetry, s)'
         /\ PowerOff => trouble = 0 /\ trouble' = 1 /\ runtime'[Telemetry].at = "off"
         /\ PowerOn => /\ trouble = 1 /\ trouble' = 2 /\ runtime'[Telemetry].at = "idle"
                       /\ runtime'[Telemetry].handler = "rejectsOnce"
<1>1. runtime \in [App -> Process] /\ Telemetry \in App
  BY ExecutableAssumption DEF CInv, YInv, ChannelsTypeOK
<1>2. CASE PowerOff
  <2>1. trouble = 0 /\ trouble' = 1 /\ Becomes(Telemetry, NotStarted)
    BY <1>2 DEF PowerOff, Crash
  <2>2. runtime'[Telemetry] = NotStarted
    BY <1>1, <2>1 DEF Becomes
  <2>3. NotStarted.at = "off"
    BY DEF NotStarted, Started
  <2> QED
    BY <2>1, <2>2, <2>3 DEF InSession, PowerOn
<1>3. CASE PowerOn
  <2>1. trouble = 1 /\ trouble' = 2 /\ Becomes(Telemetry, Started("rejectsOnce"))
    BY <1>3 DEF PowerOn, Launch
  <2>2. runtime'[Telemetry] = Started("rejectsOnce")
    BY <1>1, <2>1 DEF Becomes
  <2>3. Started("rejectsOnce").at = "idle" /\ Started("rejectsOnce").handler = "rejectsOnce"
    BY DEF Started
  <2> QED
    BY <2>1, <2>2, <2>3 DEF InSession, PowerOff
<1> QED
  BY <1>2, <1>3

LEMMA NextKeepsPowered ==
  ASSUME CInv, EInv, OrdersTrue, OthersStay, DriverInv, TelemetryReturns,
         [ExecutableNext]_allVars, BeforeRefusal', Intact'
  PROVE  Powered'
<1>1. /\ Telemetry \in App /\ YInv /\ Powered /\ Returned /\ BeforeRefusal /\ line \in Nat
      /\ Unharmed
  BY ExecutableAssumption, ShowcaseSteps DEF CInv, TelemetryReturns, OthersStay
<1>2. ASSUME Regular, trouble' = trouble, line = 9 => line' = 9
      PROVE  Powered'
  <2>1. trouble = 0 => Stays(Telemetry)'
    BY <1>1, <1>2, StaysOn DEF Powered
  <2> QED
    BY <1>1, <1>2, <2>1, TelemetryGoesOn DEF Powered
<1>3. CASE PowerOff \/ PowerOn
  BY <1>3, PowerTelemetry DEF Powered
<1>4. (Quiet \/ Reads \/ Requests \/ Command("Working")) => Regular
  BY PassesAreRegular DEF Reads, Regular, SystemMode
<1> QED
  BY <1>1, <1>2, <1>3, <1>4, ShowcaseSteps DEF Quiet, Reads

-----------------------------------------------------------------------------
\* Telemetry's connections

\* A cut or a launch leaves SAM's side of the connections as it is.
LEMMA SidesStay ==
  ASSUME UNCHANGED <<serverVars, up>>
  PROVE  /\ \A s : Awaits(Telemetry, s)' <=> Awaits(Telemetry, s)
         /\ \A s : (IsCurrent(s) /\ identity[s].app = Telemetry)' <=>
                     (IsCurrent(s) /\ identity[s].app = Telemetry)
         /\ Kept(Telemetry)' <=> Kept(Telemetry)
         /\ Connected' = Connected
<1>1. UNCHANGED <<stage, identity, clients, applications, up>>
  BY DEF serverVars, sessionVars, vars
<1> QED
  BY <1>1 DEF Awaits, Kept, Known, Connected, IsCurrent, VerifyConnection, Registered

\* Whoever is connected is in the session that SAM takes for its current one.
LEMMA ConnectedIsThere ==
  ASSUME YInv, NEW a \in Connected, \A s \in Session : Faithful(a, s)
  PROVE  \E s \in Session : IsCurrent(s) /\ identity[s].app = a /\ InSession(a, s)
<1>1. PICK s \in Session : /\ stage[s] \in {"registered", "closing"}
                           /\ identity[s].app = a /\ identity[s].id = clients[a].id
  BY DEF YInv, VInv, ConnectionsHaveSessions
<1>2. IsCurrent(s)
  BY <1>1 DEF IsCurrent, VerifyConnection, YInv, VInv, SessionsTypeOK
<1> QED
  BY <1>1, <1>2 DEF Faithful

\* As long as a registration from before the cut may come, nothing else does.
LEMMA LeftoverLasts ==
  ASSUME CInv, OrdersTrue, Unharmed, [SystemNext]_systemVars,
         \A s \in Session : HoldsOn(Telemetry, s),
         \A s \in Session : Leftover(s) => NothingElse(s),
         NEW s \in Session, Leftover(s)'
  PROVE  NothingElse(s)'
<1>1. Telemetry \in App /\ YInv /\ VInv
  BY ExecutableAssumption DEF CInv, YInv
<1>2. Awaits(Telemetry, s)
  BY <1>1, AwaitedBefore DEF Leftover
<1>3. Leftover(s)
  BY <1>2 DEF Leftover, HoldsOn, Awaits
<1>4. \A r \in Session \ {s} : Faithful(Telemetry, r)
  BY <1>3 DEF NothingElse
<1>5. \A r \in Session \ {s} : Faithful(Telemetry, r)'
  BY <1>1, <1>4, FaithfulLasts, UnharmedInStep
<1>6. s \notin Registered
  BY <1>1, <1>2 DEF Awaits, VInv, SessionsTypeOK
<1>7. Kept(Telemetry)'
  BY <1>3, <1>4, <1>6, KeptLasts DEF NothingElse, Faithful, IsCurrent
<1> QED
  BY <1>5, <1>7 DEF NothingElse

\* SAM has seen telemetry go: no session of before the cut is left, and no
\* registration from before it.
LEMMA AbsenceIsFinal ==
  ASSUME CInv, Powered, Returned, line = 4, Now.do \in Polls, Holds(Now), script = "showcase"
  PROVE  trouble # 0 /\ \A s \in Session : Faithful(Telemetry, s)
<1>1. Telemetry \in App /\ SInv
  BY ExecutableAssumption DEF CInv, YInv, VInv
<1>2. Now.do = "absent"
  BY ShowcaseLines, Words DEF Now, Instructions
<1>3. Telemetry \in Known /\ ~applications[Telemetry].connected
  BY <1>2 DEF Holds
<1>4. Telemetry \notin Connected
  BY <1>1, <1>3 DEF SInv, Agreement, ClientsAreConnected
<1>5. ~Kept(Telemetry)
  BY <1>3, <1>4 DEF Kept
<1>6. trouble # 0
  BY <1>5 DEF Powered, Stays
<1>7. \A s \in Session : ~Leftover(s)
  BY <1>5, <1>6 DEF Returned, NothingElse
<1> QED
  BY <1>4, <1>6, <1>7 DEF Faithful, Leftover, IsCurrent, VerifyConnection

LEMMA RecoveryIsSeen ==
  ASSUME SInv, line = 6, Now.do \in Polls, Holds(Now), script = "showcase"
  PROVE  Telemetry \in Connected
<1>1. Now.do = "recovered"
  BY ShowcaseLines, Words DEF Now, Instructions
<1>2. Telemetry \in Known /\ applications[Telemetry].connected
  BY <1>1 DEF Holds, Synchronized
<1> QED
  BY <1>2, ExecutableAssumption DEF SInv, Agreement, ClientsAreConnected

LEMMA NextKeepsReturned ==
  ASSUME CInv, EInv, OrdersTrue, OthersStay, DriverInv, TelemetryReturns,
         [ExecutableNext]_allVars, BeforeRefusal', Intact'
  PROVE  Returned'
<1>1. /\ Telemetry \in App /\ YInv /\ SInv /\ Powered /\ Returned /\ BeforeRefusal
      /\ script = "showcase" /\ line \in Nat /\ [SystemNext]_systemVars /\ Unharmed
  BY ExecutableAssumption, ShowcaseSteps, StepIsSystems
     DEF CInv, YInv, VInv, TelemetryReturns, OthersStay
<1>2. ASSUME Regular
      PROVE  /\ trouble # 0 /\ line <= 4 => \A s \in Session : (Leftover(s) => NothingElse(s))'
             /\ \A s \in Session : Faithful(Telemetry, s) => Faithful(Telemetry, s)'
             /\ line >= 7 => Telemetry \in Connected'
  <2>1. \A s \in Session : HoldsOn(Telemetry, s)
    BY <1>1, <1>2, TelemetryGoesOn
  <2>2. trouble # 0 /\ line <= 4 => \A s \in Session : (Leftover(s) => NothingElse(s))'
    BY <1>1, <2>1, LeftoverLasts DEF Returned
  <2>3. \A s \in Session : Faithful(Telemetry, s) => Faithful(Telemetry, s)'
    BY <1>1, <2>1, FaithfulLasts, UnharmedInStep
  <2>4. line >= 7 => Telemetry \in Connected'
    BY <1>1, ConnectionLasts DEF Returned, Faithful
  <2> QED
    BY <2>2, <2>3, <2>4
<1>3. ASSUME Regular, UNCHANGED <<line, trouble>>
      PROVE  Returned'
  BY <1>1, <1>2, <1>3 DEF Returned
<1>4. CASE Reads
  <2>1. Regular
    BY <1>4, PassesAreRegular DEF Reads
  <2>2. CASE line' # line /\ line' <= 4
    BY <1>1, <1>2, <1>4, <2>1, <2>2 DEF Returned, Reads
  <2>3. CASE line' # line /\ line' >= 5
    <3>1. line' = line + 1 /\ Now.do \in Polls /\ Holds(Now) /\ line <= 7 /\ trouble' = trouble
      BY <1>4, <2>3 DEF Reads
    <3>2. trouble # 0 /\ \A s \in Session : Faithful(Telemetry, s)
      BY <1>1, <2>3, <3>1, AbsenceIsFinal DEF Returned
    <3>3. line' >= 7 => Telemetry \in Connected'
      <4>1. line = 6 => Telemetry \in Connected
        BY <1>1, <3>1, RecoveryIsSeen
      <4>2. Connected' = Connected
        BY <1>4 DEF Reads, systemVars, serverVars, vars, Connected
      <4> QED
        BY <1>1, <1>2, <2>1, <3>1, <4>1, <4>2
    <3> QED
      BY <1>1, <1>2, <2>1, <2>3, <3>1, <3>2, <3>3 DEF Returned
  <2> QED
    BY <1>1, <1>3, <1>4, <2>1, <2>2, <2>3 DEF Reads
<1>5. CASE Requests /\ line = 2 /\ line' = 3 /\ UNCHANGED trouble
  BY <1>1, <1>2, <1>5, PassesAreRegular DEF Returned
<1>6. CASE Command("Working") /\ line = 8 /\ line' = 9 /\ UNCHANGED trouble
  BY <1>1, <1>2, <1>6 DEF Returned, Regular, SystemMode
<1>7. CASE PowerOff
  <2>1. UNCHANGED <<serverVars, up, line>> /\ trouble = 0 /\ trouble' = 1
          /\ \A s \in Session : ~InSession(Telemetry, s)'
    BY <1>1, <1>7, SwitchEndsProcess, PowerTelemetry
  <2>2. line <= 4 /\ Stays(Telemetry)
    BY <1>1, <2>1 DEF Returned, Powered
  <2>3. ASSUME NEW s \in Session, Leftover(s)'
        PROVE  NothingElse(s)'
    <3>1. InSession(Telemetry, s)
      BY <2>1, <2>2, <2>3, SidesStay DEF Leftover, Stays, Faithful
    <3>2. \A r \in Session \ {s} : ~InSession(Telemetry, r)
      BY <3>1 DEF InSession
    <3>3. \A r \in Session \ {s} : /\ ~Awaits(Telemetry, r)
                                   /\ ~(IsCurrent(r) /\ identity[r].app = Telemetry)
      BY <2>2, <3>2 DEF Stays, Faithful
    <3>4. \A r \in Session \ {s} : Faithful(Telemetry, r)'
      BY <2>1, <3>3, SidesStay DEF Faithful
    <3> QED
      BY <2>1, <2>2, <3>4, SidesStay DEF NothingElse, Stays
  <2> QED
    BY <1>1, <2>1, <2>2, <2>3 DEF Returned
<1>8. CASE PowerOn
  <2>1. /\ UNCHANGED <<serverVars, up, line>> /\ trouble = 1 /\ trouble' = 2
        /\ \A s \in Session : ~InSession(Telemetry, s)' /\ ~InSession(Telemetry, s)
    BY <1>1, <1>8, SwitchEndsProcess, PowerTelemetry DEF Powered, InSession
  <2>2. \A s \in Session : Faithful(Telemetry, s) => Faithful(Telemetry, s)'
    BY <2>1, SidesStay DEF Faithful
  <2>3. \A s \in Session : (Leftover(s) => NothingElse(s)) => (Leftover(s) => NothingElse(s))'
    BY <2>1, <2>2, SidesStay DEF Leftover, NothingElse
  <2> QED
    BY <1>1, <2>1, <2>2, <2>3, SidesStay DEF Returned
<1> QED
  BY <1>1, <1>3, <1>4, <1>5, <1>6, <1>7, <1>8, ShowcaseSteps, PassesAreRegular DEF Quiet

-----------------------------------------------------------------------------
\* The refusal

LEMMA RefusalRest ==
  ASSUME NEW queue \in Seq(ApplicationToSam), queue # << >>
  PROVE  /\ NoReady(queue) => NoReady(Tail(queue)) /\ ~IsReady(Head(queue))
         /\ RejectsFirst(queue) =>
              /\ ~IsReady(Head(queue))
              /\ IsRejection(Head(queue)) \/ RejectsFirst(Tail(queue))
<1>1. PICK n \in Nat : n = Len(queue)
  OBVIOUS
<1>2. /\ n > 0 /\ Head(queue) = queue[1] /\ Len(Tail(queue)) = n - 1
      /\ \A i \in 1 .. n - 1 : Tail(queue)[i] = queue[i + 1]
  BY <1>1, QueueElements
<1>3. NoReady(queue) => NoReady(Tail(queue)) /\ ~IsReady(Head(queue))
  BY <1>1, <1>2 DEF NoReady
<1>4. ASSUME RejectsFirst(queue), ~IsRejection(Head(queue))
      PROVE  ~IsReady(Head(queue)) /\ RejectsFirst(Tail(queue))
  <2>1. PICK j \in 1 .. n : IsRejection(queue[j]) /\ \A i \in 1 .. j - 1 : ~IsReady(queue[i])
    BY <1>1, <1>4 DEF RejectsFirst
  <2>2. j # 1
    BY <1>2, <1>4, <2>1
  <2>3. j - 1 \in 1 .. n - 1 /\ Tail(queue)[j - 1] = queue[j] /\ ~IsReady(queue[1])
    BY <1>2, <2>1, <2>2
  <2>4. ASSUME NEW i \in 1 .. (j - 1) - 1
        PROVE  ~IsReady(Tail(queue)[i])
    <3>1. Tail(queue)[i] = queue[i + 1] /\ i + 1 \in 1 .. j - 1
      BY <1>2, <2>1, <2>4
    <3> QED
      BY <2>1, <3>1
  <2> QED
    BY <1>2, <2>1, <2>3, <2>4 DEF RejectsFirst
<1>5. IsRejection(Head(queue)) => ~IsReady(Head(queue))
  BY DEF IsRejection, IsReady
<1> QED
  BY <1>3, <1>4, <1>5

LEMMA RefusalMore ==
  ASSUME NEW queue \in Seq(ApplicationToSam), NEW message
  PROVE  /\ NoReady(queue) /\ ~IsReady(message) => NoReady(Append(queue, message))
         /\ NoReady(queue) /\ IsRejection(message) => RejectsFirst(Append(queue, message))
         /\ RejectsFirst(queue) => RejectsFirst(Append(queue, message))
<1> DEFINE more == Append(queue, message)
<1>1. PICK n \in Nat : n = Len(queue)
  OBVIOUS
<1>2. Len(more) = n + 1 /\ (\A i \in 1 .. n : more[i] = queue[i]) /\ more[n + 1] = message
  BY <1>1, QueueElements
<1> HIDE DEF more
<1>3. NoReady(queue) /\ ~IsReady(message) => NoReady(more)
  BY <1>1, <1>2 DEF NoReady
<1>4. ASSUME NoReady(queue), IsRejection(message)
      PROVE  RejectsFirst(more)
  <2>1. n + 1 \in 1 .. Len(more) /\ IsRejection(more[n + 1])
    BY <1>2, <1>4
  <2>2. \A i \in 1 .. (n + 1) - 1 : ~IsReady(more[i])
    BY <1>1, <1>2, <1>4 DEF NoReady
  <2> QED
    BY <2>1, <2>2 DEF RejectsFirst
<1>5. ASSUME RejectsFirst(queue)
      PROVE  RejectsFirst(more)
  <2>1. PICK j \in 1 .. n : IsRejection(queue[j]) /\ \A i \in 1 .. j - 1 : ~IsReady(queue[i])
    BY <1>1, <1>5 DEF RejectsFirst
  <2>2. j \in 1 .. Len(more) /\ more[j] = queue[j] /\ \A i \in 1 .. j - 1 : more[i] = queue[i]
    BY <1>2, <2>1
  <2> QED
    BY <2>1, <2>2 DEF RejectsFirst
<1> QED
  BY <1>3, <1>4, <1>5 DEF more

\* Only its own answer takes an application out of those waited for.
LEMMA RoundWaits ==
  ASSUME YInv, SystemStep \/ UNCHANGED systemVars, phase = "Preparing", phase' # "Stable",
         NEW a \in waitingFor
  PROVE  \/ UNCHANGED <<phase, target, transitionId>> /\ a \in waitingFor'
         \/ \E s \in Session : Handles(s) /\ identity[s].app = a /\ IsReady(Head(up[s]))
<1> DEFINE Waits == UNCHANGED <<phase, target, transitionId>> /\ a \in waitingFor'
<1>1. ASSUME UNCHANGED modeVars
      PROVE  Waits
  BY <1>1 DEF modeVars
<1>2. ASSUME NEW s \in Session, Handles(s)
      PROVE  Waits \/ (identity[s].app = a /\ IsReady(Head(up[s])))
  <2> DEFINE message == Head(up[s])
             b == identity[s].app
  <2>1. HandleMessage(b, identity[s].id, message)
    BY <1>2 DEF Handles
  <2>2. CASE message.type = "ModeReady" /\ HandleModeReady(b, identity[s].id, message)
    <3>1. Modes!ApplicationReady(b, message.id)
      BY <2>2 DEF HandleModeReady
    <3>2. CASE b = a
      BY <2>2, <3>1, <3>2 DEF Modes!ApplicationReady, Modes!AcceptsReady, IsReady
    <3>3. CASE b # a
      BY <3>1, <3>3 DEF Modes!ApplicationReady
    <3> QED
      BY <3>2, <3>3
  <2>3. CASE message.type = "ModeRejected" /\ HandleModeRejected(b, identity[s].id, message)
    BY <2>3 DEF HandleModeRejected, Modes!ApplicationRejected, Modes!Settle
  <2>4. CASE HandleModeCommitted(b, identity[s].id, message, 0)
    BY <2>4 DEF HandleModeCommitted, Modes!ApplicationCommitted, Modes!AcceptsCommit
  <2>5. CASE HandleHeartbeat(b, identity[s].id, message, 0) \/ UNCHANGED vars
    BY <1>1, <2>5 DEF HandleHeartbeat, vars
  <2> QED
    BY <2>1, <2>2, <2>3, <2>4, <2>5 DEF HandleMessage
<1>3. ASSUME NEW s \in Session, ServerStep(s), ~Handles(s)
      PROVE  Waits
  BY <1>1, <1>3
     DEF ServerStep, Registers, RegisterSession, Register, Misses, EndUnregistered, Delivers, Sends,
         Forward, Take, Refuses, SeesEnd, Break, Ends, Replaced, Teardown, Disconnect, vars
<1>4. ASSUME ~ \E s \in Session : ServerStep(s)
      PROVE  Waits
  BY <1>1, <1>4 DEF SystemStep, ClientStep, Monitor, RefreshHealth, systemVars, serverVars, vars
<1> QED
  BY <1>2, <1>3, <1>4

\* What telemetry writes next does not undo the refusal, and SAM takes the
\* refusal for what it is.
LEMMA RefusalLasts ==
  ASSUME CInv, OrdersTrue, TelemetryReturns, BeforeRefusal, line = 9, [SystemNext]_systemVars,
         runtime[Telemetry].handler \in {"agrees", "rejectsOnce"},
         phase' # "Stable", UNCHANGED transitionId,
         NEW s \in Session, identity[s].app = Telemetry, Refusing(up[s]),
         InSession(Telemetry, s), InSession(Telemetry, s)',
         stage[s] = "registered", stage'[s] = "registered", ~OutOfStep(s), ~OutOfStep(s)'
  PROVE  /\ Handles(s) => ~IsReady(Head(up[s]))
         /\ Refusing(up[s])'
<1> DEFINE Was == runtime[Telemetry].handler
           Is == runtime'[Telemetry].handler
           StillRefuses(q) == IF Is = "rejectsOnce" THEN NoReady(q) ELSE RejectsFirst(q)
<1>1. /\ YInv /\ EndsOK /\ OneProcess /\ ChannelsTypeOK /\ Telemetry \in App
      /\ runtime \in [App -> Process] /\ up \in [Session -> Seq(ApplicationToSam)]
      /\ up[s] \in Seq(ApplicationToSam) /\ down[s] \in Seq(SamToApplication)
      /\ phase = "Preparing" /\ target = "Working" /\ Telemetry \in waitingFor
      /\ ~Deaf(s)
  BY ExecutableAssumption DEF CInv, YInv, ChannelsTypeOK, TelemetryReturns, Refused, Deaf
<1>2. IF Was = "rejectsOnce" THEN NoReady(up[s]) ELSE RejectsFirst(up[s])
  BY DEF Refusing
<1>3. up[s] # << >> => ~IsReady(Head(up[s]))
  BY <1>1, <1>2, RefusalRest
<1> SUFFICES Refusing(up[s])'
  BY <1>3 DEF Handles
<1>4. ASSUME StillRefuses(up'[s])
      PROVE  Refusing(up[s])'
  BY <1>4 DEF Refusing, NoReady, RejectsFirst, IsReady, IsRejection
<1>5. CASE up'[s] = up[s] /\ Is = Was
  BY <1>2, <1>4, <1>5
<1>6. ASSUME NEW message, up'[s] = Append(up[s], message),
             \/ Is = Was /\ ~IsReady(message)
             \/ Was = "rejectsOnce" /\ Is = "agrees" /\ IsRejection(message)
             \/ Was = "agrees" /\ Is = "agrees"
      PROVE  StillRefuses(up'[s])
  BY <1>1, <1>2, <1>6, RefusalMore
<1>7. CASE SessionStep(s)
  <2>1. ~Registers(s) /\ ~Cuts(s)
    BY <1>1, CutLeaves DEF Registers, RegisterSession, Move
  <2>2. (Delivers(s) \/ Handles(s)) /\ UNCHANGED runtime
    BY <1>1, <1>7, <2>1, SessionStepOwn
  <2>3. CASE Delivers(s)
    BY <1>5, <2>2, <2>3 DEF Delivers, Sends
  <2>4. CASE Handles(s)
    <3> DEFINE message == Head(up[s])
    <3>1. up[s] # << >> /\ up'[s] = Tail(up[s])
            /\ HandleMessage(Telemetry, identity[s].id, message)
      BY <1>1, <2>4 DEF Handles, Drained
    <3>2. ~IsRejection(message)
      <4> SUFFICES ASSUME IsRejection(message)
                   PROVE  phase' = "Stable"
        OBVIOUS
      <4>1. Accepts(Telemetry, message)
        BY <1>1 DEF Accepts, Modes!AcceptsRejection, IsRejection
      <4>2. HandleModeRejected(Telemetry, identity[s].id, message)
        BY <3>1, <4>1 DEF HandleMessage, IsLate, IsRejection
      <4> QED
        BY <4>2 DEF HandleModeRejected, Modes!ApplicationRejected, Modes!Settle
    <3>3. StillRefuses(up'[s])
      BY <1>1, <1>2, <2>2, <3>1, <3>2, RefusalRest
    <3> QED
      BY <1>4, <3>3
  <2> QED
    BY <2>2, <2>3, <2>4
<1>8. CASE Starts(Telemetry, s)
  <2>1. runtime'[Telemetry] = [[[[runtime[Telemetry] EXCEPT !.at = "running"]
          EXCEPT !.mode = Head(down[s]).mode] EXCEPT !.handler = Was] EXCEPT !.reported = FALSE]
          /\ UNCHANGED up
    BY <1>1, <1>8 DEF Starts, ReceivesRegistration, Runs
  <2>2. Is = Was
    BY <1>1, <2>1 DEF Process
  <2> QED
    BY <1>5, <2>1, <2>2
<1>9. CASE Beats(Telemetry, s)
  <2>1. runtime'[Telemetry] = [runtime[Telemetry] EXCEPT !.reported = TRUE]
    BY <1>1, <1>9 DEF Beats
  <2>2. Is = Was
    BY <1>1, <2>1 DEF Process
  <2>3. PICK h : up'[s] = Append(up[s], Heartbeat(Telemetry, h, runtime[Telemetry].mode))
    BY <1>1, <1>9 DEF Beats, Write
  <2>4. ~IsReady(Heartbeat(Telemetry, h, runtime[Telemetry].mode))
    BY DEF IsReady, Heartbeat
  <2> QED
    BY <1>4, <1>6, <2>2, <2>3, <2>4
<1>10. CASE Replies(Telemetry, s)
  <2> DEFINE order == Head(down[s])
  <2>1. down[s] # << >> /\ order \in SamToApplication /\ order \notin EarlyOrders /\ order \notin FalseOrders
    BY <1>1, <1>10, QueueRest, FreeOfRest DEF Replies, Answers, TelemetryReturns, OrdersTrue, DownFree
  <2>2. CASE Prepare(Telemetry, s, order)
    <3>1. runtime'[Telemetry] = [runtime[Telemetry] EXCEPT !.handler = AfterPrepare(Was, order.mode)]
      BY <1>1, <2>2 DEF Prepare
    <3>2. Is = AfterPrepare(Was, order.mode)
      BY <1>1, <3>1 DEF Process
    <3>3. up'[s] = Append(up[s], IF Prepares(Was, order.mode) THEN ModeReady(Telemetry, order.id)
                                                           ELSE ModeRejected(Telemetry, order.id))
      BY <1>1, <2>2 DEF Prepare, Write
    <3>4. CASE Was = "agrees"
      BY <1>4, <1>6, <3>2, <3>3, <3>4 DEF AfterPrepare
    <3>5. CASE Was = "rejectsOnce" /\ order.mode = "Working"
      <4>1. order.id = transitionId
        BY <2>1, <2>2, <3>5 DEF EarlyOrders, Prepare
      <4>2. IsRejection(ModeRejected(Telemetry, order.id))
        BY <4>1 DEF IsRejection, ModeRejected
      <4> QED
        BY <1>4, <1>6, <3>2, <3>3, <3>5, <4>2 DEF AfterPrepare, Prepares
    <3>6. CASE Was = "rejectsOnce" /\ order.mode # "Working"
      <4>1. order.id # transitionId
        BY <1>1, <2>1, <2>2, <3>6 DEF FalseOrders, Untrue, Prepare
      <4>2. ~IsReady(ModeReady(Telemetry, order.id))
        BY <4>1 DEF IsReady, ModeReady
      <4> QED
        BY <1>4, <1>6, <3>2, <3>3, <3>6, <4>2 DEF AfterPrepare, Prepares
    <3> QED
      BY <3>4, <3>5, <3>6
  <2>3. CASE Commits(Telemetry, s, order)
    <3>1. runtime'[Telemetry] = [[[[runtime[Telemetry] EXCEPT !.at = "running"]
            EXCEPT !.mode = order.mode] EXCEPT !.handler = Was] EXCEPT !.reported = FALSE]
      BY <1>1, <2>3 DEF Commits, Runs
    <3>2. Is = Was
      BY <1>1, <3>1 DEF Process
    <3>3. up'[s] = Append(up[s], ModeCommitted(Telemetry, order.id, order.mode))
      BY <1>1, <2>3 DEF Commits, Write
    <3>4. ~IsReady(ModeCommitted(Telemetry, order.id, order.mode))
      BY DEF IsReady, ModeCommitted
    <3> QED
      BY <1>4, <1>6, <3>2, <3>3, <3>4
  <2> QED
    BY <1>10, <2>2, <2>3 DEF Replies
<1>11. CASE runtime'[Telemetry] = runtime[Telemetry] /\ SameLines(s)
  BY <1>5, <1>11 DEF SameLines
<1> QED
  BY <1>1, <1>7, <1>8, <1>9, <1>10, <1>11, SessionGoesOn

\* Back on, with its interlock, by the time the round may begin.
LEMMA IsBackOn ==
  ASSUME YInv, Powered, Returned, line >= 7, line \in Nat
  PROVE  /\ trouble = 2
         /\ runtime[Telemetry].handler \in {"agrees", "rejectsOnce"}
         /\ line # 9 => runtime[Telemetry].handler = "rejectsOnce"
         /\ Telemetry \in Connected
         /\ \A s \in Session : Faithful(Telemetry, s)
         /\ \E s \in Session : /\ IsCurrent(s) /\ identity[s].app = Telemetry
                               /\ InSession(Telemetry, s) /\ stage[s] = "registered"
<1>1. /\ trouble # 0 /\ Telemetry \in Connected
      /\ \A s \in Session : Faithful(Telemetry, s)
  BY DEF Returned
<1>2. PICK s \in Session : IsCurrent(s) /\ identity[s].app = Telemetry /\ InSession(Telemetry, s)
  BY <1>1, ConnectedIsThere
<1>3. stage[s] = "registered"
  BY <1>1, <1>2 DEF Faithful
<1>4. runtime[Telemetry].at # "off"
  BY <1>2 DEF InSession
<1>5. trouble = 2
  BY <1>1, <1>4 DEF Powered
<1> QED
  BY <1>1, <1>2, <1>3, <1>5 DEF Powered

LEMMA RefusalBegins ==
  ASSUME YInv, OrdersTrue, Powered, Returned, line = 8, line' = 9, Command("Working")
  PROVE  Refused'
<1>1. /\ runtime[Telemetry].handler = "rejectsOnce" /\ Telemetry \in Connected
      /\ up \in [Session -> Seq(ApplicationToSam)]
      /\ nextTransitionId \in Nat
  BY IsBackOn, BoundAssumption DEF YInv, ChannelsTypeOK, IdsInBound
<1>2. /\ phase' = "Preparing" /\ target' = "Working" /\ waitingFor' = Connected
      /\ transitionId' = nextTransitionId
      /\ UNCHANGED <<up, runtime>>
  BY DEF Command, RequestMode, Modes!RequestTransition, clientVars
<1>3. ASSUME NEW s \in Session, NEW i \in 1 .. Len(up[s]), up[s][i].type = "ModeReady"
      PROVE  up[s][i].id # nextTransitionId
  <2>1. up[s][i] \in ApplicationToSam /\ up[s][i] \notin FalseReports
    BY <1>1 DEF OrdersTrue, Free
  <2>2. ~(up[s][i].id >= nextTransitionId)
    BY <1>3, <2>1 DEF FalseReports
  <2> QED
    BY <1>1, <2>2
<1>4. \A s \in Session : Refusing(up[s])'
  BY <1>1, <1>2, <1>3 DEF Refusing, NoReady, IsReady
<1> QED
  BY <1>1, <1>2, <1>4 DEF Refused

LEMMA NextKeepsRefused ==
  ASSUME CInv, EInv, OrdersTrue, OthersStay, DriverInv, TelemetryReturns,
         [ExecutableNext]_allVars, BeforeRefusal', line' = 9, Returned', Intact'
  PROVE  Refused'
<1>1. /\ YInv /\ Powered /\ Returned /\ BeforeRefusal /\ [SystemNext]_systemVars
      /\ Telemetry \in App /\ line \in Nat /\ phase' # "Stable"
      /\ \A s \in Session : Faithful(Telemetry, s)'
  BY ShowcaseSteps, StepIsSystems, ExecutableAssumption
     DEF CInv, TelemetryReturns, BeforeRefusal, Returned
<1>2. CASE line = 9 /\ (SystemStep \/ UNCHANGED systemVars)
  <2>0. \A s \in Session : ~OutOfStep(s) /\ ~OutOfStep(s)'
    <3>1. Unharmed /\ Regular
      BY <1>2, ShowcaseSteps DEF OthersStay, Regular, CInv
    <3>2. Unharmed' /\ YInv'
      BY <1>1, <3>1, UnharmedLasts, NextKeepsYInv
    <3>3. \A s \in Session : ~OutOfStep(s)'
      BY <3>2, QueueElements DEF Unharmed, Torn, Free, OutOfStep, YInv, ChannelsTypeOK
    <3> QED
      BY <1>1, <3>1, <3>3, UnharmedInStep
  <2>1. Refused /\ UNCHANGED transitionId
    BY <1>1, <1>2, ShowcaseSteps DEF TelemetryReturns
  <2>2. /\ runtime[Telemetry].handler \in {"agrees", "rejectsOnce"}
        /\ \A s \in Session : Faithful(Telemetry, s)
    BY <1>1, <1>2, IsBackOn
  <2>3. PICK r \in Session : /\ IsCurrent(r) /\ identity[r].app = Telemetry
                             /\ InSession(Telemetry, r) /\ stage[r] = "registered"
    BY <1>1, <1>2, IsBackOn
  <2>4. \A s \in Session : HoldsOn(Telemetry, s)
    <3>1. Regular
      BY <1>2 DEF Regular
    <3> QED
      BY <1>1, <3>1, TelemetryGoesOn
  <2>5. ASSUME NEW s \in Session, IsCurrent(s), identity[s].app = Telemetry,
               stage'[s] = "registered", InSession(Telemetry, s)'
        PROVE  /\ Handles(s) => ~IsReady(Head(up[s]))
               /\ Refusing(up[s])'
    <3>1. Refusing(up[s]) /\ InSession(Telemetry, s) /\ stage[s] = "registered"
      BY <2>1, <2>2, <2>5 DEF Refused, Faithful
    <3> QED
      BY <1>1, <1>2, <2>0, <2>1, <2>2, <2>5, <3>1, RefusalLasts
  <2>6. ASSUME NEW s \in Session, Handles(s), identity[s].app = Telemetry
        PROVE  ~IsReady(Head(up[s]))
    <3>1. IsCurrent(s) /\ UNCHANGED stage /\ stage[s] = "registered"
      BY <2>6 DEF Handles, IsError, sessionVars
    <3>2. InSession(Telemetry, s)'
      BY <2>2, <2>4, <2>6, <3>1 DEF Faithful, HoldsOn
    <3> QED
      BY <2>5, <2>6, <3>1, <3>2
  <2>7. UNCHANGED <<phase, target>> /\ Telemetry \in waitingFor'
    BY <1>1, <1>2, <2>1, <2>6, RoundWaits DEF Refused
  <2>8. ASSUME NEW s \in Session, IsCurrent(s)', identity'[s].app = Telemetry
        PROVE  Refusing(up[s])'
    <3>1. InSession(Telemetry, s)' /\ stage'[s] = "registered"
      BY <1>1, <2>8 DEF Faithful
    <3>2. ~Registers(s)
      <4>1. InSession(Telemetry, r)'
        BY <2>3, <2>4 DEF HoldsOn
      <4>2. r = s
        BY <3>1, <4>1 DEF InSession
      <4> QED
        BY <2>3, <4>2 DEF Registers, RegisterSession, Move
    <3>3. IsCurrent(s) /\ identity[s].app = Telemetry
      BY <1>1, <2>8, <3>2, CurrentOnce
    <3> QED
      BY <2>5, <3>1, <3>3
  <2> QED
    BY <2>1, <2>7, <2>8 DEF Refused
<1>3. ~(PowerOff \/ PowerOn)
  <2> SUFFICES ASSUME PowerOff \/ PowerOn
               PROVE  FALSE
    OBVIOUS
  <2>1. line = 9 /\ trouble \in {0, 1}
    BY SwitchEndsProcess, PowerTelemetry
  <2> QED
    BY <1>1, <2>1, IsBackOn
<1> QED
  BY <1>1, <1>2, <1>3, RefusalBegins, ShowcaseSteps DEF Quiet, Reads

-----------------------------------------------------------------------------
\* The scripts as a whole

\* As long as no frame is lost.
TInv ==
  /\ CInv /\ EInv /\ OrdersTrue /\ DriverInv
  /\ OthersStay /\ InTurn /\ TelemetryReturns

DInv ==
  /\ CInv /\ EInv /\ OrdersTrue /\ DriverInv
  /\ Intact => TInv

LEMMA InitDInv == ExecutableInit => DInv
<1> SUFFICES ASSUME ExecutableInit PROVE DInv
  OBVIOUS
<1>1. CInv /\ EInv /\ OrdersTrue
  BY InitCInv, InitEInv, InitOrders DEF ExecutableInit
<1>2. /\ \A s \in Session : stage[s] = "none" /\ up[s] = << >> /\ down[s] = << >>
      /\ phase = "Stable" /\ Known = {} /\ Connected = {} /\ Registered = {}
      /\ leftover = [s \in Session |-> << >>]
      /\ line = 1 /\ outcome = "running" /\ trouble = 0 /\ decided = {"Startup"}
      /\ cuts = 0 /\ checked = FALSE
  BY DEF ExecutableInit, SystemInit, ServerInit, Init, RegistryInit, Modes!New, Known, Connected,
         Registered
<1>3. ASSUME NEW a \in App, script # "console"
      PROVE  Stays(a)
  <2>1. runtime[a].handler = "agrees" /\ runtime[a].at # "off"
    <3>1. runtime[a] \in {Started(h) : h \in Policy}
      BY DEF ExecutableInit, SystemInit
    <3>2. runtime[a].at = "idle"
      BY <3>1 DEF Started
    <3>3. runtime[a].handler = "agrees"
      BY <1>3 DEF ExecutableInit
    <3> QED
      BY <3>2, <3>3
  <2>2. \A s \in Session : Faithful(a, s)
    BY <1>2 DEF Faithful, Awaits, IsCurrent
  <2> QED
    BY <1>2, <2>1, <2>2 DEF Stays, Kept
<1>4. OthersStay
  <2>0. Unharmed
    BY <1>2, FreeOfNone DEF Unharmed
  <2> SUFFICES ASSUME NEW a \in App, a # Telemetry, script # "console"
               PROVE  Stays(a) /\ (line >= 2 => a \in Known)
    BY <2>0 DEF OthersStay
  <2>1. Stays(a)
    BY <1>3
  <2>2. ~(line >= 2)
    BY <1>2
  <2> QED
    BY <2>1, <2>2
<1>5. DriverInv /\ InTurn
  <2>1. line <= Len(Instructions)
    <3>1. CASE script = "showcase"
      <4>1. Instructions = Showcase
        BY <3>1 DEF Instructions
      <4> QED
        BY <4>1, <1>2, ShowcaseLines
    <3>2. CASE script # "showcase"
      <4>1. Instructions = Demo
        BY <3>2 DEF Instructions
      <4> QED
        BY <4>1, <1>2, DemoLines
    <3> QED
      BY <3>1, <3>2
  <2>2. line \in Nat \ {0} /\ line \notin 4 .. 10 /\ line \notin 9 .. 10
    BY <1>2
  <2>3. phase = "Stable" /\ outcome # "failed" /\ cuts \in Nat /\ ~checked
    BY <1>2
  <2> QED
    BY <2>1, <2>2, <2>3 DEF DriverInv, InTurn
<1>6. TelemetryReturns
  <2>1. ServerFree(EarlyOrders) /\ DownFree(EarlyOrders)
    BY <1>2, FreeOfNone DEF ServerFree, ServiceFree, DownFree
  <2>2. script = "showcase" => Stays(Telemetry)
    BY <1>3, ExecutableAssumption
  <2> QED
    BY <1>2, <2>1, <2>2 DEF TelemetryReturns, BeforeRefusal, Powered, Returned
<1> QED
  BY <1>1, <1>4, <1>5, <1>6 DEF DInv, TInv

LEMMA NextKeepsTInv ==
  ASSUME TInv, [ExecutableNext]_allVars, Intact'
  PROVE  TInv'
<1>1. [SystemNext]_systemVars /\ CInv /\ YInv /\ EInv /\ OrdersTrue /\ DriverInv
        /\ OthersStay /\ InTurn /\ TelemetryReturns
  BY StepIsSystems DEF TInv, CInv
<1>2. CInv' /\ EInv' /\ OrdersTrue' /\ DriverInv' /\ OthersStay' /\ InTurn'
  BY <1>1, NextKeepsCInv, NextKeepsEInv, NextKeepsOrders, NextKeepsDriver, NextKeepsOthers,
     NextKeepsTurn
<1>3. ASSUME BeforeRefusal'
      PROVE  /\ Powered' /\ Returned' /\ (line' = 9 => Refused')
             /\ "Working" \notin decided' /\ (ServerFree(EarlyOrders) /\ DownFree(EarlyOrders))'
  <2>1. Powered' /\ Returned'
    BY <1>1, <1>3, NextKeepsPowered, NextKeepsReturned
  <2>2. line' = 9 => Refused'
    BY <1>1, <1>3, <2>1, NextKeepsRefused
  <2>3. line' = 9 => phase' = "Preparing"
    BY <2>2 DEF Refused
  <2> QED
    BY <1>1, <1>2, <1>3, <2>1, <2>2, <2>3, NextKeepsWorkingAway
<1>4. TelemetryReturns'
  BY <1>3 DEF TelemetryReturns
<1> QED
  BY <1>2, <1>4 DEF TInv

LEMMA NextKeepsDInv == DInv /\ [ExecutableNext]_allVars => DInv'
<1> SUFFICES ASSUME DInv, [ExecutableNext]_allVars PROVE DInv'
  OBVIOUS
<1>1. CInv' /\ EInv' /\ OrdersTrue' /\ DriverInv'
  BY StepIsSystems, NextKeepsCInv, NextKeepsEInv, NextKeepsOrders, NextKeepsDriver DEF DInv, CInv
<1>2. Intact' => TInv'
  BY CutsAreCounted, NextKeepsTInv DEF DInv, DriverInv
<1> QED
  BY <1>1, <1>2 DEF DInv

\* auto_demo.rs:210, `service.request_mode(target)?': a script issues a command
\* only when SAM takes it, and the transition it expects to be rejected is.
\* Whenever the power is cut and restored, however late a registration of
\* before the cut arrives and whatever round it disturbs, a script passes or
\* times out: it is never told that a transition is in progress or that nobody
\* is there, and never finds itself in a mode that should have been refused.
\* All this as long as no session of SAM's drops a frame half-read: then an
\* application is evicted, and what it would have refused goes through.
THEOREM ScriptsAreInTurn == ExecutableSpec => []CommandsInTurn
<1>1. DInv => CommandsInTurn
  BY DEF DInv, TInv, InTurn, CommandsInTurn
<1> QED
  BY <1>1, InitDInv, NextKeepsDInv, PTL DEF ExecutableSpec
-----------------------------------------------------------------------------
\* The last word on a connection

\* Where there is a mark, nothing bad follows in this queue, nor elsewhere.
Clears(queue, marks, bad, elsewhere) ==
  \A i \in 1 .. Len(queue) : queue[i] \in marks =>
    elsewhere /\ \A j \in i + 1 .. Len(queue) : queue[j] \notin bad

LEMMA ClearsRest ==
  ASSUME NEW S, NEW queue \in Seq(S), queue # << >>, NEW marks, NEW bad, NEW elsewhere,
         Clears(queue, marks, bad, elsewhere)
  PROVE  /\ Clears(Tail(queue), marks, bad, elsewhere)
         /\ Head(queue) \in marks => elsewhere /\ Free(Tail(queue), bad)
<1>1. PICK n \in Nat : n = Len(queue)
  OBVIOUS
<1>2. /\ n > 0 /\ Head(queue) = queue[1] /\ Len(Tail(queue)) = n - 1
      /\ \A i \in 1 .. n - 1 : Tail(queue)[i] = queue[i + 1]
  BY <1>1
<1>3. ASSUME NEW i \in 1 .. n - 1, Tail(queue)[i] \in marks
      PROVE  elsewhere /\ \A j \in i + 1 .. n - 1 : Tail(queue)[j] \notin bad
  <2>1. i + 1 \in 1 .. n /\ queue[i + 1] \in marks
    BY <1>1, <1>2, <1>3
  <2>2. elsewhere /\ \A j \in (i + 1) + 1 .. n : queue[j] \notin bad
    BY <1>1, <2>1 DEF Clears
  <2>3. ASSUME NEW j \in i + 1 .. n - 1
        PROVE  Tail(queue)[j] \notin bad
    <3>1. j \in 1 .. n - 1 /\ j + 1 \in (i + 1) + 1 .. n
      BY <1>1, <1>3, <2>3
    <3> QED
      BY <1>2, <2>2, <3>1
  <2> QED
    BY <2>2, <2>3
<1>4. ASSUME Head(queue) \in marks
      PROVE  elsewhere /\ Free(Tail(queue), bad)
  <2>1. elsewhere /\ \A j \in 1 + 1 .. n : queue[j] \notin bad
    BY <1>1, <1>2, <1>4 DEF Clears
  <2>2. ASSUME NEW i \in 1 .. n - 1
        PROVE  Tail(queue)[i] \notin bad
    <3>1. i + 1 \in 1 + 1 .. n
      BY <1>1, <2>2
    <3> QED
      BY <1>2, <2>1, <3>1
  <2> QED
    BY <1>2, <2>1, <2>2 DEF Free
<1> QED
  BY <1>2, <1>3, <1>4 DEF Clears

LEMMA ClearsMore ==
  ASSUME NEW S, NEW queue \in Seq(S), NEW message, NEW marks, NEW bad, NEW elsewhere,
         Clears(queue, marks, bad, elsewhere),
         message \in bad => Free(queue, marks),
         message \in marks => elsewhere
  PROVE  Clears(Append(queue, message), marks, bad, elsewhere)
<1> DEFINE more == Append(queue, message)
<1>1. PICK n \in Nat : n = Len(queue)
  OBVIOUS
<1>2. Len(more) = n + 1 /\ (\A i \in 1 .. n : more[i] = queue[i]) /\ more[n + 1] = message
  BY <1>1
<1> HIDE DEF more
<1>3. ASSUME NEW i \in 1 .. n + 1, more[i] \in marks
      PROVE  elsewhere /\ \A j \in i + 1 .. n + 1 : more[j] \notin bad
  <2>1. CASE i = n + 1
    <3>1. i + 1 .. n + 1 = {}
      BY <1>1, <2>1
    <3> QED
      BY <1>2, <1>3, <2>1, <3>1
  <2>2. CASE i \in 1 .. n
    <3>1. queue[i] \in marks
      BY <1>2, <1>3, <2>2
    <3>2. elsewhere /\ \A j \in i + 1 .. n : queue[j] \notin bad
      BY <1>1, <2>2, <3>1 DEF Clears
    <3>3. message \notin bad
      BY <1>1, <2>2, <3>1 DEF Free
    <3>4. ASSUME NEW j \in i + 1 .. n + 1
          PROVE  more[j] \notin bad
      <4>1. j = n + 1 \/ (j \in 1 .. n /\ j \in i + 1 .. n)
        BY <1>1, <2>2, <3>4
      <4> QED
        BY <1>2, <3>2, <3>3, <4>1
    <3> QED
      BY <3>2, <3>4
  <2>3. i = n + 1 \/ i \in 1 .. n
    BY <1>1, <1>3
  <2> QED
    BY <2>1, <2>2, <2>3
<1> QED
  BY <1>2, <1>3 DEF Clears, more

LEMMA ClearsFree ==
  ASSUME NEW queue, NEW marks, NEW bad, NEW elsewhere, Free(queue, marks)
  PROVE  Clears(queue, marks, bad, elsewhere)
BY DEF Clears, Free

\* A mark in the queue vouches for what is elsewhere.
LEMMA ClearsElsewhere ==
  ASSUME NEW queue, NEW marks, NEW bad, NEW elsewhere, Clears(queue, marks, bad, elsewhere)
  PROVE  /\ ~elsewhere => Free(queue, marks)
         /\ \A other : (elsewhere => other) => Clears(queue, marks, bad, other)
BY DEF Clears, Free

\* A queue of the service grows by one message at a time.
Grows(longer, queue, bad) ==
  longer = queue \/ \E message : message \notin bad /\ longer = Append(queue, message)

LEMMA PostGrows ==
  ASSUME NEW queue, NEW bad, NEW message, message \notin bad
  PROVE  Grows(Post(queue, message), queue, bad)
BY DEF Grows, Post

LEMMA GrowingKeeps ==
  ASSUME NEW queue \in Seq(SamToApplication), NEW longer, NEW bad, Grows(longer, queue, bad)
  PROVE  /\ Free(queue, bad) => Free(longer, bad)
         /\ \A marks : Clears(queue, marks, bad, TRUE) => Clears(longer, marks, bad, TRUE)
<1>1. CASE longer = queue
  BY <1>1
<1>2. ASSUME NEW message, message \notin bad, longer = Append(queue, message)
      PROVE  /\ Free(queue, bad) => Free(longer, bad)
             /\ \A marks : Clears(queue, marks, bad, TRUE) => Clears(longer, marks, bad, TRUE)
  BY <1>2, FreeOfMore, ClearsMore
<1> QED
  BY <1>1, <1>2 DEF Grows

LEMMA BroadcastGrows ==
  ASSUME ClientsTypeOK, NEW bad, NEW message, message \notin bad, Broadcast(message),
         NEW b \in Connected
  PROVE  Grows(clients'[b].outbound, clients[b].outbound, bad)
<1>1. clients'[b].outbound = Post(clients[b].outbound, message)
  BY DEF Broadcast, ClientsTypeOK, ClientConnection
<1> QED
  BY <1>1, PostGrows

\* The queue of a connection that stays gains nothing that is never posted, and
\* loses what its session takes.
LEMMA OutboundGrows ==
  ASSUME VInv, NEW bad, NeverPosted(bad), [Next]_vars,
         NEW b \in Connected, b \in Connected', clients'[b].id = clients[b].id
  PROVE  Take(b) \/ Grows(clients'[b].outbound, clients[b].outbound, bad)
<1> DEFINE Good == Grows(clients'[b].outbound, clients[b].outbound, bad)
<1>1. /\ SInv /\ ClientsTypeOK
      /\ \A m, h : StateBroadcast(m, h) \notin bad
      /\ \A t : AbortMode(t) \notin bad
      /\ clients[b].id # nextConnectionId
  <2>1. /\ \A m, h : StateBroadcast(m, h) \notin bad
        /\ \A t : AbortMode(t) \notin bad
    BY DEF NeverPosted, StateBroadcast, AbortMode
  <2>2. SInv /\ ClientsTypeOK
    BY DEF VInv, SInv, ServiceTypeOK
  <2>3. PICK s \in Session : stage[s] \in {"registered", "closing"} /\ identity[s].id = clients[b].id
    BY DEF VInv, ConnectionsHaveSessions
  <2>4. s \in Registered
    BY <2>3 DEF VInv, SessionsTypeOK
  <2>5. clients[b].id < nextConnectionId /\ clients[b].id \in Nat
    BY <2>3, <2>4, BoundAssumption DEF VInv, IdsAreUnique, SessionsTypeOK, ConnectionId
  <2> QED
    BY <2>1, <2>2, <2>5
<1>2. ASSUME UNCHANGED clients
      PROVE  Good
  BY <1>2 DEF Grows
<1>3. ASSUME BroadcastState \/ BroadcastStateIfChanged
      PROVE  Good
  BY <1>1, <1>2, <1>3, BroadcastGrows DEF BroadcastState, BroadcastStateIfChanged
<1>4. CASE phase' # phase /\ phase' # "Stable"
  <2>1. PICK order \in SamToApplication : order = RoundOrder' /\ Broadcast(order)
    BY <1>1, <1>4, RoundOpens
  <2> QED
    BY <1>1, <1>4, <2>1, BroadcastGrows DEF NeverPosted
<1>5. ASSUME NEW a, NEW wait, Register(a, wait)
      PROVE  Good
  <2>1. a # b
    BY <1>1, <1>5 DEF Register
  <2> QED
    BY <1>5, <2>1 DEF Register, Grows
<1>6. ASSUME NEW a, NEW c, NEW wait, Disconnect(a, c, wait)
      PROVE  Good
  <2>1. b # a
    BY <1>6 DEF Disconnect, Connected
  <2>2. clients'[b].outbound = Post(clients[b].outbound, StateBroadcast(systemMode, systemHealth'))
    BY <1>1, <1>6, <2>1 DEF Disconnect, ClientsTypeOK, ClientConnection
  <2> QED
    BY <1>1, <2>2, PostGrows
<1>7. ASSUME NEW a, NEW d, NEW c, NEW wait, NEW h, NEW m,
             HandleHeartbeat(a, c, Heartbeat(d, h, m), wait) \/ RefreshHealth(wait)
      PROVE  Good
  BY <1>3, <1>7 DEF HandleHeartbeat, RefreshHealth
<1>8. ASSUME NEW a, NEW d, NEW c, NEW t, HandleModeReady(a, c, ModeReady(d, t)),
             phase' = phase \/ phase' = "Stable"
      PROVE  Good
  BY <1>2, <1>8 DEF HandleModeReady, Modes!ApplicationReady, Modes!AcceptsReady
<1>9. ASSUME NEW a, NEW d, NEW c, NEW t, HandleModeRejected(a, c, ModeRejected(d, t))
      PROVE  Good
  BY <1>1, <1>9, BroadcastGrows DEF HandleModeRejected
<1>10. ASSUME NEW a, NEW d, NEW c, NEW t, NEW m, NEW wait,
              HandleModeCommitted(a, c, ModeCommitted(d, t, m), wait)
       PROVE  Good
  BY <1>2, <1>3, <1>10 DEF HandleModeCommitted
<1>11. ASSUME NEW m, RequestMode(m), phase' = phase \/ phase' = "Stable"
       PROVE  FALSE
  BY <1>11 DEF RequestMode, Modes!RequestTransition, Modes!AcceptsRequest
<1>12. ASSUME NEW a \in App, Take(a)
       PROVE  Take(b) \/ Good
  <2>1. a # b => clients'[b] = clients[b]
    BY <1>1, <1>12 DEF Take, ClientsTypeOK
  <2> QED
    BY <1>12, <2>1 DEF Grows
<1> QED
  BY <1>1, <1>2, <1>4, <1>5, <1>6, <1>7, <1>8, <1>9, <1>10, <1>11, <1>12, ServiceSteps DEF Tick, vars
-----------------------------------------------------------------------------
\* A round is prepared before it is committed.

Premature(message) == phase = "Preparing" /\ message.id = transitionId

EarlyCommits == {m \in SamToApplication : m.type = "CommitMode" /\ Premature(m)}

EarlyReports == {m \in ApplicationToSam : m.type = "ModeCommitted" /\ Premature(m)}

NothingPremature ==
  /\ ServerFree(EarlyCommits) /\ DownFree(EarlyCommits)
  /\ \A s \in Session : Free(up[s], EarlyReports)

LEMMA PreparingBegins ==
  ASSUME YInv, [Next]_vars, phase' = "Preparing"
  PROVE  \/ phase = "Stable" /\ transitionId' = nextTransitionId
         \/ phase = "Preparing" /\ UNCHANGED transitionId
<1>1. \/ phase # "Stable" /\ UNCHANGED transitionId
      \/ phase = "Stable" /\ transitionId' = nextTransitionId
  BY RoundsAreNumbered
<1>2. phase # "Committing"
  <2>1. ASSUME NEW a, NEW b, NEW c, NEW t, NEW m, NEW wait,
               \/ HandleModeReady(a, c, ModeReady(b, t))
               \/ HandleModeRejected(a, c, ModeRejected(b, t))
               \/ HandleModeCommitted(a, c, ModeCommitted(b, t, m), wait)
               \/ RequestMode(m)
        PROVE  phase # "Committing"
    BY <2>1 DEF HandleModeReady, Modes!ApplicationReady, Modes!AcceptsReady, HandleModeRejected,
                Modes!ApplicationRejected, Modes!AcceptsRejection, HandleModeCommitted,
                Modes!ApplicationCommitted, Modes!Settle, RequestMode, Modes!RequestTransition,
                Modes!AcceptsRequest
  <2>2. CASE UNCHANGED phase
    BY <2>2
  <2> QED
    BY <2>1, <2>2, ServiceSteps
       DEF Register, Disconnect, HandleHeartbeat, RefreshHealth, Take, Tick, vars, modeVars
<1>3. phase \in {"Stable", "Preparing", "Committing"}
  BY SameSets DEF YInv, VInv, SInv, Manager!IInv, Manager!TypeOK
<1> QED
  BY <1>1, <1>2, <1>3

LEMMA FreeOfBoth ==
  ASSUME NEW one, NEW other, NEW few, few \subseteq one \cup other
  PROVE  /\ ServerFree(one) /\ ServerFree(other) => ServerFree(few)
         /\ DownFree(one) /\ DownFree(other) => DownFree(few)
         /\ \A queue : Free(queue, one) /\ Free(queue, other) => Free(queue, few)
BY DEF Free, ServiceFree, ServerFree, DownFree

LEMMA NextKeepsPremature ==
  ASSUME CInv, OrdersTrue, NothingPremature, [SystemNext]_systemVars
  PROVE  NothingPremature'
<1>1. YInv /\ VInv /\ SInv /\ [ServerNext]_serverVars /\ [Next]_vars
  BY NextIsServers, NextIsServices DEF CInv, YInv, VInv
<1>2. ASSUME NEW message, message.id \in Nat, Premature(message)'
      PROVE  Premature(message) \/ message.id >= nextTransitionId
  BY <1>1, <1>2, PreparingBegins, RoundsAreNumbered DEF Premature
<1>3. EarlyCommits' \subseteq EarlyCommits \cup FalseOrders
  <2>1. \A m \in SamToApplication : m.type = "CommitMode" => m.id \in Nat
    BY OrderParts, IdSpaceAssumption DEF TransitionId
  <2> QED
    BY <1>2, <2>1 DEF EarlyCommits, FalseOrders, Untrue
<1>4. EarlyReports' \subseteq EarlyReports \cup FalseReports
  <2>1. \A m \in ApplicationToSam : m.type = "ModeCommitted" => m.id \in Nat
    BY IdSpaceAssumption DEF ApplicationToSam, Fragment, TransitionId
  <2> QED
    BY <1>2, <2>1 DEF EarlyReports, FalseReports, Untrue
<1>5. ASSUME NEW orders, NEW reports, orders = EarlyCommits', reports = EarlyReports'
      PROVE  /\ ServerFree(orders)' /\ DownFree(orders)'
             /\ \A s \in Session : Free(up'[s], reports)
  <2>1. /\ ServerFree(orders) /\ DownFree(orders)
        /\ \A s \in Session : Free(up[s], reports)
    BY <1>3, <1>4, <1>5, FreeOfBoth DEF NothingPremature, OrdersTrue
  <2>2. NeverPosted(orders)
    BY <1>5 DEF NeverPosted, EarlyCommits, Premature, RoundOrder, PrepareMode, RegisterAccepted
  <2>3. \A a, t, m : CommitMode(t, m) \notin orders => ModeCommitted(a, t, m) \notin reports
    <3> SUFFICES ASSUME NEW a, NEW t, NEW m, ModeCommitted(a, t, m) \in reports
                 PROVE  CommitMode(t, m) \in orders
      OBVIOUS
    <3>1. t \in TransitionId /\ m \in SystemMode /\ Premature(ModeCommitted(a, t, m))'
      BY <1>5 DEF EarlyReports, ApplicationToSam, Fragment, ModeCommitted
    <3>2. CommitMode(t, m) \in SamToApplication /\ Premature(CommitMode(t, m))'
      BY <3>1, MessageTypes DEF Premature, CommitMode, ModeCommitted
    <3> QED
      BY <1>5, <3>2 DEF EarlyCommits, CommitMode
  <2>4. \A a, t : ModeReady(a, t) \notin reports /\ ModeRejected(a, t) \notin reports
    BY <1>5 DEF EarlyReports, ModeReady, ModeRejected
  <2>5. \A m \in reports : m.type = "ModeCommitted"
    BY <1>5 DEF EarlyReports
  <2> QED
    BY <1>1, <2>1, <2>2, <2>3, <2>4, <2>5, ServerKeepsFree, DownKeepsFree, ReportsAreTrue
<1>6. (ServerFree(EarlyCommits) /\ DownFree(EarlyCommits))'
  BY <1>5
<1>7. \A s \in Session : Free(up[s], EarlyReports)'
  BY <1>5
<1> QED
  BY <1>6, <1>7 DEF NothingPremature

LEMMA InitPremature == SystemInit => NothingPremature
BY FreeOfNone DEF SystemInit, ServerInit, Init, Modes!New, NothingPremature, ServerFree, ServiceFree,
                  DownFree, Connected
-----------------------------------------------------------------------------
\* One refusal, and none after it

Rejections == {m \in ApplicationToSam : m.type = "ModeRejected"}

HasRefused == trouble = 2 /\ runtime[Telemetry].handler = "agrees"

RejectedOnce ==
  script = "showcase" => HasRefused \/ \A s \in Session : Free(up[s], Rejections)

\* From its refusal on telemetry agrees to everything and stays connected.
TelemetryStays ==
  script = "showcase" /\ ~BeforeRefusal => trouble = 2 /\ Stays(Telemetry) /\ Telemetry \in Connected

\* The steps of the showcase, with what the script was at.
LEMMA ShowcaseMoves ==
  ASSUME SInv, DriverInv, [ExecutableNext]_allVars, script = "showcase", Intact'
  PROVE  /\ script' = "showcase" /\ line \in Nat
         /\ \/ Quiet
            \/ PowerOff \/ PowerOn
            \/ /\ outcome = "running" /\ UNCHANGED trouble
               /\ line \in 1 .. 14 /\ Now = Showcase[line]
               /\ \/ UNCHANGED <<systemVars, line>>
                  \/ UNCHANGED systemVars /\ line' = line + 1 /\ Now.do \in Polls /\ Holds(Now)
                  \/ UNCHANGED systemVars /\ line = 10 /\ line' = 11
                  \/ /\ UNCHANGED systemVars /\ line \in {2, 11, 13} /\ line' = line + 2
                     /\ systemMode = Now.mode
                  \/ line \in {2, 8, 11, 13} /\ line' = line + 1 /\ phase = "Stable" /\ Requests
<1>1. /\ script' = script
      /\ Quiet \/ PowerOff \/ PowerOn \/ (outcome = "running" /\ DriverStep)
  BY ScriptSteps DEF DriverInv
<1>2. line \in Nat
  BY DEF DriverInv
<1>3. ASSUME outcome = "running", DriverStep
      PROVE  /\ UNCHANGED trouble
             /\ line \in 1 .. 14 /\ Now = Showcase[line]
             /\ \/ UNCHANGED <<systemVars, line>>
                \/ UNCHANGED systemVars /\ line' = line + 1 /\ Now.do \in Polls /\ Holds(Now)
                \/ UNCHANGED systemVars /\ line = 10 /\ line' = 11
                \/ /\ UNCHANGED systemVars /\ line \in {2, 11, 13} /\ line' = line + 2
                   /\ systemMode = Now.mode
                \/ line \in {2, 8, 11, 13} /\ line' = line + 1 /\ phase = "Stable" /\ Requests
  <2>1. /\ UNCHANGED trouble
        /\ line \in 1 .. Len(Instructions)
        /\ \/ UNCHANGED <<systemVars, line>>
           \/ Now.do \in Polls /\ Holds(Now) /\ Passes
           \/ Now.do = "unchanged" /\ Passes
           \/ Skips
           \/ Now.do \in {"request", "requestRefused"} /\ phase = "Stable" /\ Requests
    BY <1>3, DriverMoves DEF Stands, Checks
  <2>2. Instructions = Showcase /\ line \in 1 .. Len(Showcase) /\ Len(Showcase) = 14
    BY <2>1, ShowcaseLines DEF Instructions
  <2>3. /\ Now = Showcase[line]
        /\ Now.do = "requestRefused" => line = 8
        /\ Now.do = "unchanged" => line = 10
        /\ Now.do = "request" => line \in {2, 11, 13}
    BY <2>2, ShowcaseFollows DEF Now
  <2> QED
    BY <2>1, <2>2, <2>3 DEF Passes, Skips, Requests
<1> QED
  BY <1>1, <1>2, <1>3

\* Only a process that refuses writes a rejection.
LEMMA RejectionsCome ==
  ASSUME CInv, \A s \in Session : Free(up[s], Rejections), [SystemNext]_systemVars
  PROVE  \/ \A s \in Session : Free(up'[s], Rejections)
         \/ \E a \in App, s \in Session :
              AsksForWorking(a, s) /\ runtime[a].handler \in {"rejects", "rejectsOnce"}
<1> DEFINE None == \A s \in Session : Free(up'[s], Rejections)
<1>1. /\ up \in [Session -> Seq(ApplicationToSam)]
      /\ \A s \in Session : Free(up[s], Rejections)
  BY DEF CInv, YInv, ChannelsTypeOK
<1>2. ASSUME UNCHANGED up
      PROVE  None
  BY <1>1, <1>2
<1>3. ASSUME NEW s \in Session, NEW message, message.type # "ModeRejected", Write(s, message)
      PROVE  None
  <2>1. Free(Append(up[s], message), Rejections)
    BY <1>1, <1>3, FreeOfMore DEF Rejections
  <2> QED
    BY <1>1, <1>2, <1>3, <2>1 DEF Write
<1>4. ASSUME NEW s \in Session, SessionStep(s)
      PROVE  None
  <2>1. CASE Drained(s) /\ up[s] # << >>
    <3>1. Free(Tail(up[s]), Rejections)
      BY <1>1, <2>1, QueueElements DEF Free
    <3> QED
      BY <1>1, <2>1, <3>1 DEF Drained
  <2>2. CASE Unread(s)
    BY <1>1, <2>2, FreeOfNone DEF Unread
  <2>3. CASE Cuts(s)
    <3>1. up' = [up EXCEPT ![s] = <<Fragment>>]
      BY <2>3 DEF Cuts
    <3>2. Fragment \notin Rejections
      BY DEF Rejections, Fragment
    <3>3. Free(<<Fragment>>, Rejections)
      BY <3>2 DEF Free
    <3> QED
      BY <1>1, <3>1, <3>3
  <2> QED
    BY <1>2, <1>4, <2>1, <2>2, <2>3
       DEF SessionStep, ServerStep, Registers, Misses, Expires, Cut, Delivers, Handles, Refuses,
           SeesEnd, Ends
<1>5. ASSUME NEW a \in App, NEW s \in Session, ProcessStep(a, s)
      PROVE  \/ None
             \/ AsksForWorking(a, s) /\ runtime[a].handler \in {"rejects", "rejectsOnce"}
  <2>1. CASE Connect(a, s)
    <3>1. Free(<<RegisterMessage(a)>>, Rejections)
      BY DEF Free, RegisterMessage, Rejections
    <3> QED
      BY <1>1, <2>1, <3>1 DEF Connect
  <2>2. CASE Beats(a, s)
    BY <1>3, <2>2 DEF Beats, Heartbeat
  <2>3. CASE Answers(a, s) /\ Prepare(a, s, Head(down[s]))
    <3>1. CASE Prepares(runtime[a].handler, Head(down[s]).mode)
      BY <1>3, <2>3, <3>1 DEF Prepare, ModeReady
    <3>2. CASE ~Prepares(runtime[a].handler, Head(down[s]).mode)
      BY <2>3, <3>2 DEF Prepares, AsksForWorking
    <3> QED
      BY <3>1, <3>2
  <2>4. CASE Answers(a, s) /\ Commit(a, s, Head(down[s]))
    BY <1>2, <1>3, <2>4 DEF Commit, ModeCommitted
  <2>5. CASE \/ ReceivesRegistration(a, s) \/ RegistrationEnds(a, s) \/ SessionEnds(a, s)
             \/ ReaderEnds(a, s) \/ TimesOut(a, s)
    BY <1>2, <2>5 DEF ReceivesRegistration, RegistrationEnds, SessionEnds, ReaderEnds, TimesOut
  <2> QED
    BY <1>5, <2>1, <2>2, <2>3, <2>4, <2>5 DEF ProcessStep, ClientStep, Answers
<1> QED
  BY <1>2, <1>4, <1>5, SystemSteps DEF Monitor, Command, systemVars, clientVars

\* The refusal itself is what telemetry wrote with its interlock.
LEMMA NextKeepsRejected ==
  ASSUME TInv, RejectedOnce, TelemetryStays, [ExecutableNext]_allVars, Intact'
  PROVE  RejectedOnce'
<1> SUFFICES ASSUME script' = "showcase"
             PROVE  HasRefused' \/ \A s \in Session : Free(up'[s], Rejections)
  BY DEF RejectedOnce
<1>1. /\ CInv /\ YInv /\ SInv /\ OthersStay /\ DriverInv /\ [SystemNext]_systemVars
      /\ runtime \in [App -> Process] /\ Telemetry \in App
  BY StepIsSystems, ExecutableAssumption DEF TInv, CInv, YInv, VInv, ChannelsTypeOK
<1>2. script = "showcase"
  BY ScriptIsFixed
<1>3. PowerOff \/ PowerOn \/ (Regular /\ UNCHANGED trouble)
  BY <1>1, <1>2, ShowcaseMoves, PassesAreRegular DEF Quiet
<1>4. CASE PowerOff \/ PowerOn
  <2>1. UNCHANGED up /\ trouble # 2
    BY <1>4 DEF PowerOff, PowerOn, Crash, Launch
  <2> QED
    BY <1>2, <2>1 DEF RejectedOnce, HasRefused
<1>5. CASE Regular /\ UNCHANGED trouble /\ HasRefused
  <2>1. Willing(Telemetry) /\ runtime[Telemetry].handler = "agrees"
    BY <1>5 DEF HasRefused, Willing, Prepares
  <2>2. runtime'[Telemetry].handler = "agrees"
    BY <1>1, <1>5, <2>1, RegularHoldsOn
  <2> QED
    BY <1>5, <2>2 DEF HasRefused
<1>6. ASSUME Regular, UNCHANGED trouble, \A s \in Session : Free(up[s], Rejections),
             NEW a \in App, NEW s \in Session, AsksForWorking(a, s),
             runtime[a].handler \in {"rejects", "rejectsOnce"}
      PROVE  HasRefused'
  <2>1. a = Telemetry
    BY <1>1, <1>2, <1>6 DEF OthersStay, Stays
  <2>2. BeforeRefusal
    BY <1>2, <1>6, <2>1 DEF TelemetryStays, Stays
  <2>3. trouble = 2 /\ runtime[Telemetry].handler = "rejectsOnce"
    <3>1. Powered
      BY <2>2 DEF TInv, TelemetryReturns
    <3>2. runtime[Telemetry].at # "off"
      BY <1>6, <2>1 DEF AsksForWorking, Answers, Running
    <3> QED
      BY <1>6, <2>1, <3>1, <3>2 DEF Powered, Stays
  <2>4. runtime'[Telemetry].handler = "agrees"
    <3>1. runtime'[Telemetry] = [runtime[Telemetry] EXCEPT !.handler = "agrees"]
      BY <1>1, <1>6, <2>1, <2>3 DEF AsksForWorking, Prepare, AfterPrepare
    <3> QED
      BY <1>1, <3>1 DEF Process
  <2> QED
    BY <1>6, <2>3, <2>4 DEF HasRefused
<1> QED
  BY <1>1, <1>2, <1>3, <1>4, <1>5, <1>6, RejectionsCome DEF RejectedOnce

\* A transition in preparation ends with a rejection.
LEMMA RoundRejected ==
  ASSUME YInv, SystemStep \/ UNCHANGED systemVars, phase = "Preparing", phase' = "Stable"
  PROVE  \E s \in Session : ~Free(up[s], Rejections)
<1>1. ASSUME UNCHANGED modeVars
      PROVE  FALSE
  BY <1>1 DEF modeVars
<1>2. ASSUME NEW s \in Session, Handles(s)
      PROVE  ~Free(up[s], Rejections)
  <2> DEFINE message == Head(up[s])
             b == identity[s].app
  <2>1. HandleMessage(b, identity[s].id, message) /\ up[s] # << >>
    BY <1>2 DEF Handles
  <2>2. CASE HandleModeReady(b, identity[s].id, message)
    BY <2>2 DEF HandleModeReady, Modes!ApplicationReady
  <2>3. CASE message.type = "ModeRejected"
    <3>1. up[s] \in Seq(ApplicationToSam)
      BY DEF YInv, ChannelsTypeOK
    <3>2. message \in ApplicationToSam /\ message = up[s][1] /\ 1 \in 1 .. Len(up[s])
      BY <2>1, <3>1, QueueRest, QueueElements
    <3> QED
      BY <2>3, <3>2 DEF Free, Rejections
  <2>4. CASE HandleModeCommitted(b, identity[s].id, message, 0)
    BY <2>4 DEF HandleModeCommitted, Modes!ApplicationCommitted, Modes!AcceptsCommit
  <2>5. CASE HandleHeartbeat(b, identity[s].id, message, 0) \/ UNCHANGED vars
    BY <1>1, <2>5 DEF HandleHeartbeat, vars
  <2> QED
    BY <2>1, <2>2, <2>3, <2>4, <2>5 DEF HandleMessage
<1>3. ASSUME NEW s \in Session, ServerStep(s), ~Handles(s)
      PROVE  FALSE
  BY <1>1, <1>3
     DEF ServerStep, Registers, RegisterSession, Register, Misses, EndUnregistered, Delivers, Sends,
         Forward, Take, Refuses, SeesEnd, Break, Ends, Replaced, Teardown, Disconnect, vars
<1>4. ASSUME ~ \E s \in Session : ServerStep(s)
      PROVE  FALSE
  BY <1>1, <1>4 DEF SystemStep, ClientStep, Monitor, RefreshHealth, systemVars, serverVars, vars
<1> QED
  BY <1>2, <1>3, <1>4
\* The script goes on behind its line 9 only when the round was rejected.
LEMMA RefusalEnds ==
  ASSUME TInv, [ExecutableNext]_allVars, Intact',
         BeforeRefusal, ~BeforeRefusal', script' = "showcase"
  PROVE  Quiet /\ line = 9 /\ phase = "Preparing" /\ phase' = "Stable"
<1>1. /\ SInv /\ SInv' /\ OthersStay /\ DriverInv /\ script = "showcase" /\ script' = "showcase"
      /\ line <= 8 \/ (line = 9 /\ phase # "Stable")
      /\ ~(line' <= 8 \/ (line' = 9 /\ phase' # "Stable"))
  BY NextKeepsTInv DEF TInv, CInv, YInv, VInv, BeforeRefusal
<1>2. line = 9 => phase = "Preparing"
  BY DEF TInv, TelemetryReturns, Refused
<1>3. /\ line \in Nat
      /\ \/ Quiet
         \/ PowerOff \/ PowerOn
         \/ /\ line \in 1 .. 14 /\ Now = Showcase[line]
            /\ \/ UNCHANGED <<systemVars, line>>
               \/ UNCHANGED systemVars /\ line' = line + 1 /\ Now.do \in Polls /\ Holds(Now)
               \/ UNCHANGED systemVars /\ line = 10 /\ line' = 11
               \/ /\ UNCHANGED systemVars /\ line \in {2, 11, 13} /\ line' = line + 2
                  /\ systemMode = Now.mode
               \/ line \in {2, 8, 11, 13} /\ line' = line + 1 /\ phase = "Stable" /\ Requests
  BY <1>1, ShowcaseMoves
<1>4. CASE Quiet
  <2>1. line' = line
    BY <1>4 DEF Quiet
  <2>2. line = 9 /\ phase' = "Stable"
    BY <1>1, <1>3, <2>1
  <2> QED
    BY <1>2, <1>4, <2>2
<1>5. CASE UNCHANGED <<line, phase>>
  BY <1>1, <1>3, <1>5
<1>6. PowerOff \/ PowerOn => UNCHANGED <<line, phase>>
  BY SwitchEndsProcess DEF serverVars, vars, modeVars
<1>7. UNCHANGED systemVars => UNCHANGED phase
  BY DEF systemVars, serverVars, vars, modeVars
<1>8. ASSUME line \in 1 .. 14, Now = Showcase[line], line' = line + 1, Now.do \in Polls, Holds(Now)
      PROVE  FALSE
  <2>1. line \in {8, 9}
    BY <1>1, <1>8
  <2>2. line # 8
    BY <1>8, ShowcaseLines, Words DEF Polls
  <2>3. line = 9 => phase = "Stable"
    <3>1. line = 9 => Now.do = "settled"
      BY <1>8, ShowcaseLines, Words
    <3> QED
      BY <1>8, <3>1 DEF Holds
  <2> QED
    BY <1>1, <2>1, <2>2, <2>3
<1>9. ASSUME line \in {2, 8, 11, 13}, line' = line + 1, Requests
      PROVE  FALSE
  <2>1. phase' = "Preparing"
    BY <1>9 DEF Requests, Command, RequestMode, Modes!RequestTransition
  <2> QED
    BY <1>1, <1>9, <2>1
<1>10. CASE UNCHANGED systemVars /\ line \in {2, 11, 13} /\ line' = line + 2
  BY <1>1, <1>10
<1>11. CASE UNCHANGED systemVars /\ line = 10 /\ line' = 11
  BY <1>1, <1>11
<1> QED
  BY <1>3, <1>4, <1>5, <1>6, <1>7, <1>8, <1>9, <1>10, <1>11

LEMMA NextKeepsTelemetry ==
  ASSUME TInv, RejectedOnce, TelemetryStays, [ExecutableNext]_allVars, Intact'
  PROVE  TelemetryStays'
<1> SUFFICES ASSUME script' = "showcase", ~BeforeRefusal'
             PROVE  (trouble = 2 /\ Stays(Telemetry) /\ Telemetry \in Connected)'
  BY DEF TelemetryStays
<1>1. /\ CInv /\ YInv /\ SInv /\ OrdersTrue /\ OthersStay /\ DriverInv /\ [SystemNext]_systemVars
      /\ Telemetry \in App
  BY StepIsSystems, ExecutableAssumption DEF TInv, CInv, YInv, VInv
<1>2. script = "showcase" /\ Unharmed
  BY ScriptIsFixed DEF TInv, OthersStay
<1>3. trouble = 2 /\ Stays(Telemetry) /\ Telemetry \in Connected /\ Regular /\ UNCHANGED trouble
  <2>1. CASE ~BeforeRefusal
    <3>1. trouble = 2 /\ Stays(Telemetry) /\ Telemetry \in Connected
      BY <1>2, <2>1 DEF TelemetryStays
    <3>2. ~PowerOff /\ ~PowerOn
      BY <3>1 DEF PowerOff, PowerOn
    <3> QED
      BY <1>1, <1>2, <3>1, <3>2, ShowcaseMoves, PassesAreRegular DEF Quiet
  <2>2. CASE BeforeRefusal
    <3>1. Quiet /\ line = 9 /\ phase = "Preparing" /\ phase' = "Stable"
      BY <2>2, RefusalEnds
    <3>2. HasRefused
      BY <1>1, <1>2, <3>1, RoundRejected DEF Quiet, RejectedOnce
    <3>3. Powered /\ Returned
      BY <2>2 DEF TInv, TelemetryReturns
    <3>4. Telemetry \in Connected /\ \A s \in Session : Faithful(Telemetry, s)
      BY <1>1, <3>1, <3>3, IsBackOn
    <3>5. Stays(Telemetry)
      BY <3>2, <3>3, <3>4 DEF HasRefused, Powered, Stays, Kept
    <3> QED
      BY <3>1, <3>2, <3>4, <3>5, PassesAreRegular DEF HasRefused, Quiet
  <2> QED
    BY <2>1, <2>2
<1>4. Stays(Telemetry)'
  BY <1>1, <1>2, <1>3, StaysOn
<1>5. Telemetry \in Connected'
  BY <1>1, <1>3, ConnectionLasts DEF Stays, Faithful
<1> QED
  BY <1>3, <1>4, <1>5

\* After the refusal everybody stays.
LEMMA AllStay ==
  ASSUME SInv, OthersStay, TelemetryStays, script = "showcase", line \in Nat, line >= 10
  PROVE  \A a \in App : Stays(a) /\ a \in Connected
<1>1. ~BeforeRefusal /\ line >= 2
  BY DEF BeforeRefusal
<1>2. Stays(Telemetry) /\ Telemetry \in Connected
  BY <1>1 DEF TelemetryStays
<1>3. \A a \in App \ {Telemetry} : Stays(a) /\ a \in Known
  BY <1>1 DEF OthersStay
<1> QED
  BY <1>2, <1>3 DEF Stays, Kept

-----------------------------------------------------------------------------
\* All three modes were decided

Seen ==
  /\ decided \subseteq SystemMode
  /\ script = "showcase" =>
       /\ line = 13 => systemMode = "Working"
       /\ line >= 13 => "Working" \in decided

LEMMA NextKeepsSeen ==
  ASSUME TInv, Seen, [ExecutableNext]_allVars, Intact'
  PROVE  Seen'
<1>1. /\ EInv /\ EInv' /\ YInv /\ SInv /\ SInv' /\ OthersStay /\ DriverInv
      /\ [SystemNext]_systemVars /\ [Next]_vars
  BY StepIsSystems, NextKeepsTInv, NextIsServers, NextIsServices DEF TInv, CInv, YInv, VInv
<1>2. decided' \subseteq SystemMode
  <2>1. target' \in SystemMode
    BY <1>1, SameSets DEF SInv, Manager!IInv, Manager!TypeOK
  <2>2. CASE Remember
    BY <2>1, <2>2 DEF Remember, Seen
  <2>3. CASE UNCHANGED allVars
    BY <2>3 DEF allVars, historyVars, Seen
  <2> QED
    BY <2>2, <2>3 DEF ExecutableNext, Alone, While
<1>3. decided \subseteq decided'
  BY <1>1, StepRemembers
<1>4. script' = script
  BY ScriptIsFixed
<1>5. ASSUME script = "showcase", line' = 13
      PROVE  systemMode' = "Working"
  <2>1. /\ line \in Nat
        /\ \/ Quiet
           \/ PowerOff \/ PowerOn
           \/ /\ line \in 1 .. 14 /\ Now = Showcase[line]
              /\ \/ UNCHANGED <<systemVars, line>>
                 \/ UNCHANGED systemVars /\ line' = line + 1 /\ Now.do \in Polls /\ Holds(Now)
                 \/ UNCHANGED systemVars /\ line = 10 /\ line' = 11
                 \/ /\ UNCHANGED systemVars /\ line \in {2, 11, 13} /\ line' = line + 2
                    /\ systemMode = Now.mode
                 \/ line \in {2, 8, 11, 13} /\ line' = line + 1 /\ phase = "Stable" /\ Requests
    BY <1>1, <1>5, ShowcaseMoves
  <2>2. CASE line = 13
    <3>1. systemMode = "Working"
      BY <1>5, <2>2 DEF Seen
    <3>2. phase = "Stable"
      <4>1. Now = Request("Standby") /\ line <= Len(Instructions)
        <5>1. Instructions = Showcase
          BY <1>5 DEF Instructions
        <5> QED
          BY <2>2, <5>1, ShowcaseLines DEF Now
      <4>2. Now.do = "request" /\ script # "console"
        BY <1>5, <4>1, Words
      <4> QED
        BY <1>1, <4>1, <4>2 DEF DriverInv
    <3> QED
      BY <1>1, <3>1, <3>2, ModeIsTargets
  <2>3. CASE line # 13
    <3>1. UNCHANGED systemMode
      <4>1. UNCHANGED systemVars => UNCHANGED systemMode
        BY DEF systemVars, serverVars, vars
      <4>2. Quiet \/ PowerOff \/ PowerOn => UNCHANGED line
        BY SwitchEndsProcess DEF Quiet
      <4>3. Requests => UNCHANGED systemMode
        BY DEF Requests, Command, RequestMode
      <4> QED
        BY <1>5, <2>1, <2>3, <4>1, <4>2, <4>3
    <3>2. /\ Now = Showcase[line] /\ line \in {11, 12}
          /\ line = 12 => Holds(Now)
          /\ line = 11 => systemMode = Now.mode
      <4>1. Quiet \/ PowerOff \/ PowerOn => UNCHANGED line
        BY SwitchEndsProcess DEF Quiet
      <4> QED
        BY <1>5, <2>1, <2>3, <4>1
    <3>3. systemMode = "Working"
      <4>1. /\ line = 11 => Now.mode = "Working"
            /\ line = 12 => Now.do = "reached" /\ Now.mode = "Working"
        BY <3>2, ShowcaseLines, Words
      <4> QED
        BY <3>2, <4>1 DEF Holds
    <3> QED
      BY <3>1, <3>3
  <2> QED
    BY <2>2, <2>3
<1>6. ASSUME script = "showcase", line' >= 13
      PROVE  "Working" \in decided'
  <2>1. CASE line' = 13
    BY <1>1, <1>5, <1>6, <2>1 DEF EInv
  <2>2. CASE line' # 13
    <3>1. line >= 13
      <4>1. /\ line \in Nat
            /\ \/ Quiet
               \/ PowerOff \/ PowerOn
               \/ /\ line \in 1 .. 14
                  /\ \/ line' = line
                     \/ line' = line + 1
                     \/ line = 10 /\ line' = 11
                     \/ line \in {2, 11, 13} /\ line' = line + 2
        BY <1>1, <1>6, ShowcaseMoves
      <4>2. Quiet \/ PowerOff \/ PowerOn => UNCHANGED line
        BY SwitchEndsProcess DEF Quiet
      <4>3. line' # 13 /\ line' >= 13
        BY <1>6, <2>2
      <4> QED
        BY <4>1, <4>2, <4>3
    <3> QED
      BY <1>3, <1>6, <3>1 DEF Seen
  <2> QED
    BY <2>1, <2>2
<1> QED
  BY <1>2, <1>4, <1>5, <1>6 DEF Seen
-----------------------------------------------------------------------------
\* A session that goes on

\* Before and after this step SAM serves a's process in session s.
Serves(a, s) ==
  /\ InSession(a, s) /\ InSession(a, s)'
  /\ stage[s] = "registered" /\ SameSession(s)
  /\ IsCurrent(s) /\ IsCurrent(s)'
  /\ identity[s].app = a
  /\ clients'[a].id = clients[a].id
  /\ ~OutOfStep(s) /\ ~OutOfStep(s)'

LEMMA SessionHolds ==
  ASSUME CInv, OrdersTrue, Unharmed, Regular, NEW a \in App, Stays(a), a \in Connected
  PROVE  \E s \in Session : Serves(a, s)
<1>1. YInv /\ EndsOK /\ OneProcess /\ [SystemNext]_systemVars /\ CInv' /\ Stays(a)'
  BY RegularIsSystems, NextKeepsCInv, StaysOn DEF CInv
<1>2. PICK s \in Session : IsCurrent(s) /\ identity[s].app = a /\ InSession(a, s)
  BY <1>1, ConnectedIsThere DEF Stays
<1>3. stage[s] = "registered"
  BY <1>2 DEF Stays, Faithful
<1>4. InSession(a, s)'
  <2>1. Willing(a) /\ runtime[a].handler = "agrees"
    BY DEF Stays, Willing, Prepares
  <2> QED
    BY <1>2, <1>3, <2>1, RegularHoldsOn DEF HoldsOn
<1>5. a \in Connected'
  BY <1>1, ConnectionLasts DEF Stays, Faithful
<1>6. PICK r \in Session : /\ stage'[r] \in {"registered", "closing"}
                           /\ identity'[r].app = a /\ identity'[r].id = clients'[a].id
  BY <1>1, <1>5 DEF CInv, YInv, VInv, ConnectionsHaveSessions
<1>7. IsCurrent(r)'
  <2>1. r \in Registered'
    BY <1>1, <1>6 DEF CInv, YInv, VInv, SessionsTypeOK
  <2> QED
    BY <1>5, <1>6, <2>1 DEF IsCurrent, VerifyConnection
<1>8. r = s /\ stage'[s] = "registered"
  <2>1. InSession(a, r)' /\ stage'[r] = "registered"
    BY <1>1, <1>6, <1>7 DEF Stays, Faithful
  <2> QED
    BY <1>4, <2>1 DEF InSession
<1>9. ~Registers(s)
  BY <1>1, <1>2, <1>3, RegistersOwn
<1>10. identity'[s] = identity[s]
  BY <1>1, <1>7, <1>8, <1>9, CurrentOnce
<1>11. ~OutOfStep(s) /\ ~OutOfStep(s)'
  <2>1. Unharmed' /\ YInv'
    BY <1>1, UnharmedLasts DEF CInv
  <2>2. ~OutOfStep(s)'
    BY <2>1, QueueElements DEF Unharmed, Torn, Free, OutOfStep, YInv, ChannelsTypeOK
  <2> QED
    BY <1>1, <2>2, UnharmedInStep
<1> QED
  BY <1>2, <1>3, <1>4, <1>6, <1>7, <1>8, <1>10, <1>11
     DEF Serves, SameSession, IsCurrent, VerifyConnection

LEMMA ServedIsConnected ==
  ASSUME NEW a, NEW s, Serves(a, s)
  PROVE  /\ a \in Connected /\ a \in Connected' /\ s \in Registered
         /\ clients[a].id = identity[s].id
         /\ Outgoing(s) = clients[a].outbound /\ Outgoing(s)' = clients'[a].outbound
BY DEF Serves, SameSession, IsCurrent, VerifyConnection, Outgoing

\* What becomes of a session and its queues.
Takes(a, s) ==
  LET queue == clients[a].outbound
  IN  /\ queue # << >> /\ clients'[a].outbound = Tail(queue)
      /\ \/ Head(queue).type \in {"StateBroadcast", "AbortMode"} /\ down'[s] = down[s]
         \/ down'[s] = Append(down[s], Head(queue))
      /\ up'[s] = up[s] /\ runtime'[a] = runtime[a]
      /\ UNCHANGED <<applications, modeVars>>

Hears(a, s, bad) ==
  /\ Handles(s) /\ up[s] # << >> /\ up'[s] = Tail(up[s])
  /\ down'[s] = down[s] /\ runtime'[a] = runtime[a]
  /\ Grows(clients'[a].outbound, clients[a].outbound, bad)

Goes(a, s) ==
  /\ Starts(a, s) \/ Beats(a, s) \/ Replies(a, s)
  /\ UNCHANGED <<vars, sessionVars>>

Waits(a, s, bad) ==
  /\ runtime'[a] = runtime[a] /\ SameLines(s) /\ Elsewhere(s)
  /\ applications'[a].current_mode = applications[a].current_mode
  /\ Grows(clients'[a].outbound, clients[a].outbound, bad)

LEMMA ServedMoves ==
  ASSUME CInv, [SystemNext]_systemVars, NEW a \in App, NEW s \in Session, Serves(a, s),
         NEW bad, NeverPosted(bad)
  PROVE  Takes(a, s) \/ Hears(a, s, bad) \/ Goes(a, s) \/ Waits(a, s, bad)
<1>1. YInv /\ EndsOK /\ OneProcess /\ VInv /\ SInv /\ [Next]_vars
  BY NextIsServers, NextIsServices DEF CInv, YInv, VInv
<1>2. /\ a \in Connected /\ a \in Connected' /\ s \in Registered
      /\ clients[a].id = identity[s].id
      /\ Outgoing(s) = clients[a].outbound /\ Outgoing(s)' = clients'[a].outbound
      /\ InSession(a, s) /\ InSession(a, s)'
      /\ stage[s] = "registered" /\ stage'[s] = "registered"
      /\ IsCurrent(s) /\ IsCurrent(s)' /\ SameSession(s) /\ identity[s].app = a
  BY ServedIsConnected DEF Serves, SameSession
<1>3. /\ clients[a].outbound \in Seq(SamToApplication)
      /\ up \in [Session -> Seq(ApplicationToSam)] /\ down \in [Session -> Seq(SamToApplication)]
      /\ clients \in [Connected -> ClientConnection]
  BY <1>1, <1>2 DEF SInv, ServiceTypeOK, ClientsTypeOK, ClientConnection, YInv, ChannelsTypeOK
<1>4. ASSUME Extends(clients'[a].outbound, clients[a].outbound)
      PROVE  Grows(clients'[a].outbound, clients[a].outbound, bad)
  <2>1. CASE Take(a)
    <3>1. clients[a].outbound # << >> /\ clients'[a].outbound = Tail(clients[a].outbound)
      BY <1>2, <1>3, <2>1 DEF Take, ClientConnection
    <3>2. Len(Tail(clients[a].outbound)) = Len(clients[a].outbound) - 1
            /\ Len(clients[a].outbound) \in Nat
      BY <1>3, <3>1, QueueLengths
    <3>3. Len(clients[a].outbound) <= Len(Tail(clients[a].outbound))
      BY <1>4, <3>1 DEF Extends
    <3> QED
      BY <3>2, <3>3
  <2>2. clients'[a].id = clients[a].id
    BY DEF Serves
  <2> QED
    BY <1>1, <1>2, <2>1, <2>2, OutboundGrows
<1>5. CASE SessionStep(s)
  <2>1. ~Registers(s) /\ ~Cuts(s)
    BY <1>1, <1>2, RegistersOwn, CutLeaves DEF Serves, YInv
  <2>2. /\ Delivers(s) \/ Handles(s)
        /\ UNCHANGED runtime
    BY <1>1, <1>2, <1>5, <2>1, SessionStepOwn
  <2>3. CASE Delivers(s)
    <3>1. Take(a) /\ up' = up
      BY <1>2, <2>3 DEF Delivers, Sends, Forward
    <3>2. /\ clients[a].outbound # << >> /\ clients'[a].outbound = Tail(clients[a].outbound)
          /\ UNCHANGED <<applications, modeVars>>
      BY <1>2, <1>3, <3>1 DEF Take, ClientConnection
    <3>3. \/ Head(Outgoing(s)).type \in {"StateBroadcast", "AbortMode"} /\ down' = down
          \/ down' = [down EXCEPT ![s] = Append(@, Head(Outgoing(s)))]
      BY <2>3 DEF Delivers, Sends
    <3>4. \/ Head(Outgoing(s)).type \in {"StateBroadcast", "AbortMode"} /\ down'[s] = down[s]
          \/ down'[s] = Append(down[s], Head(Outgoing(s)))
      BY <1>3, <3>3
    <3> QED
      BY <1>2, <2>2, <3>1, <3>2, <3>4 DEF Takes
  <2>4. CASE Handles(s)
    <3>1. up[s] # << >> /\ up'[s] = Tail(up[s]) /\ down'[s] = down[s]
      BY <1>3, <2>4 DEF Handles, Drained
    <3>2. Extends(Outgoing(s)', Outgoing(s))
      <4>1. CASE Receive(s, 0)
        BY <1>1, <1>2, <4>1, OutgoingLasts, TimeAssumption DEF LockWait
      <4>2. CASE UNCHANGED serverVars
        <5>1. UNCHANGED <<vars, identity, leftover>>
          BY <4>2 DEF serverVars, sessionVars
        <5> QED
          BY <1>1, <1>2, <5>1, OutgoingLasts, TimeAssumption DEF LockWait
      <4> QED
        BY <1>1, <2>4, <4>1, <4>2, HandlesIsServers
    <3> QED
      BY <1>2, <1>4, <2>2, <2>4, <3>1, <3>2 DEF Hears
  <2> QED
    BY <2>2, <2>3, <2>4
<1>6. CASE /\ Starts(a, s) \/ Beats(a, s) \/ Replies(a, s)
           /\ UNCHANGED <<vars, sessionVars, holder>>
  BY <1>6 DEF Goes
<1>7. CASE /\ runtime'[a] = runtime[a] /\ holder'[s] = holder[s]
           /\ SameSession(s) /\ SameLines(s) /\ Elsewhere(s)
  <2>1. applications'[a].current_mode = applications[a].current_mode
    BY <1>1, <1>2, <1>7, RecordIsOwn
  <2>2. Extends(Outgoing(s)', Outgoing(s))
    BY <1>1, <1>2, <1>7, ElsewhereExtends
  <2> QED
    BY <1>2, <1>4, <1>7, <2>1, <2>2 DEF Waits
<1> QED
  BY <1>1, <1>2, <1>5, <1>6, <1>7, SessionGoesOn
-----------------------------------------------------------------------------
\* The last round of the showcase

Moves == {m \in SamToApplication : m.type = "CommitMode" /\ m.mode # "Standby"}

Strays == {m \in ApplicationToSam : m.type = "Heartbeat" /\ m.mode # "Standby"}

Closings == {m \in SamToApplication : m.type = "CommitMode" /\ m.id = transitionId}

Confirmations == {m \in ApplicationToSam : m.type = "ModeCommitted" /\ m.id = transitionId}

\* The process is in Standby, and nothing on its way takes it elsewhere.
Settled(a, s) ==
  /\ runtime[a].at = "running" /\ runtime[a].mode = "Standby"
  /\ Free(down[s], Moves) /\ Free(clients[a].outbound, Moves)

\* And SAM knows it.
Arrived(a, s) ==
  Settled(a, s) /\ Free(up[s], Strays) /\ applications[a].current_mode = "Standby"

\* Behind this round's commit no other comes, and behind its confirmation no
\* heartbeat of an earlier mode.
Closing(a, s) ==
  /\ Clears(clients[a].outbound, Closings, Moves, TRUE)
  /\ Clears(down[s], Closings, Moves, Free(clients[a].outbound, Moves))
  /\ Clears(up[s], Confirmations, Strays, Settled(a, s))
  /\ a \in responded => Arrived(a, s)

FinalRound ==
  script = "showcase" /\ line = 14 =>
    /\ phase # "Stable" => waitingFor \cup responded = App
    /\ \A a \in App, s \in Session : InSession(a, s) =>
         /\ phase = "Committing" => Closing(a, s)
         /\ phase = "Stable" /\ systemMode = "Standby" => Arrived(a, s)

\* Nobody joins or leaves a round.
LEMMA RoundKeepsCrowd ==
  ASSUME SInv, [Next]_vars, phase # "Stable", phase' # "Stable"
  PROVE  /\ waitingFor' \cup responded' = waitingFor \cup responded
         /\ phase' # phase => phase = "Preparing" /\ responded' = {}
<1> DEFINE SameCrowd ==
      /\ waitingFor' \cup responded' = waitingFor \cup responded
      /\ phase' # phase => phase = "Preparing" /\ responded' = {}
<1>1. ASSUME UNCHANGED modeVars
      PROVE  SameCrowd
  BY <1>1 DEF modeVars
<1>2. ASSUME NEW m, RequestMode(m)
      PROVE  FALSE
  BY <1>2 DEF RequestMode, Modes!RequestTransition, Modes!AcceptsRequest
<1>3. ASSUME NEW a, NEW b, NEW c, NEW t, HandleModeReady(a, c, ModeReady(b, t))
      PROVE  SameCrowd
  BY <1>3 DEF HandleModeReady, Modes!ApplicationReady, Modes!AcceptsReady
<1>4. ASSUME NEW a, NEW b, NEW c, NEW t, HandleModeRejected(a, c, ModeRejected(b, t))
      PROVE  FALSE
  BY <1>4 DEF HandleModeRejected, Modes!ApplicationRejected, Modes!AcceptsRejection, Modes!Settle
<1>5. ASSUME NEW a, NEW b, NEW c, NEW t, NEW m, NEW wait,
             HandleModeCommitted(a, c, ModeCommitted(b, t, m), wait)
      PROVE  SameCrowd
  BY <1>5 DEF HandleModeCommitted, Modes!ApplicationCommitted, Modes!AcceptsCommit, Modes!Settle
<1>6. ASSUME NEW a, NEW c, NEW message, NEW wait,
             \/ Register(a, wait) \/ Disconnect(a, c, wait)
             \/ HandleHeartbeat(a, c, message, wait) \/ RefreshHealth(wait)
             \/ Take(a) \/ Tick \/ UNCHANGED vars
      PROVE  UNCHANGED modeVars
  BY <1>6 DEF Register, Disconnect, HandleHeartbeat, RefreshHealth, Take, Tick, vars
<1> HIDE DEF SameCrowd
<1>7. SameCrowd
  BY <1>1, <1>2, <1>3, <1>4, <1>5, <1>6, ServiceSteps
<1> QED
  BY <1>7 DEF SameCrowd

\* What a confirmation does that SAM takes.
Confirms(b) ==
  /\ b \in waitingFor /\ applications'[b].current_mode = target
  /\ \/ waitingFor = {b} /\ phase' = "Stable"
     \/ phase' = "Committing" /\ responded' = responded \cup {b}

\* When no preparation is going on a message reports a mode, confirms, or comes late.
LEMMA HandledThen ==
  ASSUME YInv, NEW s \in Session, Handles(s), phase # "Preparing"
  PROVE  \/ /\ Head(up[s]).type = "Heartbeat" /\ UNCHANGED modeVars
            /\ applications'[identity[s].app].current_mode = Head(up[s]).mode
         \/ phase = "Committing" /\ Head(up[s]) \in Confirmations /\ Confirms(identity[s].app)
         \/ UNCHANGED <<applications, modeVars>>
<1> DEFINE message == Head(up[s])
           a == identity[s].app
<1>1. /\ HandleMessage(a, identity[s].id, message)
      /\ message \in ApplicationToSam
      /\ a \in Connected /\ a \in Known /\ applications \in [Known -> ApplicationStatus]
  <2>1. up[s] \in Seq(ApplicationToSam) /\ up[s] # << >>
          /\ HandleMessage(a, identity[s].id, message)
    BY DEF Handles, YInv, ChannelsTypeOK
  <2>2. IsCurrent(s)
    BY DEF Handles, IsError
  <2> QED
    BY <2>1, <2>2, QueueRest
       DEF IsCurrent, VerifyConnection, YInv, VInv, SInv, Agreement, ClientsAreConnected,
           ServiceTypeOK, ClientsTypeOK, RegistryTypeOK
<1>2. CASE message.type = "Heartbeat" /\ HandleHeartbeat(a, identity[s].id, message, 0)
  <2>1. applications' = [applications EXCEPT ![a] =
          [current_mode |-> message.mode, health |-> message.health, age |-> 0, connected |-> TRUE]]
          /\ UNCHANGED modeVars
    BY <1>2 DEF HandleHeartbeat, UpdateHeartbeat
  <2> QED
    BY <1>1, <1>2, <2>1
<1>3. CASE HandleModeReady(a, identity[s].id, message) \/ HandleModeRejected(a, identity[s].id, message)
  BY <1>3 DEF HandleModeReady, Modes!ApplicationReady, Modes!AcceptsReady, HandleModeRejected,
              Modes!ApplicationRejected, Modes!AcceptsRejection
<1>4. CASE message.type = "ModeCommitted" /\ HandleModeCommitted(a, identity[s].id, message, 0)
  <2>1. /\ Modes!ApplicationCommitted(a, message.id, message.mode)
        /\ applications' = [applications EXCEPT ![a].current_mode = message.mode]
    BY <1>4 DEF HandleModeCommitted, SetMode
  <2>2. /\ phase = "Committing" /\ message.id = transitionId /\ message.mode = target
        /\ a \in waitingFor
        /\ \/ waitingFor = {a} /\ phase' = "Stable"
           \/ phase' = "Committing" /\ responded' = responded \cup {a}
    BY <2>1 DEF Modes!ApplicationCommitted, Modes!AcceptsCommit, Modes!Settle
  <2>3. applications[a] \in ApplicationStatus
    BY <1>1
  <2>4. applications'[a] = [applications[a] EXCEPT !.current_mode = message.mode]
    BY <1>1, <2>1
  <2>5. applications'[a].current_mode = target
    BY <2>2, <2>3, <2>4 DEF ApplicationStatus
  <2> QED
    BY <1>1, <1>4, <2>2, <2>5 DEF Confirmations, Confirms
<1>5. CASE UNCHANGED vars
  BY <1>5 DEF vars
<1> QED
  BY <1>1, <1>2, <1>3, <1>4, <1>5 DEF HandleMessage

\* Nobody confirms for an application but its own session.
LEMMA ElsewhereCounts ==
  ASSUME YInv, NEW s \in Session, IsCurrent(s), Elsewhere(s), phase = "Committing"
  PROVE  \/ UNCHANGED modeVars
         \/ \E b : b # identity[s].app /\ Confirms(b)
<1>1. ASSUME NEW r \in Session, r # s, Handles(r)
      PROVE  UNCHANGED modeVars \/ \E b : b # identity[s].app /\ Confirms(b)
  <2>1. IsCurrent(r)
    BY <1>1 DEF Handles, IsError
  <2>2. identity[r].app # identity[s].app
    BY <1>1, <2>1 DEF IsCurrent, VerifyConnection, YInv, VInv, IdsAreUnique
  <2> QED
    BY <1>1, <2>2, HandledThen
<1>2. ASSUME NEW r \in Session, SessionStep(r), ~Handles(r)
      PROVE  UNCHANGED modeVars
  BY <1>2 DEF SessionStep, ServerStep, Registers, RegisterSession, Register, Misses, Expires,
              EndUnregistered, Cut, Cuts, Delivers, Sends, Forward, Take, Refuses,
              SeesEnd, Break, Ends, Replaced, Teardown, Disconnect, vars
<1>3. CASE \E m \in SystemMode : Command(m)
  BY <1>3 DEF Command, RequestMode, Modes!RequestTransition, Modes!AcceptsRequest
<1>4. CASE Monitor \/ UNCHANGED <<vars, identity, leftover>>
  BY <1>4 DEF Monitor, RefreshHealth, vars
<1> QED
  BY <1>1, <1>2, <1>3, <1>4 DEF Elsewhere

\* What a process in its session takes and says.
LEMMA GoesThen ==
  ASSUME CInv, NEW a \in App, NEW s \in Session, Serves(a, s), Goes(a, s)
  PROVE  \/ /\ runtime[a].at = "registering" /\ up'[s] = up[s]
            /\ down[s] # << >> /\ down'[s] = Tail(down[s])
         \/ \E message \in ApplicationToSam :
              /\ up'[s] = Append(up[s], message)
              /\ runtime[a].at = "running" /\ runtime'[a].at = "running"
              /\ \/ /\ message.type = "Heartbeat" /\ message.mode = runtime[a].mode
                    /\ runtime'[a].mode = runtime[a].mode /\ down'[s] = down[s]
                 \/ /\ message.type \in {"ModeReady", "ModeRejected"}
                    /\ runtime'[a].mode = runtime[a].mode
                    /\ down[s] # << >> /\ down'[s] = Tail(down[s])
                 \/ /\ down[s] # << >> /\ down'[s] = Tail(down[s])
                    /\ Head(down[s]).type = "CommitMode"
                    /\ message.type = "ModeCommitted" /\ message.id = Head(down[s]).id
                    /\ message.mode = Head(down[s]).mode /\ runtime'[a].mode = message.mode
<1> DEFINE order == Head(down[s])
<1>1. /\ YInv /\ stage[s] = "registered" /\ InSession(a, s) /\ ~Deaf(s)
      /\ runtime \in [App -> Process] /\ up \in [Session -> Seq(ApplicationToSam)]
      /\ down \in [Session -> Seq(SamToApplication)] /\ runtime[a] \in Process
  BY DEF CInv, YInv, ChannelsTypeOK, Serves, Deaf
<1>2. ASSUME NEW message, Write(s, message)
      PROVE  up'[s] = Append(up[s], message)
  BY <1>1, <1>2 DEF Write
<1>3. CASE Starts(a, s)
  BY <1>1, <1>3 DEF Starts, ReceivesRegistration
<1>4. CASE Beats(a, s)
  <2>1. PICK h \in ReportedHealth : Write(s, Heartbeat(a, h, runtime[a].mode))
    BY <1>4 DEF Beats
  <2>2. Heartbeat(a, h, runtime[a].mode) \in ApplicationToSam
    BY <1>1, ApplicationMessages DEF Process
  <2>3. runtime'[a] = [runtime[a] EXCEPT !.reported = TRUE]
          /\ runtime[a].at = "running" /\ UNCHANGED down
    BY <1>1, <1>4 DEF Beats, Running
  <2>4. runtime'[a].at = "running" /\ runtime'[a].mode = runtime[a].mode
    BY <1>1, <2>3 DEF Process
  <2>5. Heartbeat(a, h, runtime[a].mode).type = "Heartbeat"
          /\ Heartbeat(a, h, runtime[a].mode).mode = runtime[a].mode
    BY DEF Heartbeat
  <2> QED
    BY <1>2, <2>1, <2>2, <2>3, <2>4, <2>5
<1>5. CASE Replies(a, s)
  <2>1. /\ down[s] # << >> /\ down'[s] = Tail(down[s]) /\ runtime[a].at = "running"
        /\ order \in SamToApplication
    BY <1>1, <1>5, QueueRest DEF Replies, Answers, Running
  <2>2. CASE Prepare(a, s, order)
    <3>1. PICK message \in {ModeReady(a, order.id), ModeRejected(a, order.id)} :
            up'[s] = Append(up[s], message)
      BY <1>2, <2>2 DEF Prepare
    <3>2. order.id \in TransitionId
      BY <2>1, <2>2, OrderParts DEF Prepare
    <3>3. message \in ApplicationToSam
      BY <3>1, <3>2, ApplicationMessages
    <3>4. message.type \in {"ModeReady", "ModeRejected"}
      BY <3>1 DEF ModeReady, ModeRejected
    <3>5. runtime'[a] = [runtime[a] EXCEPT !.handler = AfterPrepare(runtime[a].handler, order.mode)]
      BY <1>1, <2>2 DEF Prepare
    <3>6. runtime'[a].at = "running" /\ runtime'[a].mode = runtime[a].mode
      BY <1>1, <2>1, <3>5 DEF Process
    <3> QED
      BY <2>1, <3>1, <3>3, <3>4, <3>6
  <2>3. CASE Commits(a, s, order)
    <3> DEFINE message == ModeCommitted(a, order.id, order.mode)
    <3>1. up'[s] = Append(up[s], message) /\ order.type = "CommitMode"
      BY <1>2, <2>3 DEF Commits
    <3>2. order.id \in TransitionId /\ order.mode \in SystemMode
      BY <2>1, <3>1, OrderParts
    <3>3. message \in ApplicationToSam
      BY <3>2, ApplicationMessages
    <3>4. message.type = "ModeCommitted" /\ message.id = order.id /\ message.mode = order.mode
      BY DEF ModeCommitted
    <3>5. runtime'[a] = [[[[runtime[a] EXCEPT !.at = "running"]
            EXCEPT !.mode = order.mode] EXCEPT !.handler = runtime[a].handler] EXCEPT !.reported = FALSE]
      BY <1>1, <2>3 DEF Commits, Runs
    <3>6. runtime'[a].at = "running" /\ runtime'[a].mode = order.mode
      BY <1>1, <3>5 DEF Process
    <3> QED
      BY <2>1, <3>1, <3>3, <3>4, <3>6
  <2> QED
    BY <1>5, <2>2, <2>3 DEF Replies
<1> QED
  BY <1>3, <1>4, <1>5 DEF Goes

\* Whoever is in Standby with nothing on its way stays there.
LEMMA SettledLasts ==
  ASSUME CInv, [SystemNext]_systemVars, NEW a \in App, NEW s \in Session, Serves(a, s),
         NeverPosted(Moves), Settled(a, s)
  PROVE  Settled(a, s)'
<1>1. /\ a \in Connected /\ clients[a].outbound \in Seq(SamToApplication)
      /\ down[s] \in Seq(SamToApplication)
  BY ServedIsConnected
     DEF CInv, YInv, VInv, SInv, ServiceTypeOK, ClientsTypeOK, ClientConnection, ChannelsTypeOK
<1>2. /\ runtime[a].at = "running" /\ runtime[a].mode = "Standby"
      /\ Free(down[s], Moves) /\ Free(clients[a].outbound, Moves)
  BY DEF Settled
<1>3. ASSUME runtime'[a].at = "running", runtime'[a].mode = "Standby",
             Free(down'[s], Moves), Free(clients'[a].outbound, Moves)
      PROVE  Settled(a, s)'
  <2>1. Moves' = Moves
    BY DEF Moves
  <2> QED
    BY <1>3, <2>1 DEF Settled
<1>4. CASE Takes(a, s)
  <2>1. /\ clients[a].outbound # << >> /\ clients'[a].outbound = Tail(clients[a].outbound)
        /\ runtime'[a] = runtime[a]
        /\ down'[s] = down[s] \/ down'[s] = Append(down[s], Head(clients[a].outbound))
    BY <1>4 DEF Takes
  <2>2. Free(Tail(clients[a].outbound), Moves) /\ Head(clients[a].outbound) \notin Moves
    BY <1>1, <1>2, <2>1, FreeOfRest
  <2>3. Free(down'[s], Moves)
    BY <1>1, <1>2, <2>1, <2>2, FreeOfMore
  <2> QED
    BY <1>2, <1>3, <2>1, <2>2, <2>3
<1>5. CASE Hears(a, s, Moves) \/ Waits(a, s, Moves)
  <2>1. /\ runtime'[a] = runtime[a] /\ down'[s] = down[s]
        /\ Grows(clients'[a].outbound, clients[a].outbound, Moves)
    BY <1>5 DEF Hears, Waits, SameLines
  <2>2. Free(clients'[a].outbound, Moves)
    BY <1>1, <1>2, <2>1, GrowingKeeps
  <2> QED
    BY <1>2, <1>3, <2>1, <2>2
<1>6. CASE Goes(a, s)
  <2>1. clients'[a].outbound = clients[a].outbound
    BY <1>6 DEF Goes, vars
  <2>2. down[s] # << >> => Free(Tail(down[s]), Moves) /\ Head(down[s]) \notin Moves
                             /\ Head(down[s]) \in SamToApplication
    BY <1>1, <1>2, FreeOfRest, QueueRest
  <2>3. down[s] # << >> /\ Head(down[s]).type = "CommitMode" => Head(down[s]).mode = "Standby"
    BY <2>2 DEF Moves
  <2>4. runtime'[a].at = "running" /\ runtime'[a].mode = "Standby" /\ Free(down'[s], Moves)
    BY <1>2, <1>6, <2>2, <2>3, GoesThen
  <2> QED
    BY <1>2, <1>3, <2>1, <2>4
<1> QED
  BY <1>4, <1>5, <1>6, ServedMoves

\* And what SAM has recorded stays recorded.
LEMMA ArrivedLasts ==
  ASSUME CInv, [SystemNext]_systemVars, NEW a \in App, NEW s \in Session, Serves(a, s),
         NeverPosted(Moves), Arrived(a, s),
         phase # "Preparing", phase = "Committing" => target = "Standby"
  PROVE  Arrived(a, s)'
<1>1. /\ YInv /\ up[s] \in Seq(ApplicationToSam) /\ identity[s].app = a
      /\ Settled(a, s) /\ Free(up[s], Strays) /\ applications[a].current_mode = "Standby"
      /\ runtime[a].mode = "Standby"
  BY DEF CInv, YInv, ChannelsTypeOK, Serves, Arrived, Settled
<1>2. Settled(a, s)'
  BY <1>1, SettledLasts
<1>3. ASSUME Free(up'[s], Strays), applications'[a].current_mode = "Standby"
      PROVE  Arrived(a, s)'
  <2>1. Strays' = Strays
    BY DEF Strays
  <2> QED
    BY <1>2, <1>3, <2>1 DEF Arrived
<1>4. CASE Takes(a, s)
  BY <1>1, <1>3, <1>4 DEF Takes
<1>5. CASE Waits(a, s, Moves)
  BY <1>1, <1>3, <1>5 DEF Waits, SameLines
<1>6. CASE Hears(a, s, Moves)
  <2>1. Handles(s) /\ up[s] # << >> /\ up'[s] = Tail(up[s])
    BY <1>6 DEF Hears
  <2>2. Free(Tail(up[s]), Strays) /\ Head(up[s]) \notin Strays /\ Head(up[s]) \in ApplicationToSam
    BY <1>1, <2>1, ReportsRest, QueueRest
  <2>3. Head(up[s]).type = "Heartbeat" => Head(up[s]).mode = "Standby"
    BY <2>2 DEF Strays
  <2>4. applications'[a].current_mode = "Standby"
    BY <1>1, <2>1, <2>3, HandledThen DEF Confirms
  <2> QED
    BY <1>3, <2>1, <2>2, <2>4
<1>7. CASE Goes(a, s)
  <2>1. UNCHANGED applications
    BY <1>7 DEF Goes, vars
  <2>2. \/ up'[s] = up[s]
        \/ \E message \in ApplicationToSam :
             /\ up'[s] = Append(up[s], message)
             /\ message.type = "Heartbeat" => message.mode = "Standby"
    BY <1>1, <1>7, GoesThen
  <2>3. ASSUME NEW message \in ApplicationToSam, up'[s] = Append(up[s], message),
               message.type = "Heartbeat" => message.mode = "Standby"
        PROVE  Free(up'[s], Strays)
    <3>1. message \notin Strays
      BY <2>3 DEF Strays
    <3> QED
      BY <1>1, <2>3, <3>1, FreeOfMore
  <2>4. Free(up'[s], Strays)
    BY <1>1, <2>2, <2>3
  <2> QED
    BY <1>1, <1>3, <2>1, <2>4
<1> QED
  BY <1>4, <1>5, <1>6, <1>7, ServedMoves

\* The committing round leaves each application with one of these.
LEMMA ClosingBegins ==
  ASSUME CInv, NothingPremature, [SystemNext]_systemVars, NEW a \in App, NEW s \in Session,
         Serves(a, s), NeverPosted(Moves), phase = "Preparing", phase' = "Committing"
  PROVE  Closing(a, s)'
<1>1. YInv /\ SInv /\ [Next]_vars /\ VInv
  BY NextIsServers, NextIsServices DEF CInv, YInv, VInv
<1>2. /\ a \in Connected /\ clients[a].outbound \in Seq(SamToApplication)
      /\ up[s] \in Seq(ApplicationToSam)
  BY <1>1, ServedIsConnected
     DEF SInv, ServiceTypeOK, ClientsTypeOK, ClientConnection, YInv, ChannelsTypeOK
<1>3. responded' = {} /\ transitionId' = transitionId
  BY <1>1, RoundKeepsCrowd, RoundsAreNumbered
<1>4. EarlyCommits = Closings /\ EarlyReports = Confirmations
  BY DEF EarlyCommits, EarlyReports, Premature, Closings, Confirmations
<1>5. Free(clients[a].outbound, Closings) /\ Free(down[s], Closings) /\ Free(up[s], Confirmations)
  BY <1>2, <1>4 DEF NothingPremature, ServerFree, ServiceFree, DownFree
<1>6. Hears(a, s, Moves) \/ Waits(a, s, Moves)
  <2>1. ~Takes(a, s) /\ ~Goes(a, s)
    BY DEF Takes, Goes, vars, modeVars
  <2> QED
    BY <2>1, ServedMoves
<1>7. Clears(clients'[a].outbound, Closings, Moves, TRUE)
  <2>1. Grows(clients'[a].outbound, clients[a].outbound, Moves)
    BY <1>6 DEF Hears, Waits
  <2> QED
    BY <1>2, <1>5, <2>1, ClearsFree, GrowingKeeps
<1>8. Free(down'[s], Closings)
  BY <1>5, <1>6 DEF Hears, Waits, SameLines
<1>9. Free(up'[s], Confirmations)
  BY <1>2, <1>5, <1>6, ReportsRest DEF Hears, Waits, SameLines
<1>10. Moves' = Moves /\ Strays' = Strays /\ Closings' = Closings /\ Confirmations' = Confirmations
  BY <1>3 DEF Moves, Strays, Closings, Confirmations
<1> QED
  BY <1>3, <1>7, <1>8, <1>9, <1>10, ClearsFree DEF Closing

\* A confirmation that SAM hears comes from one who has arrived.
LEMMA HeardIsArrived ==
  ASSUME CInv, [SystemNext]_systemVars, NEW a \in App, NEW s \in Session, Serves(a, s),
         NeverPosted(Moves), phase = "Committing", target = "Standby",
         Clears(up[s], Confirmations, Strays, Settled(a, s)),
         Handles(s), up'[s] = Tail(up[s]), Head(up[s]) \in Confirmations, Confirms(a)
  PROVE  Arrived(a, s)'
<1>1. up[s] \in Seq(ApplicationToSam) /\ up[s] # << >>
  BY DEF CInv, YInv, ChannelsTypeOK, Handles
<1>2. Settled(a, s) /\ Free(Tail(up[s]), Strays)
  BY <1>1, ClearsRest
<1>3. Settled(a, s)'
  BY <1>2, SettledLasts
<1>4. Free(up'[s], Strays) /\ applications'[a].current_mode = "Standby" /\ Strays' = Strays
  BY <1>2 DEF Confirms, Strays
<1> QED
  BY <1>3, <1>4 DEF Arrived

LEMMA LastConfirms ==
  ASSUME CInv, [SystemNext]_systemVars, NEW a \in App, NEW s \in Session, Serves(a, s),
         NeverPosted(Moves), phase = "Committing", phase' = "Stable", target = "Standby",
         Closing(a, s), waitingFor \cup responded = App
  PROVE  Arrived(a, s)'
<1>1. YInv /\ IsCurrent(s) /\ identity[s].app = a /\ phase # "Preparing"
  BY DEF CInv, Serves
<1>2. ASSUME a \in responded
      PROVE  Arrived(a, s)'
  <2>1. Arrived(a, s)
    BY <1>2 DEF Closing
  <2> QED
    BY <1>1, <2>1, ArrivedLasts
<1>3. ~(UNCHANGED modeVars)
  BY DEF modeVars
<1>4. CASE Hears(a, s, Moves)
  <2>1. Handles(s) /\ up'[s] = Tail(up[s])
    BY <1>4 DEF Hears
  <2>2. Head(up[s]) \in Confirmations /\ Confirms(a)
    BY <1>1, <1>3, <2>1, HandledThen
  <2>3. Clears(up[s], Confirmations, Strays, Settled(a, s))
    BY DEF Closing
  <2> QED
    BY <2>1, <2>2, <2>3, HeardIsArrived
<1>5. CASE Waits(a, s, Moves)
  <2>1. PICK b : b # a /\ Confirms(b)
    BY <1>1, <1>3, <1>5, ElsewhereCounts DEF Waits
  <2>2. waitingFor = {b}
    BY <2>1 DEF Confirms
  <2> QED
    BY <1>2, <2>1, <2>2
<1>6. ~Takes(a, s) /\ ~Goes(a, s)
  BY <1>3 DEF Takes, Goes, vars
<1> QED
  BY <1>4, <1>5, <1>6, ServedMoves

\* Whom SAM counts has arrived.
LEMMA CountedIsArrived ==
  ASSUME CInv, [SystemNext]_systemVars, NEW a \in App, NEW s \in Session, Serves(a, s),
         NeverPosted(Moves), phase = "Committing", phase' = "Committing", target = "Standby",
         Closing(a, s), a \in responded'
  PROVE  Arrived(a, s)'
<1>1. YInv /\ IsCurrent(s) /\ identity[s].app = a /\ phase # "Preparing"
  BY DEF CInv, Serves
<1>2. ASSUME a \in responded
      PROVE  Arrived(a, s)'
  <2>1. Arrived(a, s)
    BY <1>2 DEF Closing
  <2> QED
    BY <1>1, <2>1, ArrivedLasts
<1>3. UNCHANGED modeVars => a \in responded
  BY DEF modeVars
<1>4. CASE Hears(a, s, Moves)
  <2>1. Handles(s) /\ up'[s] = Tail(up[s])
    BY <1>4 DEF Hears
  <2>2. a \in responded \/ (Head(up[s]) \in Confirmations /\ Confirms(a))
    BY <1>1, <1>3, <2>1, HandledThen
  <2>3. Clears(up[s], Confirmations, Strays, Settled(a, s))
    BY DEF Closing
  <2> QED
    BY <1>2, <2>1, <2>2, <2>3, HeardIsArrived
<1>5. CASE Waits(a, s, Moves)
  <2>1. a \in responded \/ \E b : b # a /\ Confirms(b)
    BY <1>1, <1>3, <1>5, ElsewhereCounts DEF Waits
  <2> QED
    BY <1>2, <2>1 DEF Confirms
<1>6. CASE Takes(a, s) \/ Goes(a, s)
  BY <1>2, <1>3, <1>6 DEF Takes, Goes, vars
<1> QED
  BY <1>4, <1>5, <1>6, ServedMoves

LEMMA ClosingLasts ==
  ASSUME CInv, OrdersTrue, [SystemNext]_systemVars, NEW a \in App, NEW s \in Session,
         Serves(a, s), NeverPosted(Moves),
         phase = "Committing", phase' = "Committing", target = "Standby", Closing(a, s)
  PROVE  Closing(a, s)'
<1> DEFINE out == clients[a].outbound
           still == Settled(a, s)
           clean == Free(out, Moves)
           Queues == Clears(clients'[a].outbound, Closings, Moves, TRUE)
           Brings == Clears(down'[s], Closings, Moves, Free(clients'[a].outbound, Moves))
           Reports == Clears(up'[s], Confirmations, Strays, Settled(a, s)')
<1>1. YInv /\ SInv /\ [Next]_vars /\ VInv
  BY NextIsServers, NextIsServices DEF CInv, YInv, VInv
<1>2. /\ a \in Connected /\ out \in Seq(SamToApplication)
      /\ up[s] \in Seq(ApplicationToSam) /\ down[s] \in Seq(SamToApplication)
  BY <1>1, ServedIsConnected
     DEF SInv, ServiceTypeOK, ClientsTypeOK, ClientConnection, YInv, ChannelsTypeOK
<1>3. transitionId' = transitionId
  BY <1>1, RoundsAreNumbered
<1>4. Moves' = Moves /\ Strays' = Strays /\ Closings' = Closings /\ Confirmations' = Confirmations
  BY <1>3 DEF Moves, Strays, Closings, Confirmations
<1>5. a \in responded' => Arrived(a, s)'
  BY CountedIsArrived
<1>6. SUFFICES Queues /\ Brings /\ Reports
  BY <1>4, <1>5 DEF Closing
<1>7. /\ Clears(out, Closings, Moves, TRUE) /\ Clears(down[s], Closings, Moves, clean)
      /\ Clears(up[s], Confirmations, Strays, still)
  BY DEF Closing
<1>8. still => Settled(a, s)'
  BY SettledLasts
<1>9. Clears(up[s], Confirmations, Strays, Settled(a, s)')
  BY <1>7, <1>8, ClearsElsewhere
<1>10. CASE Takes(a, s)
  <2> DEFINE message == Head(out)
  <2>1. /\ out # << >> /\ clients'[a].outbound = Tail(out) /\ up'[s] = up[s]
        /\ down'[s] = down[s] \/ down'[s] = Append(down[s], message)
    BY <1>10 DEF Takes
  <2>2. /\ Clears(Tail(out), Closings, Moves, TRUE)
        /\ message \in Closings => Free(Tail(out), Moves)
    BY <1>2, <1>7, <2>1, ClearsRest
  <2>3. clean => Free(Tail(out), Moves) /\ message \notin Moves
    BY <1>2, <2>1, FreeOfRest
  <2>4. Clears(down[s], Closings, Moves, Free(Tail(out), Moves))
    BY <1>7, <2>3, ClearsElsewhere
  <2>5. message \in Moves => Free(down[s], Closings)
    BY <1>7, <2>3, ClearsElsewhere
  <2>6. Clears(Append(down[s], message), Closings, Moves, Free(Tail(out), Moves))
    BY <1>2, <2>2, <2>4, <2>5, ClearsMore
  <2> QED
    BY <1>9, <2>1, <2>2, <2>4, <2>6
<1>11. CASE Hears(a, s, Moves) \/ Waits(a, s, Moves)
  <2>1. /\ down'[s] = down[s]
        /\ up'[s] = up[s] \/ (up[s] # << >> /\ up'[s] = Tail(up[s]))
        /\ Grows(clients'[a].outbound, out, Moves)
    BY <1>11 DEF Hears, Waits, SameLines
  <2>2. Queues /\ (clean => Free(clients'[a].outbound, Moves))
    BY <1>2, <1>7, <2>1, GrowingKeeps
  <2>3. Brings
    BY <1>7, <2>1, <2>2, ClearsElsewhere
  <2>4. up[s] # << >> => Clears(Tail(up[s]), Confirmations, Strays, Settled(a, s)')
    BY <1>2, <1>9, ClearsRest
  <2> QED
    BY <1>9, <2>1, <2>2, <2>3, <2>4
<1>12. CASE Goes(a, s)
  <2> DEFINE order == Head(down[s])
  <2>1. clients'[a].outbound = out
    BY <1>12 DEF Goes, vars
  <2>2. down[s] # << >> => /\ Clears(Tail(down[s]), Closings, Moves, clean)
                           /\ order \in Closings => clean /\ Free(Tail(down[s]), Moves)
                           /\ order \in SamToApplication
    BY <1>2, <1>7, ClearsRest, QueueRest
  <2>3. down'[s] = down[s] \/ (down[s] # << >> /\ down'[s] = Tail(down[s]))
    BY <1>12, GoesThen
  <2>4. Queues /\ Brings
    BY <1>7, <2>1, <2>2, <2>3
  <2>5. ASSUME NEW message \in ApplicationToSam, up'[s] = Append(up[s], message),
               message \in Strays => ~still,
               message \in Confirmations => Settled(a, s)'
        PROVE  Reports
    <3>1. message \in Strays => Free(up[s], Confirmations)
      BY <1>7, <2>5, ClearsElsewhere
    <3> QED
      BY <1>2, <1>9, <2>5, <3>1, ClearsMore
  <2>6. CASE up'[s] = up[s]
    BY <1>9, <2>4, <2>6
  <2>7. ASSUME NEW message \in ApplicationToSam, up'[s] = Append(up[s], message),
               message.type = "Heartbeat", message.mode = runtime[a].mode
        PROVE  Reports
    <3>1. (message \in Strays => ~still) /\ message \notin Confirmations
      BY <2>7 DEF Strays, Confirmations, Settled
    <3> QED
      BY <2>5, <2>7, <3>1
  <2>8. ASSUME NEW message \in ApplicationToSam, up'[s] = Append(up[s], message),
               message.type \in {"ModeReady", "ModeRejected"}
        PROVE  Reports
    <3>1. message \notin Strays /\ message \notin Confirmations
      BY <2>8 DEF Strays, Confirmations
    <3> QED
      BY <2>5, <2>8, <3>1
  <2>9. ASSUME NEW message \in ApplicationToSam, up'[s] = Append(up[s], message),
               down[s] # << >>, down'[s] = Tail(down[s]), order.type = "CommitMode",
               message.type = "ModeCommitted", message.id = order.id, message.mode = order.mode,
               runtime'[a].at = "running", runtime'[a].mode = message.mode
        PROVE  Reports
    <3>1. message \notin Strays
      BY <2>9 DEF Strays
    <3>2. ASSUME message \in Confirmations
          PROVE  Settled(a, s)'
      <4>1. order \in Closings /\ order.id = transitionId
        BY <2>2, <2>9, <3>2 DEF Closings, Confirmations
      <4>2. clean /\ Free(Tail(down[s]), Moves)
        BY <2>2, <2>9, <4>1
      <4>3. order \notin FalseOrders
        BY <1>2, <2>9, FreeOfRest DEF OrdersTrue, DownFree
      <4>4. order.mode = "Standby"
        BY <2>2, <2>9, <4>1, <4>3 DEF FalseOrders, Untrue
      <4> QED
        BY <1>4, <2>1, <2>9, <4>2, <4>4 DEF Settled
    <3> QED
      BY <2>5, <2>9, <3>1, <3>2
  <2>10. Reports
    BY <1>9, <1>12, <2>6, <2>7, <2>8, <2>9, GoesThen
  <2> QED
    BY <2>4, <2>10
<1> QED
  BY <1>10, <1>11, <1>12, ServedMoves

\* In the last line only the round that it requests goes on.
LEMMA FinalMoves ==
  ASSUME SInv, DriverInv, TelemetryStays, [ExecutableNext]_allVars, Intact',
         script' = "showcase", line' = 14, line = 13 => systemMode = "Working"
  PROVE  /\ script = "showcase"
         /\ \/ line = 14 /\ (SystemStep \/ UNCHANGED systemVars)
            \/ line = 13 /\ phase = "Stable" /\ Requests
<1>1. script = "showcase"
  BY ScriptIsFixed
<1>2. line \in Nat
  BY <1>1, ShowcaseMoves
<1>3. CASE Quiet
  BY <1>1, <1>3 DEF Quiet
<1>4. CASE PowerOff \/ PowerOn
  <2>1. line = 14 /\ trouble # 2
    BY <1>4 DEF PowerOff, PowerOn
  <2> QED
    BY <1>1, <2>1 DEF TelemetryStays, BeforeRefusal
<1>5. CASE UNCHANGED systemVars /\ line' = line + 1 /\ line \in 1 .. 14
             /\ Now = Showcase[line] /\ Now.do \in Polls
  <2>1. line = 13
    BY <1>5
  <2>2. Now.do = "request"
    BY <1>5, <2>1, ShowcaseLines, Words
  <2> QED
    BY <1>5, <2>2 DEF Polls
<1>6. CASE line \in {2, 11, 13} /\ line' = line + 2
  BY <1>6
<1>7. CASE line \in {2, 8, 11, 13} /\ line' = line + 1 /\ phase = "Stable" /\ Requests
  BY <1>1, <1>7
<1>8. CASE UNCHANGED <<systemVars, line>>
  BY <1>1, <1>8
<1>9. CASE line = 10 /\ line' = 11
  BY <1>9
<1> QED
  BY <1>1, <1>3, <1>4, <1>5, <1>6, <1>7, <1>8, <1>9, ShowcaseMoves

LEMMA NextKeepsFinalRound ==
  ASSUME TInv, NothingPremature, TelemetryStays, Seen, FinalRound,
         [ExecutableNext]_allVars, Intact'
  PROVE  FinalRound'
<1> SUFFICES ASSUME script' = "showcase", line' = 14
             PROVE  /\ phase' # "Stable" => waitingFor' \cup responded' = App
                    /\ \A a \in App, s \in Session : InSession(a, s)' =>
                         /\ phase' = "Committing" => Closing(a, s)'
                         /\ phase' = "Stable" /\ systemMode' = "Standby" => Arrived(a, s)'
  BY DEF FinalRound
<1>1. /\ CInv /\ YInv /\ VInv /\ SInv /\ OrdersTrue /\ OthersStay /\ DriverInv
      /\ [SystemNext]_systemVars /\ [Next]_vars
  BY StepIsSystems, NextIsServers, NextIsServices DEF TInv, CInv, YInv, VInv
<1>2. /\ script = "showcase" /\ line \in Nat
      /\ \/ line = 14 /\ (SystemStep \/ UNCHANGED systemVars)
         \/ line = 13 /\ phase = "Stable" /\ Requests
  <2>1. script = "showcase"
    BY ScriptIsFixed
  <2>2. line = 13 => systemMode = "Working"
    BY <2>1 DEF Seen
  <2> QED
    BY <1>1, <2>1, <2>2, FinalMoves DEF DriverInv
<1>3. Unharmed /\ \A a \in App : Stays(a) /\ a \in Connected
  BY <1>1, <1>2, AllStay DEF OthersStay
<1>4. CASE line = 13 /\ Requests
  <2>1. Connected = App
    BY <1>1, <1>3 DEF SInv, ServiceTypeOK, ClientsTypeOK
  <2>2. phase' = "Preparing" /\ waitingFor' = Connected /\ responded' = {}
    BY <1>4 DEF Requests, Command, RequestMode, Modes!RequestTransition
  <2> QED
    BY <2>1, <2>2
<1>5. CASE line = 14 /\ (SystemStep \/ UNCHANGED systemVars)
  <2>1. /\ phase # "Stable" => waitingFor \cup responded = App
        /\ \A a \in App, s \in Session : InSession(a, s) =>
             /\ phase = "Committing" => Closing(a, s)
             /\ phase = "Stable" /\ systemMode = "Standby" => Arrived(a, s)
    BY <1>2, <1>5 DEF FinalRound
  <2>2. phase' # "Stable" => phase # "Stable" /\ UNCHANGED <<target, transitionId>>
    BY <1>1, <1>5, NoRoundByItself
  <2>3. phase # "Stable" => target = "Standby"
    <3>1. Instructions = Showcase /\ line = 14 /\ script # "console"
      BY <1>2, <1>5 DEF Instructions
    <3>2. Now = Reached("Standby") /\ line <= Len(Instructions)
      BY <3>1, ShowcaseLines DEF Now
    <3>3. Now.do = "reached" /\ Now.mode = "Standby"
      BY <3>2, Words
    <3> QED
      BY <1>1, <3>1, <3>2, <3>3 DEF DriverInv
  <2>4. NeverPosted(Moves)
    <3>1. \A h : RegisterAccepted(systemMode, h) \notin Moves
      BY DEF Moves, RegisterAccepted
    <3>2. phase' # "Stable" => RoundOrder' \notin Moves
      BY <2>2, <2>3 DEF RoundOrder, PrepareMode, CommitMode, Moves
    <3> QED
      BY <3>1, <3>2 DEF NeverPosted, Moves
  <2>5. phase' # "Stable" => waitingFor' \cup responded' = App
    BY <1>1, <2>1, <2>2, RoundKeepsCrowd
  <2>6. ASSUME NEW a \in App, NEW s \in Session, InSession(a, s)'
        PROVE  /\ phase' = "Committing" => Closing(a, s)'
               /\ phase' = "Stable" /\ systemMode' = "Standby" => Arrived(a, s)'
    <3>1. Serves(a, s)
      <4>1. PICK r \in Session : Serves(a, r)
        BY <1>1, <1>3, <1>5, SessionHolds DEF Regular
      <4> QED
        BY <2>6, <4>1 DEF Serves, InSession
    <3>2. InSession(a, s)
      BY <3>1 DEF Serves
    <3>3. phase \in {"Stable", "Preparing", "Committing"}
      BY <1>1 DEF SInv, Manager!IInv, Manager!TypeOK
    <3>4. CASE phase' = "Committing"
      <4>1. phase = "Preparing" => Closing(a, s)'
        BY <1>1, <2>4, <3>1, <3>4, ClosingBegins
      <4>2. phase = "Committing" => Closing(a, s)'
        BY <1>1, <2>1, <2>3, <2>4, <3>1, <3>2, <3>4, ClosingLasts
      <4> QED
        BY <2>2, <3>3, <3>4, <4>1, <4>2
    <3>5. CASE phase' = "Stable" /\ systemMode' = "Standby"
      <4>1. CASE phase = "Stable"
        <5>1. systemMode = "Standby"
          BY <1>1, <3>5, <4>1, ModeIsTargets
        <5>2. Arrived(a, s)
          BY <2>1, <3>2, <4>1, <5>1
        <5>3. phase # "Preparing" /\ (phase = "Committing" => target = "Standby")
          BY <4>1
        <5> QED
          BY <1>1, <2>4, <3>1, <3>5, <5>2, <5>3, ArrivedLasts
      <4>2. CASE phase = "Preparing"
        <5>1. systemMode = "Standby"
          BY <1>1, <3>5, <4>2, ModeIsTargets
        <5>2. target # systemMode
          BY <1>1, <4>2 DEF SInv, Agreement, AuthoritativeModeAgrees, Manager!IInv,
                            Manager!TransitionWellFormed
        <5> QED
          BY <2>3, <4>2, <5>1, <5>2
      <4>3. CASE phase = "Committing"
        BY <1>1, <2>1, <2>3, <2>4, <3>1, <3>2, <3>5, <4>3, LastConfirms
      <4> QED
        BY <3>3, <4>1, <4>2, <4>3
    <3> QED
      BY <3>4, <3>5
  <2> QED
    BY <2>5, <2>6
<1> QED
  BY <1>2, <1>4, <1>5

\* What the poll at the end of the showcase finds.
LEMMA EndIsAll ==
  ASSUME TInv, TelemetryStays, Seen, FinalRound,
         script = "showcase", line = 14, systemMode = "Standby"
  PROVE  /\ phase = "Stable" /\ trouble = 2 /\ runtime[Telemetry].handler = "agrees"
         /\ decided = SystemMode
         /\ \A a \in App : Synchronized(a) /\ runtime[a].mode = "Standby"
<1>1. CInv /\ YInv /\ SInv /\ EInv /\ OthersStay /\ DriverInv
  BY DEF TInv, CInv, YInv, VInv
<1>2. phase = "Stable"
  <2>1. Instructions = Showcase /\ script # "console"
    BY DEF Instructions
  <2>2. Now = Reached("Standby") /\ line <= Len(Instructions)
    BY <2>1, ShowcaseLines DEF Now
  <2>3. Now.do = "reached" /\ Now.mode = "Standby"
    BY <2>2, Words
  <2>4. phase # "Stable" => target = "Standby"
    BY <1>1, <2>1, <2>2, <2>3 DEF DriverInv
  <2> QED
    BY <1>1, <2>4
       DEF SInv, Agreement, AuthoritativeModeAgrees, Manager!IInv, Manager!TransitionWellFormed
<1>3. decided = SystemMode
  <2>1. "Startup" \in decided /\ "Standby" \in decided /\ "Working" \in decided
          /\ decided \subseteq SystemMode
    BY <1>1 DEF EInv, Seen
  <2> QED
    BY <2>1 DEF SystemMode
<1>4. trouble = 2 /\ runtime[Telemetry].handler = "agrees"
  <2>1. ~BeforeRefusal
    BY DEF BeforeRefusal
  <2> QED
    BY <2>1 DEF TelemetryStays, Stays
<1>5. \A a \in App : Stays(a) /\ a \in Connected
  <2>1. line \in Nat /\ line >= 10
    OBVIOUS
  <2> QED
    BY <1>1, <2>1, AllStay
<1>6. ASSUME NEW a \in App
      PROVE  Synchronized(a) /\ runtime[a].mode = "Standby"
  <2>1. PICK s \in Session : InSession(a, s)
    BY <1>1, <1>5, ConnectedIsThere DEF Stays
  <2>2. Arrived(a, s)
    BY <1>2, <2>1 DEF FinalRound
  <2>3. applications[a].connected
    BY <1>1, <1>5 DEF SInv, Agreement, ClientsAreConnected
  <2> QED
    BY <2>2, <2>3 DEF Arrived, Settled, Synchronized
<1> QED
  BY <1>2, <1>3, <1>4, <1>6

\* Only that poll passes.
LEMMA PassesAtTheEnd ==
  ASSUME SInv, DriverInv, [ExecutableNext]_allVars, line = 13 => systemMode = "Working",
         script' = "showcase", outcome # "passed", outcome' = "passed"
  PROVE  /\ script = "showcase" /\ line = 14 /\ systemMode = "Standby"
         /\ UNCHANGED <<systemVars, trouble>> /\ Remember
<1>1. /\ outcome = "running" /\ While(DriverStep) /\ script = "showcase"
      /\ Remember /\ DriverStep /\ UNCHANGED <<script, trouble>>
  BY DEF ExecutableNext, Alone, While, DriverStep, Operate, Fail, ComeBack, PowerOff, PowerOn,
         LoseFrame, driverVars, allVars
<1>2. /\ Instructions = Showcase /\ Len(Instructions) = 14 /\ script # "console"
      /\ line \in 1 .. 14 /\ Now = Showcase[line]
  <2>1. Instructions = Showcase /\ Len(Instructions) = 14
    BY <1>1, ShowcaseLines DEF Instructions
  <2> QED
    BY <1>1, <2>1 DEF DriverStep, Active, DriverInv, Now
<1>3. \A n : Goto(n) => n > 14
  BY <1>2 DEF Goto
<1>4. CASE Poll
  <2>1. line + 1 > 14 /\ UNCHANGED systemVars /\ Holds(Now)
    BY <1>3, <1>4 DEF Poll
  <2>2. line = 14
    BY <1>2, <2>1
  <2>3. Now.do = "reached" /\ Now.mode = "Standby"
    BY <1>2, <2>2, ShowcaseLines, Words
  <2>4. systemMode = "Standby"
    BY <2>1, <2>3 DEF Holds
  <2> QED
    BY <1>1, <2>1, <2>2, <2>4
<1>5. CASE GiveUp
  BY <1>5 DEF GiveUp, Return
<1>6. CASE Skip
  <2>1. line + 2 > 14 /\ Now.do = "request" /\ systemMode = Now.mode
    BY <1>3, <1>6 DEF Skip
  <2>2. line \in {13, 14}
    BY <1>2, <2>1
  <2>3. line # 14
    BY <1>2, <2>1, ShowcaseLines, Words
  <2>4. line = 13 /\ Now.mode = "Standby"
    BY <1>2, <2>2, <2>3, ShowcaseLines, Words
  <2> QED
    BY <2>1, <2>4
<1>7. CASE Check
  BY <1>7 DEF Check
<1>8. CASE Issue
  <2>1. Now.do \in {"request", "requestRefused"} /\ line + 1 > 14
    BY <1>2, <1>3, <1>8 DEF Issue, Return, DriverInv, HasChecked
  <2>2. line = 14
    BY <1>2, <2>1
  <2> QED
    BY <1>2, <2>1, <2>2, ShowcaseLines, Words
<1>9. CASE Verify
  <2>1. Now.do = "unchanged" /\ line + 1 > 14
    BY <1>3, <1>9 DEF Verify, Return
  <2>2. line = 14
    BY <1>2, <2>1
  <2> QED
    BY <1>2, <2>1, <2>2, ShowcaseLines, Words
<1> QED
  BY <1>1, <1>4, <1>5, <1>6, <1>7, <1>8, <1>9 DEF DriverStep

\* As long as no frame is lost.
AInv ==
  /\ TInv
  /\ NothingPremature /\ RejectedOnce /\ TelemetryStays /\ Seen
  /\ FinalRound
  /\ PassedMeansAll

PInv == cuts \in Nat /\ (Intact => AInv)

LEMMA NextKeepsPassed ==
  ASSUME AInv, Intact, [ExecutableNext]_allVars
  PROVE  PassedMeansAll'
<1> SUFFICES ASSUME script' = "showcase", outcome' = "passed"
             PROVE  /\ trouble' = 2 /\ runtime'[Telemetry].handler = "agrees"
                    /\ decided' = SystemMode
                    /\ \A a \in App : Synchronized(a)' /\ runtime'[a].mode = "Standby"
  BY DEF PassedMeansAll
<1>1. CASE outcome = "passed"
  <2>1. UNCHANGED allVars
    BY <1>1 DEF ExecutableNext, Alone, While
  <2> QED
    BY <1>1, <2>1
       DEF AInv, PassedMeansAll, Synchronized, allVars, systemVars, serverVars, vars, clientVars,
           driverVars, historyVars
<1>2. CASE outcome # "passed"
  <2>1. SInv /\ DriverInv
    BY DEF AInv, TInv, CInv, YInv, VInv
  <2>2. script = "showcase"
    BY ScriptIsFixed
  <2>3. line = 13 => systemMode = "Working"
    BY <2>2 DEF AInv, Seen
  <2>4. /\ line = 14 /\ systemMode = "Standby"
        /\ UNCHANGED <<systemVars, trouble>> /\ Remember
    BY <1>2, <2>1, <2>3, PassesAtTheEnd
  <2>5. /\ phase = "Stable" /\ trouble = 2 /\ runtime[Telemetry].handler = "agrees"
        /\ decided = SystemMode
        /\ \A a \in App : Synchronized(a) /\ runtime[a].mode = "Standby"
    BY <2>2, <2>4, EndIsAll DEF AInv
  <2>6. UNCHANGED <<applications, systemMode, phase, runtime, trouble>>
    BY <2>4 DEF systemVars, serverVars, vars, modeVars, clientVars
  <2>7. decided' = SystemMode
    BY <2>4, <2>5, <2>6 DEF Remember
  <2> QED
    BY <2>5, <2>6, <2>7 DEF Synchronized
<1> QED
  BY <1>1, <1>2

LEMMA InitPInv == ExecutableInit => PInv
<1> SUFFICES ASSUME ExecutableInit
             PROVE  PInv
  OBVIOUS
<1>1. cuts = 0 /\ Intact
  BY DEF ExecutableInit, Intact
<1>2. /\ TInv /\ SystemInit /\ line = 1 /\ outcome = "running" /\ decided = {"Startup"}
      /\ up = [s \in Session |-> << >>]
  BY <1>1, InitDInv DEF DInv, ExecutableInit, SystemInit
<1>3. NothingPremature
  BY <1>2, InitPremature
<1>4. RejectedOnce
  BY <1>2, FreeOfNone DEF RejectedOnce
<1>5. TelemetryStays /\ FinalRound /\ PassedMeansAll
  BY <1>2 DEF TelemetryStays, BeforeRefusal, FinalRound, PassedMeansAll
<1>6. Seen
  BY <1>2 DEF Seen, SystemMode
<1> QED
  BY <1>1, <1>2, <1>3, <1>4, <1>5, <1>6 DEF PInv, AInv

LEMMA NextKeepsPInv == PInv /\ [ExecutableNext]_allVars => PInv'
<1> SUFFICES ASSUME PInv, [ExecutableNext]_allVars
             PROVE  PInv'
  OBVIOUS
<1>1. cuts' \in Nat /\ (Intact' => Intact)
  BY CutsAreCounted DEF PInv
<1> SUFFICES ASSUME Intact'
             PROVE  AInv'
  BY <1>1 DEF PInv
<1>2. AInv /\ Intact
  BY <1>1 DEF PInv
<1>3. /\ TInv /\ CInv /\ OrdersTrue /\ NothingPremature /\ RejectedOnce /\ TelemetryStays
      /\ Seen /\ FinalRound /\ [SystemNext]_systemVars
  BY <1>2, StepIsSystems DEF AInv, TInv
<1>4. TInv' /\ NothingPremature' /\ RejectedOnce' /\ TelemetryStays' /\ Seen' /\ FinalRound'
  BY <1>3, NextKeepsTInv, NextKeepsPremature, NextKeepsRejected, NextKeepsTelemetry, NextKeepsSeen,
     NextKeepsFinalRound
<1> QED
  BY <1>2, <1>4, NextKeepsPassed DEF AInv

\* DEMO_GUIDE.md:58-66: what SHOWCASE PASSED means, for any number of
\* applications and whatever their processes and their connections are doing
\* while the launcher cuts and restores telemetry's power, as long as no
\* session of SAM's drops a frame half-read.
THEOREM ShowcaseMeansAll == ExecutableSpec => []PassedMeansAll
<1>1. PInv => PassedMeansAll
  BY DEF PInv, AInv, PassedMeansAll
<1> QED
  BY <1>1, InitPInv, NextKeepsPInv, PTL DEF ExecutableSpec
=============================================================================
