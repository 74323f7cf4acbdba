-------------------------- MODULE ModeManagerProofs --------------------------
(***************************************************************************)
(* ModeManager, for every set of applications and every id space: type     *)
(* correctness and TransitionWellFormed as one inductive invariant, the    *)
(* action property NoWayBack, and the refinement of ModeConsensus.         *)
(***************************************************************************)
EXTENDS ModeManager, TLAPS

\* wrapping_add stays within the 64 bits.
LEMMA NextIdType ==
  ASSUME NEW t \in TransitionId
  PROVE  NextId(t) \in TransitionId
BY IdSpaceAssumption, SMT DEF NextId, TransitionId

\* The two sets of the coordinator: the invariant is inductive because each
\* accepted answer moves its sender from one set to the other, and the last
\* one leaves the phase instead of leaving waiting_for empty.
IInv == TypeOK /\ TransitionWellFormed

LEMMA InitIInv == Init => IInv
<1> SUFFICES ASSUME NEW m \in SystemMode, New(m)
             PROVE  IInv
  BY DEF Init
<1>1. 1 % IdSpace \in TransitionId
  BY IdSpaceAssumption, SMT DEF TransitionId
<1> QED
  BY <1>1 DEF New, IInv, TypeOK, TransitionWellFormed

LEMMA SettleKeepsIInv ==
  ASSUME IInv, NEW m \in SystemMode, Settle(m)
  PROVE  IInv'
BY DEF Settle, IInv, TypeOK, TransitionWellFormed

LEMMA RequestKeepsIInv ==
  ASSUME IInv, NEW m \in SystemMode, NEW participants \in SUBSET App,
         RequestTransition(m, participants)
  PROVE  IInv'
<1>1. NextId(nextTransitionId) \in TransitionId
  BY NextIdType DEF IInv, TypeOK
<1>2. TypeOK'
  BY <1>1 DEF RequestTransition, IInv, TypeOK
<1>3. nextTransitionId # NoTransition
  BY IdSpaceAssumption, SMT DEF IInv, TypeOK, TransitionId, NoTransition
<1>4. TransitionWellFormed'
  BY <1>3 DEF RequestTransition, AcceptsRequest, TransitionWellFormed, NoTransition
<1> QED
  BY <1>2, <1>4 DEF IInv

LEMMA ReadyKeepsIInv ==
  ASSUME IInv, NEW a \in App, NEW t \in TransitionId, ApplicationReady(a, t)
  PROVE  IInv'
<1> USE DEF IInv, ApplicationReady, AcceptsReady
<1>1. CASE waitingFor = {a}
  BY <1>1 DEF TypeOK, TransitionWellFormed, NoTransition
<1>2. CASE waitingFor # {a}
  BY <1>2 DEF TypeOK, TransitionWellFormed, NoTransition
<1> QED
  BY <1>1, <1>2

LEMMA RejectedKeepsIInv ==
  ASSUME IInv, NEW a \in App, NEW t \in TransitionId, ApplicationRejected(a, t)
  PROVE  IInv'
BY SettleKeepsIInv DEF ApplicationRejected, IInv, TypeOK

LEMMA CommittedKeepsIInv ==
  ASSUME IInv, NEW a \in App, NEW t \in TransitionId, NEW m \in SystemMode,
         ApplicationCommitted(a, t, m)
  PROVE  IInv'
<1>1. CASE waitingFor = {a}
  BY <1>1, SettleKeepsIInv DEF ApplicationCommitted, IInv, TypeOK
<1>2. CASE waitingFor # {a}
  BY <1>2 DEF ApplicationCommitted, AcceptsCommit, IInv, TypeOK,
              TransitionWellFormed, NoTransition
<1> QED
  BY <1>1, <1>2

LEMMA NextKeepsIInv == IInv /\ [Next]_modeVars => IInv'
<1> SUFFICES ASSUME IInv, [Next]_modeVars
             PROVE  IInv'
  OBVIOUS
<1>1. CASE UNCHANGED modeVars
  BY <1>1 DEF modeVars, IInv, TypeOK, TransitionWellFormed, NoTransition
<1>2. CASE Next
  BY <1>2, RequestKeepsIInv, ReadyKeepsIInv, RejectedKeepsIInv, CommittedKeepsIInv
     DEF Next
<1> QED
  BY <1>1, <1>2

\* TypeOK and TransitionWellFormed hold in every reachable state: a transition
\* in progress always waits for an application that has not answered yet.
THEOREM Correct == Spec => [](TypeOK /\ TransitionWellFormed)
<1>1. Spec => []IInv
  BY InitIInv, NextKeepsIInv, PTL DEF Spec
<1>2. IInv => TypeOK /\ TransitionWellFormed
  BY DEF IInv
<1> QED
  BY <1>1, <1>2, PTL

-----------------------------------------------------------------------------
\* Once everybody is ready, a transition can only run to its target.
THEOREM Committed == Spec => NoWayBack
<1> DEFINE
      Forward == phase = "Committing" =>
                   \/ phase' = "Committing" /\ target' = target /\ transitionId' = transitionId
                   \/ phase' = "Stable" /\ mode' = target
<1>1. Next => Forward
  BY DEF Next, RequestTransition, AcceptsRequest, ApplicationReady, AcceptsReady,
         ApplicationRejected, AcceptsRejection, ApplicationCommitted, AcceptsCommit, Settle
<1>2. [Next]_modeVars => [Forward]_modeVars
  BY <1>1
<1> QED
  BY <1>2, PTL DEF Spec, NoWayBack

-----------------------------------------------------------------------------
\* The refinement.  VoteOf reads each application's vote off the sets; the
\* lemmas below say what the votes are in each phase.

votes == [a \in App |-> VoteOf(a)]

LEMMA IdleVotes ==
  ASSUME waitingFor = {}, responded = {}
  PROVE  votes = [a \in App |-> "idle"]
BY DEF votes, VoteOf

LEMMA RefineInit == Init => Consensus!Init
<1> SUFFICES ASSUME NEW m \in SystemMode, New(m)
             PROVE  Consensus!Init
  BY DEF Init
<1> QED
  BY IdleVotes DEF New, Consensus!Init, votes, SystemMode, Consensus!SystemMode

LEMMA RefineRequest ==
  ASSUME IInv, NEW m \in SystemMode, NEW participants \in SUBSET App,
         RequestTransition(m, participants)
  PROVE  Consensus!Propose(m, participants)
BY DEF RequestTransition, AcceptsRequest, IInv, TypeOK, TransitionWellFormed,
       Consensus!Propose, Consensus!Consulted, VoteOf

\* The answer that completes the preparation relabels both sets, and moves
\* no vote but the sender's.
LEMMA RefineReady ==
  ASSUME IInv, NEW a \in App, NEW t \in TransitionId, ApplicationReady(a, t)
  PROVE  Consensus!Agree(a)
<1> USE DEF ApplicationReady, AcceptsReady, IInv, TypeOK, TransitionWellFormed
<1>1. VoteOf(a) = "asked" /\ UNCHANGED <<mode, target>>
  BY DEF VoteOf
<1>2. votes' = [votes EXCEPT ![a] = "ready"]
  <2>1. CASE waitingFor = {a}
    BY <2>1 DEF votes, VoteOf
  <2>2. CASE waitingFor # {a}
    BY <2>2 DEF votes, VoteOf
  <2> QED
    BY <2>1, <2>2
<1> QED
  BY <1>1, <1>2 DEF Consensus!Agree, votes

LEMMA RefineRejected ==
  ASSUME IInv, NEW a \in App, NEW t \in TransitionId, ApplicationRejected(a, t)
  PROVE  Consensus!Refuse(a)
<1> USE DEF ApplicationRejected, AcceptsRejection, IInv, TypeOK, TransitionWellFormed
<1>1. VoteOf(a) # "idle"
  BY DEF VoteOf
<1>2. \E b \in App : VoteOf(b) = "asked"
  BY DEF VoteOf
<1>3. \A b \in App : VoteOf(b)' = "idle"
  BY DEF Settle, VoteOf
<1>4. target' = mode /\ UNCHANGED mode
  BY DEF Settle
<1> QED
  BY <1>1, <1>2, <1>3, <1>4 DEF Consensus!Refuse, Consensus!Consulted

LEMMA RefineCommitted ==
  ASSUME IInv, NEW a \in App, NEW t \in TransitionId, NEW m \in SystemMode,
         ApplicationCommitted(a, t, m)
  PROVE  Consensus!Confirm(a) \/ Consensus!Adopt(a)
<1> USE DEF ApplicationCommitted, AcceptsCommit, IInv, TypeOK, TransitionWellFormed
<1>1. VoteOf(a) = "ready" /\ \A b \in App : VoteOf(b) # "asked"
  BY DEF VoteOf
<1>2. CASE waitingFor = {a}
  <2>1. \A b \in App \ {a} : VoteOf(b) \in {"committed", "idle"}
    BY <1>2 DEF VoteOf
  <2>2. \A b \in App : VoteOf(b)' = "idle"
    BY <1>2 DEF Settle, VoteOf
  <2>3. mode' = target /\ UNCHANGED target
    BY <1>2 DEF Settle
  <2> QED
    BY <1>1, <2>1, <2>2, <2>3 DEF Consensus!Adopt, Consensus!Consulted
<1>3. CASE waitingFor # {a}
  <2>1. votes' = [votes EXCEPT ![a] = "committed"] /\ UNCHANGED <<mode, target>>
    BY <1>3 DEF votes, VoteOf
  <2>2. PICK b \in waitingFor : b # a
    BY <1>3
  <2>3. b \in App /\ VoteOf(b) = "ready"
    BY <2>2 DEF VoteOf
  <2> QED
    BY <1>1, <2>1, <2>2, <2>3
       DEF Consensus!Confirm, Consensus!AllAgreed, Consensus!Consulted, votes
<1> QED
  BY <1>2, <1>3

LEMMA RefineNext ==
  IInv /\ [Next]_modeVars => [Consensus!Next]_(Consensus!consensusVars)
<1> SUFFICES ASSUME IInv, [Next]_modeVars
             PROVE  Consensus!Next \/ UNCHANGED Consensus!consensusVars
  OBVIOUS
<1>1. CASE UNCHANGED modeVars
  BY <1>1 DEF modeVars, Consensus!consensusVars, VoteOf
<1>2. ASSUME NEW m \in SystemMode, NEW participants \in SUBSET App,
             RequestTransition(m, participants)
      PROVE  Consensus!Next
  BY <1>2, RefineRequest DEF Consensus!Next, SystemMode, Consensus!SystemMode
<1>3. ASSUME NEW a \in App, NEW t \in TransitionId, ApplicationReady(a, t)
      PROVE  Consensus!Next
  BY <1>3, RefineReady DEF Consensus!Next
<1>4. ASSUME NEW a \in App, NEW t \in TransitionId, ApplicationRejected(a, t)
      PROVE  Consensus!Next
  BY <1>4, RefineRejected DEF Consensus!Next
<1>5. ASSUME NEW a \in App, NEW t \in TransitionId, NEW m \in SystemMode,
             ApplicationCommitted(a, t, m)
      PROVE  Consensus!Next
  BY <1>5, RefineCommitted DEF Consensus!Next
<1> QED
  BY <1>1, <1>2, <1>3, <1>4, <1>5 DEF Next

\* The coordinator implements the unanimous vote of ModeConsensus.
THEOREM Refinement == Spec => ImplementsConsensus
<1>1. Spec => []IInv
  BY InitIInv, NextKeepsIInv, PTL DEF Spec
<1> QED
  BY <1>1, RefineInit, RefineNext, PTL DEF Spec, ImplementsConsensus, Consensus!Spec
=============================================================================
