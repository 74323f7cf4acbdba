----------------------------- MODULE ModeManager -----------------------------
(***************************************************************************)
(* sam_core::ModeManager: the coordinator of one mode transition at a      *)
(* time.  The enum ModeManagerState is laid out flat: `phase' is its       *)
(* variant, `mode' the field that current_mode() reads in that variant,    *)
(* and `responded' the set called `ready' while Preparing and `committed'  *)
(* while Committing.  The fields a variant lacks hold a fixed value.       *)
(*                                                                         *)
(* An operation that returns an error changes nothing; Accepts... is the   *)
(* condition under which it returns Ok, and the action is the Ok case.     *)
(***************************************************************************)
EXTENDS SamProtocol

VARIABLES
  phase,             \* "Stable", "Preparing" or "Committing"
  mode,              \* mode / current_mode / previous_mode
  target,            \* target_mode, or mode when Stable
  transitionId,      \* transition_id, or NoTransition when Stable
  waitingFor,        \* waiting_for
  responded,         \* ready (Preparing) or committed (Committing)
  nextTransitionId   \* next_transition_id

modeVars ==
  <<phase, mode, target, transitionId, waitingFor, responded, nextTransitionId>>

NoTransition == IdSpace

TypeOK ==
  /\ phase \in {"Stable", "Preparing", "Committing"}
  /\ mode \in SystemMode
  /\ target \in SystemMode
  /\ transitionId \in TransitionId \cup {NoTransition}
  /\ waitingFor \in SUBSET App
  /\ responded \in SUBSET App
  /\ nextTransitionId \in TransitionId

New(initialMode) ==
  /\ phase = "Stable"
  /\ mode = initialMode
  /\ target = initialMode
  /\ transitionId = NoTransition
  /\ waitingFor = {}
  /\ responded = {}
  /\ nextTransitionId = 1 % IdSpace

Init == \E m \in SystemMode : New(m)

\* Back to Stable { mode: m }.
Settle(m) ==
  /\ phase' = "Stable"
  /\ mode' = m
  /\ target' = m
  /\ transitionId' = NoTransition
  /\ waitingFor' = {}
  /\ responded' = {}
  /\ UNCHANGED nextTransitionId

-----------------------------------------------------------------------------
\* request_transition

\* Fault: a transition is started though nobody is there to take part.
AcceptsRequest_NoParticipants(m, participants) == phase = "Stable" /\ m # mode

AcceptsRequest(m, participants) ==
  /\ phase = "Stable"       \* else TransitionInProgress
  /\ m # mode               \* else AlreadyInMode
  /\ participants # {}      \* else NoParticipants

\* Fault: the id leaves the 64 bits instead of wrapping.
NextId_NoWrap(t) == t + 1

\* wrapping_add(1) on a u64.
NextId(t) == (t + 1) % IdSpace

RequestTransition(m, participants) ==
  /\ AcceptsRequest(m, participants)
  /\ phase' = "Preparing"
  /\ target' = m
  /\ transitionId' = nextTransitionId
  /\ nextTransitionId' = NextId(nextTransitionId)
  /\ waitingFor' = participants
  /\ responded' = {}
  /\ UNCHANGED mode

-----------------------------------------------------------------------------
\* application_ready

\* Fault: anyone's readiness is recorded, asked or not.
AcceptsReady_Anyone(a, t) == phase = "Preparing" /\ t = transitionId

AcceptsReady(a, t) ==
  /\ phase = "Preparing"    \* else InvalidPhase
  /\ t = transitionId       \* else StaleTransition
  /\ a \in waitingFor       \* else UnknownParticipant

ApplicationReady(a, t) ==
  /\ AcceptsReady(a, t)
  /\ IF waitingFor = {a}
       THEN /\ phase' = "Committing"           \* PreparationComplete
            /\ waitingFor' = responded \cup {a}
            /\ responded' = {}
       ELSE /\ waitingFor' = waitingFor \ {a}
            /\ responded' = responded \cup {a}
            /\ UNCHANGED phase
  /\ UNCHANGED <<mode, target, transitionId, nextTransitionId>>

-----------------------------------------------------------------------------
\* application_rejected: open to those who already said ready, too.

\* Faults: a rejection still counts once the commit is under way; anyone's counts.
AcceptsRejection_TooLate(a, t) ==
  phase # "Stable" /\ t = transitionId /\ a \in waitingFor \cup responded
AcceptsRejection_Anyone(a, t) == phase = "Preparing" /\ t = transitionId

AcceptsRejection(a, t) ==
  /\ phase = "Preparing"
  /\ t = transitionId
  /\ a \in waitingFor \cup responded

\* Fault: an abort settles in the mode that was refused.
ApplicationRejected_InTarget(a, t) == AcceptsRejection(a, t) /\ Settle(target)

ApplicationRejected(a, t) ==
  /\ AcceptsRejection(a, t)
  /\ Settle(mode)                              \* TransitionAborted

-----------------------------------------------------------------------------
\* application_committed

\* The one error of a response that is_late_transition_response does not cover.
WrongCommittedMode(t, m) ==
  phase = "Committing" /\ t = transitionId /\ m # target

\* Fault: the confirmation of an earlier transition counts for this one.
AcceptsCommit_AnyId(a, t, m) == phase = "Committing" /\ m = target /\ a \in waitingFor

AcceptsCommit(a, t, m) ==
  /\ phase = "Committing"
  /\ t = transitionId
  /\ m = target
  /\ a \in waitingFor

ApplicationCommitted(a, t, m) ==
  /\ AcceptsCommit(a, t, m)
  /\ IF waitingFor = {a}
       THEN Settle(target)                     \* TransitionComplete
       ELSE /\ waitingFor' = waitingFor \ {a}
            /\ responded' = responded \cup {a}
            /\ UNCHANGED <<phase, mode, target, transitionId, nextTransitionId>>

-----------------------------------------------------------------------------
Next ==
  \/ \E m \in SystemMode, participants \in SUBSET App :
       RequestTransition(m, participants)
  \/ \E a \in App, t \in TransitionId :
       \/ ApplicationReady(a, t)
       \/ ApplicationRejected(a, t)
       \/ \E m \in SystemMode : ApplicationCommitted(a, t, m)

Spec == Init /\ [][Next]_modeVars

-----------------------------------------------------------------------------
\* Properties

\* A transition in progress always waits for somebody who has not answered
\* yet in this round (waiting_for is never left empty: a transition that
\* waited for nobody could never move again), always leads somewhere else
\* (AlreadyInMode), and when no transition runs no answer is remembered.
TransitionWellFormed ==
  IF phase = "Stable"
    THEN waitingFor = {} /\ responded = {} /\ target = mode
    ELSE /\ waitingFor # {}
         /\ waitingFor \cap responded = {}
         /\ target # mode
         /\ transitionId # NoTransition

\* Each application's standing, read off the coordinator's two sets.
VoteOf(a) ==
  IF a \in waitingFor THEN IF phase = "Preparing" THEN "asked" ELSE "ready"
  ELSE IF a \in responded THEN IF phase = "Preparing" THEN "ready" ELSE "committed"
  ELSE "idle"

Consensus == INSTANCE ModeConsensus WITH vote <- [a \in App |-> VoteOf(a)]

\* The coordinator, which only counts answers down, gives every application
\* the unanimous agreement and the all-or-nothing outcome of ModeConsensus.
ImplementsConsensus == Consensus!Spec

\* Once every application agreed, the transition runs to the mode they
\* agreed to or stays where it is: it cannot be aborted or redirected.
NoWayBack ==
  [][phase = "Committing" =>
       \/ phase' = "Committing" /\ target' = target /\ transitionId' = transitionId
       \/ phase' = "Stable" /\ mode' = target]_modeVars
=============================================================================
