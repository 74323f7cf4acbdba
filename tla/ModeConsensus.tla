---------------------------- MODULE ModeConsensus ----------------------------
(***************************************************************************)
(* What a mode change promises, told from the applications' side and       *)
(* without any of the coordinator's bookkeeping (no phase, no set of       *)
(* answers still awaited, no transition id).  Each application casts a     *)
(* vote; the system's mode moves to the proposed one in the very step in   *)
(* which the last of those consulted confirms it, nobody confirms before   *)
(* everyone agreed, and a proposal is withdrawn only while somebody has    *)
(* still to agree.                                                         *)
(***************************************************************************)
EXTENDS SamProtocol

VARIABLES
  mode,     \* The mode in force.
  target,   \* The proposed mode; equal to mode when nothing is proposed.
  vote      \* Each application's standing in the current proposal.

consensusVars == <<mode, target, vote>>

Vote == {"idle", "asked", "ready", "committed"}

Consulted == {a \in App : vote[a] # "idle"}

ConsensusTypeOK ==
  /\ mode \in SystemMode
  /\ target \in SystemMode
  /\ vote \in [App -> Vote]

Init ==
  /\ mode \in SystemMode
  /\ target = mode
  /\ vote = [a \in App |-> "idle"]

Propose(m, participants) ==
  /\ Consulted = {}
  /\ m # mode
  /\ participants # {}
  /\ target' = m
  /\ vote' = [a \in App |-> IF a \in participants THEN "asked" ELSE "idle"]
  /\ UNCHANGED mode

Agree(a) ==
  /\ vote[a] = "asked"
  /\ vote' = [vote EXCEPT ![a] = "ready"]
  /\ UNCHANGED <<mode, target>>

\* Anyone consulted may still refuse, as long as someone has yet to agree.
Refuse(a) ==
  /\ a \in Consulted
  /\ \E b \in App : vote[b] = "asked"
  /\ vote' = [b \in App |-> "idle"]
  /\ target' = mode
  /\ UNCHANGED mode

AllAgreed == \A b \in App : vote[b] # "asked"

Confirm(a) ==
  /\ vote[a] = "ready"
  /\ AllAgreed
  /\ \E b \in Consulted \ {a} : vote[b] = "ready"
  /\ vote' = [vote EXCEPT ![a] = "committed"]
  /\ UNCHANGED <<mode, target>>

\* The last confirmation puts the proposed mode in force.
Adopt(a) ==
  /\ vote[a] = "ready"
  /\ \A b \in Consulted \ {a} : vote[b] = "committed"
  /\ mode' = target
  /\ vote' = [b \in App |-> "idle"]
  /\ UNCHANGED target

Next ==
  \/ \E m \in SystemMode, participants \in SUBSET App : Propose(m, participants)
  \/ \E a \in App : Agree(a) \/ Refuse(a) \/ Confirm(a) \/ Adopt(a)

Spec == Init /\ [][Next]_consensusVars
=============================================================================
