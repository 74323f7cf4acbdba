----------------------------- MODULE SamProtocol -----------------------------
(***************************************************************************)
(* The shared vocabulary of the SAM crates: the enumerations of            *)
(* sam-protocol/types.rs and the messages of sam-protocol/messages.rs.     *)
(* A rejection's reason and the protocol version carry no state, so the    *)
(* messages are modelled without them.                                     *)
(***************************************************************************)
EXTENDS Naturals

CONSTANTS
  App,        \* The ApplicationIds that may ever speak to SAM.
  IdSpace     \* The number of TransitionIds: 2^64, the range of a u64.

ASSUME IdSpaceAssumption == IdSpace \in Nat \ {0}

SystemMode == {"Startup", "Standby", "Working"}

HealthState == {"Healthy", "Degraded", "Failed"}

TransitionId == 0 .. IdSpace - 1

(***************************************************************************)
(* What an application may send to SAM.  Every message repeats the         *)
(* identity of its sender.                                                 *)
(***************************************************************************)
Heartbeat(a, h, m) == [type |-> "Heartbeat", app |-> a, health |-> h, mode |-> m]
ModeReady(a, t) == [type |-> "ModeReady", app |-> a, id |-> t]
ModeRejected(a, t) == [type |-> "ModeRejected", app |-> a, id |-> t]
ModeCommitted(a, t, m) ==
  [type |-> "ModeCommitted", app |-> a, id |-> t, mode |-> m]

(***************************************************************************)
(* What SAM sends to applications.                                         *)
(***************************************************************************)
RegisterAccepted(m, h) == [type |-> "RegisterAccepted", mode |-> m, health |-> h]
StateBroadcast(m, h) == [type |-> "StateBroadcast", mode |-> m, health |-> h]
PrepareMode(t, m) == [type |-> "PrepareMode", id |-> t, mode |-> m]
CommitMode(t, m) == [type |-> "CommitMode", id |-> t, mode |-> m]
AbortMode(t) == [type |-> "AbortMode", id |-> t]

SamToApplication ==
  [type : {"RegisterAccepted", "StateBroadcast"}, mode : SystemMode, health : HealthState]
    \cup [type : {"PrepareMode", "CommitMode"}, id : TransitionId, mode : SystemMode]
    \cup [type : {"AbortMode"}, id : TransitionId]
=============================================================================
