------------------------- MODULE ApplicationRegistry -------------------------
(***************************************************************************)
(* sam_core::ApplicationRegistry: what SAM last heard of every application *)
(* it ever registered.  The map only grows: a disconnected application     *)
(* keeps its entry.                                                        *)
(*                                                                         *)
(* Time.  The code stores last_heartbeat, an Instant, and only ever reads  *)
(* how long ago it was.  The model stores that age, in ticks, and stops    *)
(* counting at AgeCap: one tick past the largest age any caller of         *)
(* HealthManager can still tell apart.  Every caller takes `now' BEFORE it *)
(* waits for the service's lock (server.rs:55,133,148,179), so by the time *)
(* it is used `now' may be `wait' ticks old, and a heartbeat stamped with  *)
(* it starts at that age.                                                  *)
(***************************************************************************)
EXTENDS SamProtocol

CONSTANTS
  HeartbeatTimeout,   \* HealthManager::heartbeat_timeout, in ticks.
  MaxLockWait         \* Bound: the longest wait for the lock, in ticks.

ASSUME TimeAssumption == HeartbeatTimeout \in Nat /\ MaxLockWait \in Nat

VARIABLE applications   \* ApplicationId -> ApplicationStatus

AgeCap == HeartbeatTimeout + MaxLockWait + 1

LockWait == 0 .. MaxLockWait

ApplicationStatus ==
  [current_mode : SystemMode, health : HealthState, age : 0 .. AgeCap, connected : BOOLEAN]

NewStatus(wait) ==
  [current_mode |-> "Startup", health |-> "Healthy", age |-> wait, connected |-> TRUE]

Known == DOMAIN applications

RegistryTypeOK ==
  /\ Known \subseteq App
  /\ applications \in [Known -> ApplicationStatus]

RegistryInit == applications = [a \in {} |-> NewStatus(0)]

RegisterStatus(a, wait) ==
  applications' =
    [b \in Known \cup {a} |-> IF b = a THEN NewStatus(wait) ELSE applications[b]]

\* The remaining updates return NotRegistered for an application without an
\* entry.
MarkDisconnected(a) ==
  /\ a \in Known
  /\ applications' = [applications EXCEPT ![a].connected = FALSE]

UpdateHeartbeat(a, h, m, wait) ==
  /\ a \in Known
  /\ applications' = [applications EXCEPT ![a] =
       [current_mode |-> m, health |-> h, age |-> wait, connected |-> TRUE]]

SetMode(a, m) ==
  /\ a \in Known
  /\ applications' = [applications EXCEPT ![a].current_mode = m]

\* One tick of the clock.
GrowOlder ==
  applications' = [a \in Known |-> [applications[a] EXCEPT !.age =
                     IF @ < AgeCap THEN @ + 1 ELSE AgeCap]]
=============================================================================
