---------------------------- MODULE HealthManager ----------------------------
(***************************************************************************)
(* sam_core::HealthManager, and the service's recalculate_health built on  *)
(* it: one verdict on the whole system from what the registry knows.       *)
(***************************************************************************)
EXTENDS ApplicationRegistry

\* Fault: the wait for the lock is added to the age instead of taken off it.
Elapsed_Added(status, wait) == status.age + wait

\* now.saturating_duration_since(last_heartbeat), for a `now' taken `wait'
\* ticks ago: a heartbeat later than `now' counts as no time at all.
Elapsed(status, wait) ==
  IF status.age > wait THEN status.age - wait ELSE 0

\* Faults: the connection is ignored; the age is ignored; the timeout itself
\* already counts as silence.
CalculateApplication_ReportOnly(status, wait) ==
  IF Elapsed(status, wait) > HeartbeatTimeout THEN "Failed" ELSE status.health
CalculateApplication_NoTimeout(status, wait) ==
  IF ~status.connected THEN "Failed" ELSE status.health
CalculateApplication_AtTimeout(status, wait) ==
  IF ~status.connected \/ Elapsed(status, wait) >= HeartbeatTimeout THEN "Failed"
  ELSE status.health

CalculateApplication(status, wait) ==
  IF \/ ~status.connected
     \/ Elapsed(status, wait) > HeartbeatTimeout
     \/ status.health = "Failed"
    THEN "Failed"
    ELSE status.health

\* The loop of calculate visits the applications in any order and stops at
\* the first Failed one; whichever order it takes, this is what it returns.
Calculate(apps, wait) ==
  LET verdicts == {CalculateApplication(apps[a], wait) : a \in DOMAIN apps}
  IN  IF "Failed" \in verdicts THEN "Failed"
      ELSE IF "Degraded" \in verdicts THEN "Degraded"
      ELSE "Healthy"

ModeMismatch(apps, systemMode) ==
  \E a \in DOMAIN apps : apps[a].connected /\ apps[a].current_mode # systemMode

\* Fault: a lack of synchronization hides a failure.
RecalculatedHealth_MismatchFirst(apps, systemMode, wait) ==
  IF ModeMismatch(apps, systemMode) THEN "Degraded" ELSE Calculate(apps, wait)

\* recalculate_health of the service.
RecalculatedHealth(apps, systemMode, wait) ==
  LET reported == Calculate(apps, wait)
  IN  IF reported = "Healthy" /\ ModeMismatch(apps, systemMode)
        THEN "Degraded"
        ELSE reported
=============================================================================
