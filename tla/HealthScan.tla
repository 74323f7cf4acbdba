------------------------------ MODULE HealthScan ------------------------------
(***************************************************************************)
(* The loop of HealthManager::calculate as it runs, over the applications  *)
(* in whatever order the HashMap yields them, against the declarative      *)
(* Calculate that the service's model uses.                                *)
(***************************************************************************)
EXTENDS HealthManager, SequencesExt

\* Fault: the last application visited decides between Healthy and Degraded.
Visit_LastWins(overall, verdict) == IF overall = "Failed" THEN overall ELSE verdict

\* One turn of the loop.  Failed returns: no later turn changes it.
Visit(overall, verdict) ==
  IF overall = "Failed" \/ verdict = "Healthy" THEN overall ELSE verdict

Scan(order, wait) ==
  FoldLeft(Visit, "Healthy",
    [i \in DOMAIN order |-> CalculateApplication(applications[order[i]], wait)])

\* health.rs:18-25: whatever the order of the iteration and wherever it stops,
\* one Failed application fails the system, and one Degraded one degrades a
\* system without failures.
ScanAgrees ==
  \A wait \in LockWait : \A order \in SetToSeqs(Known) :
    Scan(order, wait) = Calculate(applications, wait)
=============================================================================
