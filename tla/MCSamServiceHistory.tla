-------------------------- MODULE MCSamServiceHistory --------------------------
(***************************************************************************)
(* SamServiceHistory on a small instance.  Silence plays no part in it, so *)
(* the clock stands still (Tick is not in HNext).                           *)
(***************************************************************************)
EXTENDS SamServiceHistory, TLC

OnlyHealthy == {"Healthy"}
OneMode == {"Standby"}
TwoModes == {"Startup", "Standby"}

Symmetry == Permutations(App)
=============================================================================
