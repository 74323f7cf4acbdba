----------------------------- MODULE MCSamService -----------------------------
(***************************************************************************)
(* SamService on small instances; each cfg opens the part of it that its   *)
(* question is about and keeps the rest small.                             *)
(***************************************************************************)
EXTENDS SamService, HealthScan

OnlyHealthy == {"Healthy"}
TwoModes == {"Startup", "Standby"}
OneMode == {"Standby"}
NoMode == {}
=============================================================================
