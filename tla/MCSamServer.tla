------------------------------ MODULE MCSamServer ------------------------------
(***************************************************************************)
(* SamServer on small instances: enough sessions for an application to     *)
(* have an old and a new one while the other comes and goes.               *)
(***************************************************************************)
EXTENDS SamServer

OnlyHealthy == {"Healthy"}
OneMode == {"Standby"}
=============================================================================
