---------------------------- MODULE MCSamExecutable ----------------------------
(***************************************************************************)
(* SamExecutable with two applications, both healthy, of which telemetry   *)
(* is the one that fails; enough sessions for it to have one that timed    *)
(* out or broke besides the one that lasts.                                *)
(***************************************************************************)
EXTENDS SamExecutable

OnlyHealthy == {"Healthy"}
TwoModes == {"Standby", "Working"}
OneMode == {"Working"}
=============================================================================
