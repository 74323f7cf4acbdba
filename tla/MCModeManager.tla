---------------------------- MODULE MCModeManager ----------------------------
(***************************************************************************)
(* ModeManager on a small instance: three applications, so that a          *)
(* transition can have a first, a middle and a last answer, and a          *)
(* TransitionId that wraps after a few transitions.                        *)
(***************************************************************************)
EXTENDS ModeManager
=============================================================================
