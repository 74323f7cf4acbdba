---------------------------- MODULE MCClientRuntime ----------------------------
(***************************************************************************)
(* ClientRuntime with one application, a queue of one message, and enough  *)
(* sessions for the reader of an old one to be alive in a new one.         *)
(***************************************************************************)
EXTENDS ClientRuntime

Announcements == {"Standby"}

Messages ==
  {PrepareMode(1, "Working"), CommitMode(1, "Working"), AbortMode(1)}
=============================================================================
