------------------------------ MODULE MCFraming ------------------------------
(***************************************************************************)
(* Framing with the code's four-byte lengths and four messages: one that   *)
(* fits, one over the limit, one exactly at the limit, one that is empty.  *)
(* The pipe is smaller than a frame.                                       *)
(***************************************************************************)
EXTENDS Framing

Payloads == <<1, 4, 3, 0>>
=============================================================================
