--------------------------- MODULE MCLocalListener ---------------------------
(***************************************************************************)
(* LocalListener with three processes in succession or at once, and two    *)
(* clients that want the same pending instance.                            *)
(***************************************************************************)
EXTENDS LocalListener
=============================================================================
