----------------------------- MODULE MCDeletion -----------------------------
(***************************************************************************)
(* A small instance of Deletion: two claims that may share one event, one   *)
(* restore and one death.                                                   *)
(***************************************************************************)
EXTENDS Deletion, TLC

CONSTANT e1
=============================================================================
