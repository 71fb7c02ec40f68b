---------------------------- MODULE MCTrapOnStack ----------------------------
(* An exception before any step of the two-process kernel. *)
EXTENDS TrapOnStack
=============================================================================
