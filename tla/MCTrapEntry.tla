---------------------------- MODULE MCTrapEntry ----------------------------
(* Two processes and an exception before any step of the kernel. *)
EXTENDS TrapEntry
=============================================================================
