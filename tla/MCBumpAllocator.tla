--------------------------- MODULE MCBumpAllocator ---------------------------
(* A free RAM of a few small pages. *)
EXTENDS BumpAllocator
=============================================================================
