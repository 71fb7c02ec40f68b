----------------------------- MODULE PageSupply -----------------------------
(***************************************************************************)
(* What a page allocator promises: it hands out contiguous ranges of free  *)
(* memory, zeroed, never the same address twice, and refuses only a range  *)
(* that no longer fits anywhere.                                           *)
(***************************************************************************)
EXTENDS Integers

CONSTANTS
  Ram,        \* the addresses there are to give away
  Sizes,      \* the sizes that are asked for
  Addresses,  \* all addresses, those of Ram among them
  Contents    \* what an address may hold, 0 included

VARIABLES owned, memory, refused
psVars == <<owned, memory, refused>>

Span(a, size) == a .. a + size - 1
Fits(a, size) == Span(a, size) \subseteq Ram \ owned

Init ==
  /\ owned = {}
  /\ memory \in [Addresses -> Contents]
  /\ refused = FALSE

Grant(a, size) ==
  /\ ~ refused
  /\ Fits(a, size)
  /\ owned' = owned \cup Span(a, size)
  /\ memory' = [x \in Addresses |-> IF x \in Span(a, size) THEN 0 ELSE memory[x]]
  /\ UNCHANGED refused

Refuse(size) ==
  /\ ~ refused
  /\ \A a \in Ram : ~ Fits(a, size)
  /\ refused' = TRUE
  /\ UNCHANGED <<owned, memory>>

\* Owners store into what they own.
Store ==
  /\ memory' \in [Addresses -> Contents]
  /\ \A x \in Addresses \ owned : memory'[x] = memory[x]
  /\ UNCHANGED <<owned, refused>>

Next ==
  \/ \E size \in Sizes : (\E a \in Ram : Grant(a, size)) \/ Refuse(size)
  \/ Store

Spec == Init /\ [][Next]_psVars
=============================================================================
