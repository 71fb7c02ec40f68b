---------------------------- MODULE AddressSpaces ----------------------------
(***************************************************************************)
(* What page tables promise: independent address spaces, each a map from   *)
(* pages to frames with flags.  A new space maps nothing, and mapping a    *)
(* page changes that page of that space only.                              *)
(***************************************************************************)
EXTENDS Integers

CONSTANTS
  Spaces,    \* names for spaces
  Pages,     \* virtual pages
  Mappings,  \* what a page may be mapped to
  Unmapped

VARIABLE maps   \* from the spaces that exist to their maps

Init == maps = [s \in {} |-> [p \in Pages |-> Unmapped]]

Create(s) ==
  /\ s \notin DOMAIN maps
  /\ maps' = [t \in DOMAIN maps \cup {s} |->
                IF t = s THEN [p \in Pages |-> Unmapped] ELSE maps[t]]

Map(s, p, m) == maps' = [maps EXCEPT ![s][p] = m]

\* A call that fails.
Nothing == UNCHANGED maps

Next ==
  \/ \E s \in Spaces : Create(s)
  \/ \E s \in DOMAIN maps, p \in Pages, m \in Mappings : Map(s, p, m)

Spec == Init /\ [][Next]_maps
=============================================================================
