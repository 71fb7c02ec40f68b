---------------------------- MODULE BumpAllocator ----------------------------
(***************************************************************************)
(* alloc_pages of the memory-allocation kernel (the page-tables kernel has *)
(* the same function) and the callers that store into what they were given.*)
(* Addresses are 32-bit in the code, so sums and products are taken modulo *)
(* WORD.                                                                   *)
(***************************************************************************)
EXTENDS Integers, FiniteSets

CONSTANTS
  WORD,          \* 2^32 in the code
  PAGE_SIZE,     \* 4096
  FREE_RAM,      \* __free_ram of the linker script
  FREE_RAM_END,  \* __free_ram_end, 64 MB further
  Requests,      \* page counts callers pass: 5 and 3, or 1
  Contents       \* what a word of memory may hold

\* The linker script places free RAM low enough in the address space, and the
\* callers ask for few enough pages, that next_paddr never wraps.
ASSUME AllocatorAssumption ==
  /\ WORD \in Nat \ {0}
  /\ PAGE_SIZE \in Nat \ {0}
  /\ FREE_RAM \in Nat /\ FREE_RAM_END \in Nat
  /\ FREE_RAM <= FREE_RAM_END /\ FREE_RAM_END < WORD
  /\ Requests \subseteq Nat \ {0}
  /\ \A n \in Requests : FREE_RAM_END + n * PAGE_SIZE < WORD
  /\ 0 \in Contents

Addresses == 0 .. WORD - 1
Ram == FREE_RAM .. FREE_RAM_END - 1

VARIABLES
  next_paddr,   \* the static variable of alloc_pages
  blocks,       \* what has been returned: [paddr, n]
  memory,
  panic

vars == <<next_paddr, blocks, memory, panic>>

Bytes(n) == (n * PAGE_SIZE) % WORD
Region(b) == {(b.paddr + k) % WORD : k \in 0 .. Bytes(b.n) - 1}

\* Types: next_paddr is a 32-bit address, memory holds words.
TypeOK ==
  /\ next_paddr \in Addresses
  /\ blocks \subseteq [paddr : Addresses, n : Requests]
  /\ memory \in [Addresses -> Contents]
  /\ panic \in {"none", "out of memory"}

\* next_paddr is initialised data; nobody has cleared free RAM.
Init ==
  /\ next_paddr = FREE_RAM % WORD
  /\ blocks = {}
  /\ memory \in {[a \in Addresses |-> v] : v \in Contents}
  /\ panic = "none"

\* next_paddr moves by pages instead of bytes.
Advance_ByCount(n) == (next_paddr + n) % WORD

Advance(n) == (next_paddr + Bytes(n)) % WORD
\* The bound is not checked.
Fits_Unchecked(n) == TRUE

\* ">=" for ">": the last page is never given out.
Fits_NotLast(n) == Advance(n) < FREE_RAM_END

Fits(n) == Advance(n) <= FREE_RAM_END

\* No memset.
Cleared_Never(b) == memory

\* memset((void *)paddr, 0, n * PAGE_SIZE).
Cleared(b) == [a \in Addresses |-> IF a \in Region(b) THEN 0 ELSE memory[a]]

\* next_paddr is read again, after it has moved.
NewBlock_Next(n) == [paddr |-> Advance(n), n |-> n]

\* "paddr_t paddr = next_paddr"
NewBlock(n) == [paddr |-> next_paddr, n |-> n]

AllocPages(n) ==
  /\ panic = "none"
  /\ Fits(n)
  /\ next_paddr' = Advance(n)
  /\ blocks' = blocks \cup {NewBlock(n)}
  /\ memory' = Cleared(NewBlock(n))
  /\ UNCHANGED panic

\* next_paddr has moved when the bound is found exceeded.
OutOfMemory(n) ==
  /\ panic = "none"
  /\ ~ Fits(n)
  /\ next_paddr' = Advance(n)
  /\ panic' = "out of memory"
  /\ UNCHANGED <<blocks, memory>>

\* A caller fills a block it was given, as map_page does with a page table.
Fill(b, v) ==
  /\ panic = "none"
  /\ memory' = [a \in Addresses |-> IF a \in Region(b) THEN v ELSE memory[a]]
  /\ UNCHANGED <<next_paddr, blocks, panic>>

Next ==
  \/ \E n \in Requests : AllocPages(n) \/ OutOfMemory(n)
  \/ \E b \in blocks, v \in Contents : Fill(b, v)

Spec == Init /\ [][Next]_vars
-----------------------------------------------------------------------------
(* Correctness *)

\* Two callers never share an address, and none is given one outside free RAM
\* (below it are the kernel's own data and boot stack).
BlocksDisjoint ==
  /\ \A b \in blocks : Region(b) \subseteq Ram
  /\ \A b, c \in blocks : b # c => Region(b) \cap Region(c) = {}

\* Allocation touches nothing that belongs to an earlier caller, and the new
\* block is clear.
ZeroesOnlyTheNewBlock ==
  [][\A b \in blocks' \ blocks :
       /\ \A a \in Region(b) : memory'[a] = 0
       /\ \A c \in blocks : \A a \in Region(c) : memory'[a] = memory[a]]_vars

Owned == UNION {Region(b) : b \in blocks}

PS == INSTANCE PageSupply WITH
        Sizes   <- {n * PAGE_SIZE : n \in Requests},
        owned   <- Owned,
        refused <- panic # "none"

\* The bump pointer is a correct page supply; in particular "out of memory"
\* is only said when no free range is long enough, so the last page of free
\* RAM is usable.
ImplementsPageSupply == PS!Spec
-----------------------------------------------------------------------------
(* The inductive invariant *)

\* Everything below next_paddr is taken and nothing above is.
BumpInv ==
  /\ TypeOK
  /\ FREE_RAM <= next_paddr
  /\ panic = "none" => next_paddr <= FREE_RAM_END
  /\ panic = "none" => Owned = FREE_RAM .. next_paddr - 1
  /\ BlocksDisjoint
=============================================================================
