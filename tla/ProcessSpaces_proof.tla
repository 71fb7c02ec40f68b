------------------------ MODULE ProcessSpaces_proof ------------------------
(***************************************************************************)
(* Proofs about the page allocator, the page tables made of its pages and  *)
(* the address spaces made of those, for every size of a table, every      *)
(* layout of kernel and free RAM, any content of free RAM and any number   *)
(* of processes.                                                           *)
(***************************************************************************)
EXTENDS ProcessSpaces, ArithmeticLemmas
-----------------------------------------------------------------------------
(* The page allocator, for every set of requests that keep next_paddr from *)
(* wrapping.                                                               *)

\* The linear part of the assumption on the layout.
LEMMA Layout ==
  /\ WORD \in Nat \ {0}
  /\ FREE_RAM \in Nat /\ FREE_RAM_END \in Nat
  /\ FREE_RAM <= FREE_RAM_END /\ FREE_RAM_END < WORD
  /\ 0 \in Contents
  BY AllocatorAssumption

\* No product n * PAGE_SIZE and no new next_paddr wraps.
LEMMA NoWrap ==
  ASSUME NEW n \in Requests, NEW a \in 0 .. FREE_RAM_END
  PROVE  /\ Bytes(n) = n * PAGE_SIZE
         /\ Bytes(n) \in Nat \ {0}
         /\ a + Bytes(n) < WORD
         /\ (a + Bytes(n)) % WORD = a + Bytes(n)
<1> USE AllocatorAssumption
<1> DEFINE s == n * PAGE_SIZE
<1>1. s \in Nat \ {0}
  <2>1. n \in Nat /\ n >= 1 /\ PAGE_SIZE \in Nat /\ PAGE_SIZE >= 1
    OBVIOUS
  <2> QED
    BY ONLY <2>1
<1>2. FREE_RAM_END + s < WORD
  OBVIOUS
<1> HIDE DEF s
<1>3. s \in 0 .. WORD - 1 /\ a + s \in 0 .. WORD - 1
  BY <1>1, <1>2
<1>4. s % WORD = s /\ (a + s) % WORD = a + s
  BY <1>3, ModIdentity
<1>5. Bytes(n) = s
  BY <1>4 DEF Bytes, s
<1> QED
  BY <1>1, <1>3, <1>4, <1>5 DEF s

\* A block that fits below FREE_RAM_END is an interval.
LEMMA RegionIsInterval ==
  ASSUME NEW n \in Requests, NEW a \in Nat, a + Bytes(n) <= FREE_RAM_END
  PROVE  Region([paddr |-> a, n |-> n]) = a .. a + Bytes(n) - 1
<1> USE AllocatorAssumption
<1> DEFINE s == Bytes(n)
<1>1. s \in Nat \ {0}
  BY NoWrap
<1>2. FREE_RAM_END < WORD
  <2>1. FREE_RAM_END \in 0 .. FREE_RAM_END
    OBVIOUS
  <2>2. FREE_RAM_END + s < WORD
    BY <2>1, NoWrap
  <2> QED
    BY <1>1, <2>2
<1> HIDE DEF s
<1>3. \A k \in 0 .. s - 1 : (a + k) % WORD = a + k
  <2> SUFFICES ASSUME NEW k \in 0 .. s - 1 PROVE (a + k) % WORD = a + k
    OBVIOUS
  <2>1. a + k \in 0 .. WORD - 1
    BY <1>1, <1>2 DEF s
  <2> QED
    BY <2>1, ModIdentity
<1>4. {(a + k) % WORD : k \in 0 .. s - 1} = {a + k : k \in 0 .. s - 1}
  BY <1>3
<1>5. {a + k : k \in 0 .. s - 1} = a .. a + s - 1
  <2>1. \A x \in a .. a + s - 1 : x - a \in 0 .. s - 1 /\ x = a + (x - a)
    BY <1>1
  <2>2. \A k \in 0 .. s - 1 : a + k \in a .. a + s - 1
    BY <1>1
  <2> QED
    BY <2>1, <2>2
<1> QED
  BY <1>4, <1>5 DEF Region, s

\* What one call of alloc_pages returns.
LEMMA NewBlockIsFree ==
  ASSUME BumpInv, NEW n \in Requests, AllocPages(n)
  PROVE  LET b == [paddr |-> next_paddr, n |-> n]
         IN  /\ b \in [paddr : Addresses, n : Requests]
             /\ blocks' = blocks \cup {b}
             /\ next_paddr' = next_paddr + Bytes(n)
             /\ next_paddr' \in Addresses /\ next_paddr' <= FREE_RAM_END
             /\ Bytes(n) \in Nat \ {0}
             /\ Region(b) = next_paddr .. next_paddr' - 1
             /\ Region(b) \subseteq Ram
             /\ Region(b) \cap Owned = {}
             /\ Owned' = Owned \cup Region(b)
<1> USE Layout
<1> DEFINE b == [paddr |-> next_paddr, n |-> n]
<1>1. /\ next_paddr \in 0 .. FREE_RAM_END /\ FREE_RAM <= next_paddr
      /\ next_paddr \in Addresses
      /\ panic = "none" /\ panic' = "none"
      /\ Owned = FREE_RAM .. next_paddr - 1
  BY DEF BumpInv, TypeOK, Addresses, AllocPages, NewBlock, Cleared
<1>2. Bytes(n) \in Nat \ {0} /\ next_paddr \in Nat
  BY <1>1, NoWrap
<1>3. next_paddr' = next_paddr + Bytes(n) /\ next_paddr' <= FREE_RAM_END
  BY <1>1, NoWrap DEF AllocPages, NewBlock, Cleared, Advance, Fits
<1>4. next_paddr' \in Addresses
  <2>1. next_paddr' \in Nat
    BY ONLY <1>2, <1>3, Layout
  <2> QED
    BY <1>3, <2>1 DEF Addresses
<1>5. Region(b) = next_paddr .. next_paddr' - 1
  <2>1. next_paddr \in Nat /\ next_paddr + Bytes(n) <= FREE_RAM_END
    BY ONLY <1>2, <1>3, Layout
  <2>2. Region(b) = next_paddr .. next_paddr + Bytes(n) - 1
    BY <2>1, RegionIsInterval
  <2>3. next_paddr' = next_paddr + Bytes(n)
    BY <1>3
  <2>4. next_paddr .. next_paddr' - 1 = next_paddr .. next_paddr + Bytes(n) - 1
    BY ONLY <1>2, <2>3
  <2> QED
    BY <2>2, <2>4, Zenon
<1>6. Region(b) \subseteq Ram /\ Region(b) \cap Owned = {}
  <2>1. next_paddr \in Int /\ next_paddr' \in Int
    BY ONLY <1>2, <1>3
  <2> HIDE DEF b
  <2>2. \A x \in Region(b) : x \in Int /\ next_paddr <= x /\ x < next_paddr'
    BY ONLY <1>5, <2>1
  <2>3. \A x \in Region(b) : x \in Ram
    BY ONLY Layout, <1>1, <1>3, <2>1, <2>2 DEF Ram
  <2>4. \A x \in Region(b) : x \notin Owned
    BY ONLY <1>1, <2>1, <2>2
  <2> QED
    BY <2>3, <2>4
<1>7. blocks' = blocks \cup {b}
  BY DEF AllocPages, NewBlock, Cleared
<1>8. Owned' = Owned \cup Region(b)
  <2>1. Owned' = UNION {Region(c) : c \in blocks'}
    BY DEF Owned, Region, Bytes
  <2> HIDE DEF b
  <2> QED
    BY ONLY <1>7, <2>1 DEF Owned
<1> QED
  BY <1>1, <1>2, <1>3, <1>4, <1>5, <1>6, <1>7, <1>8

LEMMA InitEstablishesBumpInv == Init => BumpInv
<1> SUFFICES ASSUME Init PROVE BumpInv
  OBVIOUS
<1> USE Layout
<1>1. FREE_RAM \in 0 .. WORD - 1
  OBVIOUS
<1>2. FREE_RAM % WORD = FREE_RAM
  BY <1>1, ModIdentity
<1>3. next_paddr = FREE_RAM /\ blocks = {} /\ panic = "none"
  BY <1>2 DEF Init
<1>4. TypeOK
  BY <1>1, <1>3 DEF Init, TypeOK, Addresses
<1>5. Owned = FREE_RAM .. next_paddr - 1
  BY <1>3 DEF Owned
<1>6. BlocksDisjoint
  BY <1>3 DEF BlocksDisjoint
<1> QED
  BY <1>3, <1>4, <1>5, <1>6 DEF BumpInv

LEMMA AllocPagesPreservesBumpInv ==
  ASSUME BumpInv, NEW n \in Requests, AllocPages(n)
  PROVE  BumpInv'
<1> USE Layout
<1> DEFINE b == [paddr |-> next_paddr, n |-> n]
<1>1. /\ b \in [paddr : Addresses, n : Requests]
      /\ blocks' = blocks \cup {b}
      /\ next_paddr' = next_paddr + Bytes(n)
      /\ next_paddr' \in Addresses /\ next_paddr' <= FREE_RAM_END
      /\ Bytes(n) \in Nat \ {0}
      /\ Region(b) = next_paddr .. next_paddr' - 1
      /\ Region(b) \subseteq Ram
      /\ Region(b) \cap Owned = {}
      /\ Owned' = Owned \cup Region(b)
  BY NewBlockIsFree
<1>2. /\ TypeOK /\ BlocksDisjoint
      /\ next_paddr \in Nat /\ FREE_RAM <= next_paddr
      /\ panic = "none" /\ panic' = "none"
      /\ Owned = FREE_RAM .. next_paddr - 1
  BY DEF BumpInv, TypeOK, Addresses, AllocPages, NewBlock, Cleared
<1> HIDE DEF b
<1>3. TypeOK'
  <2>1. memory' \in [Addresses -> Contents]
    <3>1. \E R : memory' = [a \in Addresses |-> IF a \in R THEN 0 ELSE memory[a]]
      BY DEF AllocPages, NewBlock, Cleared
    <3> QED
      BY <1>2, <3>1 DEF TypeOK
  <2> QED
    BY <1>1, <1>2, <2>1 DEF TypeOK
<1>4. FREE_RAM <= next_paddr' /\ next_paddr' \in Nat
  BY <1>1, <1>2
<1>5. Owned' = FREE_RAM .. next_paddr' - 1
  BY <1>1, <1>2
<1>6. BlocksDisjoint'
  <2>1. \A c \in blocks : Region(c) \subseteq Owned
    BY DEF Owned
  <2>2. BlocksDisjoint' = /\ \A c \in blocks' : Region(c) \subseteq Ram
                          /\ \A c, d \in blocks' : c # d => Region(c) \cap Region(d) = {}
    BY DEF BlocksDisjoint, Region, Ram, Bytes
  <2> QED
    BY <1>1, <1>2, <2>1, <2>2 DEF BlocksDisjoint
<1> QED
  BY <1>1, <1>2, <1>3, <1>4, <1>5, <1>6 DEF BumpInv

LEMMA NextPreservesBumpInv == BumpInv /\ [Next]_vars => BumpInv'
<1> SUFFICES ASSUME BumpInv, [Next]_vars PROVE BumpInv'
  OBVIOUS
<1> USE Layout
<1>1. ASSUME NEW n \in Requests, AllocPages(n) PROVE BumpInv'
  BY <1>1, AllocPagesPreservesBumpInv
<1>2. ASSUME NEW n \in Requests, OutOfMemory(n) PROVE BumpInv'
  <2>1. /\ next_paddr \in 0 .. FREE_RAM_END
        /\ next_paddr \in Nat /\ FREE_RAM <= next_paddr
        /\ panic' = "out of memory" /\ UNCHANGED <<blocks, memory>>
        /\ next_paddr' = Advance(n)
    <3>1. /\ panic = "none" /\ panic' = "out of memory"
          /\ UNCHANGED <<blocks, memory>>
          /\ next_paddr' = Advance(n)
      BY <1>2 DEF OutOfMemory
    <3>2. /\ FREE_RAM <= next_paddr /\ next_paddr <= FREE_RAM_END
          /\ next_paddr \in 0 .. WORD - 1
      BY <3>1 DEF BumpInv, TypeOK, Addresses
    <3>3. next_paddr \in 0 .. FREE_RAM_END /\ next_paddr \in Nat
      BY ONLY <3>2, Layout
    <3> QED
      BY <3>1, <3>2, <3>3
  <2>2. /\ next_paddr' = next_paddr + Bytes(n)
        /\ Bytes(n) \in Nat
        /\ next_paddr' < WORD
    BY <2>1, NoWrap DEF Advance
  <2>3. next_paddr' \in Addresses /\ FREE_RAM <= next_paddr'
    <3>1. next_paddr \in Nat /\ FREE_RAM <= next_paddr
      BY ONLY <2>1
    <3>2. next_paddr + Bytes(n) \in 0 .. WORD - 1 /\ FREE_RAM <= next_paddr + Bytes(n)
      BY ONLY <2>2, <3>1, Layout
    <3> QED
      BY ONLY <2>2, <3>2 DEF Addresses
  <2>4. TypeOK'
    BY <2>1, <2>3 DEF BumpInv, TypeOK
  <2>5. BlocksDisjoint'
    BY <2>1 DEF BumpInv, BlocksDisjoint, Region, Ram, Bytes
  <2> QED
    BY <2>1, <2>3, <2>4, <2>5 DEF BumpInv
<1>3. ASSUME NEW c \in blocks, NEW v \in Contents, Fill(c, v) PROVE BumpInv'
  <2>1. UNCHANGED <<next_paddr, blocks, panic>>
    BY <1>3 DEF Fill
  <2>2. memory' \in [Addresses -> Contents]
    BY <1>3 DEF Fill, BumpInv, TypeOK
  <2> QED
    BY <2>1, <2>2 DEF BumpInv, TypeOK, BlocksDisjoint, Owned, Region, Ram, Bytes
<1>4. CASE UNCHANGED vars
  BY <1>4 DEF vars, BumpInv, TypeOK, BlocksDisjoint, Owned, Region, Ram, Bytes
<1> QED
  BY <1>1, <1>2, <1>3, <1>4 DEF Next

\* The free part of RAM is what lies between next_paddr and its end.
THEOREM BumpInvariant == Spec => []BumpInv
<1> QED
  BY InitEstablishesBumpInv, NextPreservesBumpInv, PTL DEF Spec

\* Type correctness: next_paddr stays an address, whoever asks for what.
THEOREM AllocatorTypeCorrect == Spec => []TypeOK
<1>1. BumpInv => TypeOK
  BY DEF BumpInv
<1> QED
  BY <1>1, BumpInvariant, PTL

\* No address is given out twice, and none outside free RAM.
THEOREM BlocksAreDisjoint == Spec => []BlocksDisjoint
<1>1. BumpInv => BlocksDisjoint
  BY DEF BumpInv
<1> QED
  BY <1>1, BumpInvariant, PTL

\* What one call of alloc_pages does to memory.
LEMMA AllocPagesMemory ==
  ASSUME BumpInv, NEW n \in Requests, AllocPages(n),
         NEW x \in Addresses
  PROVE  memory'[x] = IF x \in Region([paddr |-> next_paddr, n |-> n]) THEN 0 ELSE memory[x]
  BY DEF AllocPages, NewBlock, Cleared

\* A new block is clear and no earlier block changes.
THEOREM AllocationsDoNotInterfere == Spec => ZeroesOnlyTheNewBlock
<1> DEFINE Quiet ==
      \A b \in blocks' \ blocks :
        /\ \A a \in Region(b) : memory'[a] = 0
        /\ \A c \in blocks : \A a \in Region(c) : memory'[a] = memory[a]
<1>1. BumpInv /\ [Next]_vars => [Quiet]_vars
  <2> SUFFICES ASSUME BumpInv, [Next]_vars PROVE Quiet \/ UNCHANGED vars
    OBVIOUS
  <2>1. ASSUME NEW n \in Requests, AllocPages(n) PROVE Quiet
    <3> DEFINE b == [paddr |-> next_paddr, n |-> n]
    <3>1. /\ blocks' = blocks \cup {b}
          /\ Region(b) \subseteq Ram
          /\ Region(b) \cap Owned = {}
      BY <2>1, NewBlockIsFree
    <3>2. \A c \in blocks : Region(c) \subseteq Ram /\ Region(c) \subseteq Owned
      BY DEF BumpInv, BlocksDisjoint, Owned
    <3>3. Ram \subseteq Addresses
      BY Layout DEF Ram, Addresses
    <3>4. \A x \in Addresses : memory'[x] = IF x \in Region(b) THEN 0 ELSE memory[x]
      BY <2>1, AllocPagesMemory
    <3> HIDE DEF b
    <3> QED
      BY <3>1, <3>2, <3>3, <3>4
  <2>2. ASSUME NEW n \in Requests, OutOfMemory(n) PROVE Quiet
    BY <2>2 DEF OutOfMemory
  <2>3. ASSUME NEW c \in blocks, NEW v \in Contents, Fill(c, v) PROVE Quiet
    BY <2>3 DEF Fill
  <2> QED
    BY <2>1, <2>2, <2>3 DEF Next
<1> QED
  BY <1>1, BumpInvariant, PTL DEF Spec, ZeroesOnlyTheNewBlock

\* alloc_pages implements the abstract page supply.
THEOREM BumpImplementsPageSupply == Spec => ImplementsPageSupply
<1>1. Init => PS!Init
  <2> SUFFICES ASSUME Init PROVE PS!Init
    OBVIOUS
  <2>1. memory \in [Addresses -> Contents] /\ blocks = {} /\ panic = "none"
    BY DEF Init
  <2> QED
    BY <2>1 DEF PS!Init, Owned
<1>2. BumpInv /\ [Next]_vars => [PS!Next]_PS!psVars
  <2> SUFFICES ASSUME BumpInv, [Next]_vars PROVE PS!Next \/ UNCHANGED PS!psVars
    OBVIOUS
  <2>1. ASSUME NEW n \in Requests, AllocPages(n) PROVE PS!Next
    <3> DEFINE b == [paddr |-> next_paddr, n |-> n]
               size == n * PAGE_SIZE
    <3>1. /\ next_paddr' = next_paddr + Bytes(n) /\ next_paddr' <= FREE_RAM_END
          /\ Bytes(n) \in Nat \ {0}
          /\ Region(b) = next_paddr .. next_paddr' - 1
          /\ Region(b) \subseteq Ram
          /\ Region(b) \cap Owned = {}
          /\ Owned' = Owned \cup Region(b)
      BY <2>1, NewBlockIsFree
    <3>2. /\ next_paddr \in Nat /\ FREE_RAM <= next_paddr
          /\ panic = "none" /\ panic' = "none"
      BY <2>1 DEF BumpInv, TypeOK, Addresses, AllocPages, NewBlock, Cleared
    <3>3. size = Bytes(n)
      <4>1. 0 \in 0 .. FREE_RAM_END
        BY Layout
      <4> QED
        BY <4>1, NoWrap
    <3>4. next_paddr \in Ram
      <4>1. next_paddr + Bytes(n) <= FREE_RAM_END
        BY <3>1
      <4> QED
        BY ONLY <3>1, <3>2, <4>1, Layout DEF Ram
    <3>5. memory' = [x \in Addresses |-> IF x \in Region(b) THEN 0 ELSE memory[x]]
      BY <2>1 DEF AllocPages, NewBlock, Cleared
    <3>6. PS!Span(next_paddr, size) = Region(b)
      <4>1. next_paddr .. next_paddr + Bytes(n) - 1 = next_paddr .. next_paddr' - 1
        BY ONLY <3>1, <3>2
      <4> HIDE DEF b
      <4> QED
        BY ONLY <3>1, <3>3, <4>1 DEF PS!Span
    <3> HIDE DEF b
    <3>7. PS!Grant(next_paddr, size)
      BY <3>1, <3>2, <3>5, <3>6 DEF PS!Grant, PS!Fits
    <3> QED
      BY <3>4, <3>7 DEF PS!Next
  <2>2. ASSUME NEW n \in Requests, OutOfMemory(n) PROVE PS!Next
    <3> DEFINE size == n * PAGE_SIZE
    <3>0. panic = "none" /\ panic' = "out of memory" /\ UNCHANGED <<blocks, memory>>
      BY <2>2 DEF OutOfMemory
    <3>1. next_paddr \in Nat /\ FREE_RAM <= next_paddr /\ next_paddr <= FREE_RAM_END
      <4>1. next_paddr \in 0 .. WORD - 1
        BY DEF BumpInv, TypeOK, Addresses
      <4>2. FREE_RAM <= next_paddr /\ next_paddr <= FREE_RAM_END
        BY <3>0 DEF BumpInv
      <4> QED
        BY ONLY <4>1, <4>2, Layout
    <3>a. Owned = FREE_RAM .. next_paddr - 1
      BY <3>0 DEF BumpInv
    <3>b. Owned' = Owned
      BY <3>0 DEF Owned, Region, Bytes
    <3>2. /\ size \in Nat \ {0} /\ Bytes(n) = size
      <4>1. 0 \in 0 .. FREE_RAM_END
        BY Layout
      <4> QED
        BY <4>1, NoWrap
    <3>3. ~ (next_paddr + size <= FREE_RAM_END)
      <4>1. next_paddr \in 0 .. FREE_RAM_END
        BY ONLY <3>1, Layout
      <4> QED
        BY <2>2, <3>2, <4>1, NoWrap DEF OutOfMemory, Fits, Advance
    <3> HIDE DEF size
    <3>4. ASSUME NEW a \in Ram, PS!Span(a, size) \subseteq Ram \ Owned
          PROVE  FALSE
      <4>1. a \in Int /\ a \in a .. a + size - 1 /\ a + size - 1 \in a .. a + size - 1
        BY ONLY <3>2, Layout, a \in Ram DEF Ram
      <4>2. a \notin Owned /\ a \in Ram /\ a + size - 1 \in Ram
        BY <3>4, <4>1 DEF PS!Span
      <4>3. next_paddr <= a
        <5>1. a \notin FREE_RAM .. next_paddr - 1 /\ FREE_RAM <= a
          BY <3>a, <4>2, Layout DEF Ram
        <5> QED
          BY ONLY <3>1, <4>1, <5>1, Layout
      <4>4. a + size <= FREE_RAM_END
        BY ONLY <3>2, <4>1, <4>2, Layout DEF Ram
      <4> QED
        BY ONLY <3>1, <3>2, <3>3, <4>1, <4>3, <4>4, Layout
    <3>5. PS!Refuse(size)
      BY <3>0, <3>4, <3>b DEF PS!Refuse, PS!Fits
    <3> QED
      BY <3>5 DEF PS!Next, size
  <2>3. ASSUME NEW c \in blocks, NEW v \in Contents, Fill(c, v) PROVE PS!Next
    <3>1. Region(c) \subseteq Owned
      BY DEF Owned
    <3>2. memory' = [a \in Addresses |-> IF a \in Region(c) THEN v ELSE memory[a]]
      BY <2>3 DEF Fill
    <3>3. memory' \in [Addresses -> Contents]
      BY <3>2 DEF BumpInv, TypeOK
    <3>4. Owned' = Owned /\ panic' = panic
      BY <2>3 DEF Fill, Owned, Region, Bytes
    <3> QED
      BY <3>1, <3>2, <3>3, <3>4 DEF PS!Next, PS!Store
  <2>4. CASE UNCHANGED vars
    BY <2>4 DEF vars, PS!psVars, Owned, Region, Bytes
  <2> QED
    BY <2>1, <2>2, <2>3, <2>4 DEF Next
<1> QED
  BY <1>1, <1>2, BumpInvariant, PTL DEF Spec, PS!Spec, ImplementsPageSupply
-----------------------------------------------------------------------------
(* Arithmetic of addresses, page numbers and entries.  Above this section  *)
(* only sums remain.                                                       *)

Indices == 0 .. ENTRIES - 1

\* The linear part of the assumptions.
LEMMA PageLayout ==
  /\ PAGE_SIZE \in Nat \ {0} /\ ENTRIES = PAGE_SIZE
  /\ Requests = {1}
  /\ FLAGS \in Nat /\ FLAGS > 1
  /\ FREE_RAM_END + PAGE_SIZE < WORD
  /\ Aligned(FREE_RAM)
<1>1. \A n \in Requests : FREE_RAM_END + n * PAGE_SIZE < WORD
  BY AllocatorAssumption
<1>2. 1 * PAGE_SIZE = PAGE_SIZE
  BY AllocatorAssumption
<1> QED
  BY <1>1, <1>2, AllocatorAssumption, PagingAssumption DEF Aligned, PAGE_V

\* An aligned address is a multiple of the page size.
LEMMA AlignedIsMultiple ==
  ASSUME NEW a \in Nat
  PROVE  /\ Page(a) \in Nat
         /\ Aligned(a) => a = PAGE_SIZE * Page(a)
<1>1. /\ a \div PAGE_SIZE \in Nat
      /\ a = PAGE_SIZE * (a \div PAGE_SIZE) + (a % PAGE_SIZE)
  BY PageLayout, DivMod
<1>2. PAGE_SIZE * (a \div PAGE_SIZE) \in Nat
  BY <1>1, PageLayout, ProductOfNat
<1> QED
  BY <1>1, <1>2 DEF Page, Aligned

LEMMA MultipleIsAligned ==
  ASSUME NEW q \in Nat
  PROVE  /\ PAGE_SIZE * q \in Nat
         /\ Aligned(PAGE_SIZE * q) /\ Page(PAGE_SIZE * q) = q
<1>1. PAGE_SIZE * q \in Nat /\ PAGE_SIZE * q + 0 = PAGE_SIZE * q
  BY PageLayout, ProductOfNat
<1>2. 0 \in 0 .. PAGE_SIZE - 1
  BY PageLayout
<1>3. /\ (PAGE_SIZE * q + 0) \div PAGE_SIZE = q
      /\ (PAGE_SIZE * q + 0) % PAGE_SIZE = 0
  BY <1>2, PageLayout, DivModUnique
<1> QED
  BY <1>1, <1>3 DEF Aligned, Page

\* The page after a page.
LEMMA NextPage ==
  ASSUME NEW a \in Nat, Aligned(a)
  PROVE  Aligned(a + PAGE_SIZE) /\ Page(a + PAGE_SIZE) = Page(a) + 1
<1>1. PICK q \in Nat : q = Page(a) /\ a = PAGE_SIZE * q
  BY AlignedIsMultiple
<1>2. PAGE_SIZE * (q + 1) = a + PAGE_SIZE
  BY <1>1, PageLayout
<1> QED
  BY <1>1, <1>2, MultipleIsAligned

\* Different pages do not overlap.
LEMMA PagesApart ==
  ASSUME NEW a \in Nat, NEW b \in Nat, Aligned(a), Aligned(b), a < b
  PROVE  a + PAGE_SIZE <= b /\ Page(a) < Page(b)
<1>1. PICK q \in Nat : q = Page(a) /\ a = PAGE_SIZE * q
  BY AlignedIsMultiple
<1>2. PICK r \in Nat : r = Page(b) /\ b = PAGE_SIZE * r
  BY AlignedIsMultiple
<1>3. q < r
  <2> SUFFICES ASSUME ~ (q < r) PROVE FALSE
    OBVIOUS
  <2>1. CASE q = r
    BY <1>1, <1>2, <2>1
  <2>2. CASE r < q
    <3>1. PAGE_SIZE * r + PAGE_SIZE <= PAGE_SIZE * q
      BY <2>2, PageLayout, ProductGrows
    <3> QED
      BY <3>1, <1>1, <1>2, PageLayout
  <2> QED
    BY <2>1, <2>2
<1>4. PAGE_SIZE * q + PAGE_SIZE <= PAGE_SIZE * r
  BY <1>3, PageLayout, ProductGrows
<1> QED
  BY <1>1, <1>2, <1>3, <1>4

\* The page of an address, and the indices map_page computes from the address.
LEMMA Indexing ==
  ASSUME NEW v \in Addresses
  PROVE  /\ Page(v) \in Pages
         /\ Page(v) \div ENTRIES = Vpn1(v) /\ Page(v) % ENTRIES = Vpn0(v)
         /\ Vpn1(v) \in Indices /\ Vpn0(v) \in Indices
<1>1. PICK n \in Nat \ {0} : n = PAGE_SIZE /\ n = ENTRIES
  BY PageLayout
<1>2. /\ WORD = n * (n * n) /\ n * n \in Nat
      /\ WORD \in Nat /\ v \in Nat /\ v < WORD
  <2>1. n * n \in Nat
    BY ProductOfNat
  <2>2. WORD = (n * n) * n /\ (n * n) * n = n * (n * n)
    BY <1>1, <2>1, PagingAssumption
  <2> QED
    BY <2>1, <2>2, Layout DEF Addresses
<1>3. PICK p \in Nat : p = v \div n
  BY <1>2, DivMod
<1>4. p < n * n
  BY <1>2, <1>3, QuotientBound
<1>5. PICK k \in Nat : k = p \div n
  BY DivMod
<1>6. k \in 0 .. n - 1
  BY <1>4, <1>5, QuotientBound
<1>7. v \div (n * n) = k
  BY <1>2, <1>3, <1>5, QuotientOfQuotient
<1>8. k % n = k
  BY <1>6, ModIdentity
<1>9. p % n \in 0 .. n - 1
  BY DivMod
<1>10. p \in 0 .. n * n - 1
  BY <1>2, <1>4
<1> QED
  BY <1>1, <1>3, <1>5, <1>6, <1>7, <1>8, <1>9, <1>10 DEF Page, Pages, Vpn1, Vpn0, Indices

\* A page number is its two indices.
LEMMA PageIsIndices ==
  /\ \A p \in Pages : /\ p \in Nat /\ p \div ENTRIES \in Indices
                      /\ p % ENTRIES \in Indices
  /\ \A p, q \in Pages :
       p \div ENTRIES = q \div ENTRIES /\ p % ENTRIES = q % ENTRIES => p = q
<1>1. PICK n \in Nat \ {0} : n = ENTRIES
  BY PageLayout
<1>2. n * n \in Nat
  BY ProductOfNat
<1>3. ASSUME NEW p \in Pages
      PROVE  /\ p \in Nat /\ p \div n \in Indices /\ p % n \in Indices
             /\ p = n * (p \div n) + (p % n)
  <2>1. p \in Nat /\ p < n * n
    BY <1>1, <1>2 DEF Pages
  <2>2. /\ p \div n \in Nat /\ p % n \in 0 .. n - 1
        /\ p = n * (p \div n) + (p % n)
    BY <2>1, DivMod
  <2>3. p \div n < n
    BY <2>1, QuotientBound
  <2> QED
    BY <1>1, <2>1, <2>2, <2>3 DEF Indices
<1> QED
  BY <1>1, <1>3, Zenon

\* What an entry map_page writes is read back as.
LEMMA EntryReadBack ==
  ASSUME NEW p \in Addresses, NEW f \in 0 .. FLAGS - 1, f % 2 = 0
  PROVE  /\ Entry(p, f) \in Contents /\ Valid(Entry(p, f))
         /\ Aligned(p) => Target(Entry(p, f)) = p
         /\ Decoded(Entry(p, f)) = [ppn |-> Page(p), flags |-> f + PAGE_V]
<1>1. /\ p \in Nat /\ FLAGS \in Nat \ {0} /\ FLAGS % 2 = 0 /\ f \in Nat
      /\ FLAGS > 1 /\ f + 1 \in 0 .. FLAGS - 1
  BY PagingAssumption, Layout DEF Addresses, PAGE_V
<1>2. PICK q \in Nat : q = Page(p)
  BY <1>1, AlignedIsMultiple
<1>3. PICK e : e = Entry(p, f)
  OBVIOUS
<1>4. e = FLAGS * q + (f + 1)
  <2>1. q * FLAGS = FLAGS * q /\ FLAGS * q \in Nat
    BY <1>1, ProductOfNat
  <2> QED
    BY <1>1, <1>2, <1>3, <2>1 DEF Entry, PAGE_V
<1>5. e \div FLAGS = q /\ e % FLAGS = f + 1
  BY <1>1, <1>4, DivModUnique
<1>6. e \in Contents
  <2>1. PICK s \in Nat : s = ENTRIES * ENTRIES
    BY PageLayout, ProductOfNat
  <2>2. q \in 0 .. s - 1
    BY <1>2, <2>1, Indexing DEF Pages
  <2>3. FLAGS * q + (f + 1) < FLAGS * s
    BY <1>1, <2>2, ProductBound
  <2>4. FLAGS * s = s * FLAGS /\ FLAGS * s \in Nat /\ FLAGS * q \in Nat
    BY <1>1, ProductOfNat
  <2>5. Contents = 0 .. s * FLAGS - 1
    BY <2>1, PagingAssumption
  <2> QED
    BY <1>1, <1>4, <2>3, <2>4, <2>5
<1>7. Valid(e)
  <2>1. PICK h \in Nat : FLAGS = 2 * h
    BY <1>1
  <2>2. PICK g \in Nat : f = 2 * g
    BY <1>1
  <2>3. PICK m \in Nat : m = h * q + g
    BY ProductOfNat
  <2>4. e = 2 * m + 1
    BY <1>4, <2>1, <2>2, <2>3
  <2> QED
    BY <2>4 DEF Valid, PAGE_V
<1>8. Aligned(p) => Target(e) = p
  <2>1. Aligned(p) => p = PAGE_SIZE * q
    BY <1>1, <1>2, AlignedIsMultiple
  <2>2. Target(e) = q * PAGE_SIZE
    BY <1>5 DEF Target
  <2> QED
    BY <2>1, <2>2, PageLayout
<1> QED
  BY <1>2, <1>3, <1>5, <1>6, <1>7, <1>8 DEF Decoded, PAGE_V

\* An entry, whatever it is, points to a page.
LEMMA TargetIsPage ==
  ASSUME NEW e \in Contents
  PROVE  Target(e) \in Nat /\ Aligned(Target(e)) /\ Target(e) + PAGE_SIZE <= WORD
<1>1. PICK n \in Nat \ {0} : n = PAGE_SIZE /\ n = ENTRIES
  BY PageLayout
<1>2. PICK s \in Nat : s = n * n
  BY ProductOfNat
<1>3. FLAGS \in Nat \ {0} /\ Contents = 0 .. s * FLAGS - 1
  BY <1>1, <1>2, PagingAssumption, PageLayout
<1>4. e \in Nat /\ e < FLAGS * s
  BY <1>3, ProductOfNat
<1>5. PICK q \in Nat : q = e \div FLAGS
  BY <1>3, <1>4, DivMod
<1>6. q < s
  BY <1>3, <1>4, <1>5, QuotientBound
<1>7. n * q + n <= n * s
  BY <1>6, ProductGrows
<1>8. WORD = n * s /\ Target(e) = n * q
  <2>1. WORD = s * n
    BY <1>1, <1>2, PagingAssumption
  <2>2. Target(e) = q * n
    BY <1>1, <1>5 DEF Target
  <2> QED
    BY <2>1, <2>2
<1> QED
  BY <1>1, <1>7, <1>8, MultipleIsAligned

\* A cleared word is not a valid entry.
LEMMA ClearIsInvalid == ~ Valid(0)
BY DEF Valid, PAGE_V
-----------------------------------------------------------------------------
(* The inductive invariant of the page tables.                             *)

\* The pages alloc_pages has returned.
Bases == {b.paddr : b \in blocks}

NoPage == -1

\* The second-level table entry k of first-level table t points to, if any.
Child(t, k) == IF Valid(memory[t + k]) THEN Target(memory[t + k]) ELSE NoPage

\* The allocator gives out whole pages, from the start of free RAM upwards.
PoolInv ==
  /\ PagingTypeOK
  /\ FREE_RAM <= next_paddr /\ Aligned(next_paddr)
  /\ panic = "none" => next_paddr <= FREE_RAM_END
  /\ \A a \in Bases : /\ Aligned(a) /\ FREE_RAM <= a
                      /\ a + PAGE_SIZE <= next_paddr /\ a + PAGE_SIZE <= FREE_RAM_END

\* The pages form trees of two levels: every entry of a first-level table is
\* invalid or points to a page that is no first-level table, no two entries
\* point to the same, and every such page is pointed to.
TreeInv ==
  /\ tables \subseteq Bases
  /\ \A t \in tables, k \in Indices : Child(t, k) \in (Bases \ tables) \cup {NoPage}
  /\ \A t, u \in tables, j, k \in Indices :
       Child(t, j) = Child(u, k) /\ Child(t, j) # NoPage => t = u /\ j = k
  /\ \A a \in Bases \ tables : \E t \in tables, k \in Indices : Child(t, k) = a

PagingInv == PoolInv /\ TreeInv

\* The words of a page are words of memory, below next_paddr.
LEMMA PageWords ==
  ASSUME PoolInv, NEW a \in Bases
  PROVE  /\ a \in Nat /\ Aligned(a) /\ FREE_RAM <= a /\ a + PAGE_SIZE <= next_paddr
         /\ a + PAGE_SIZE <= FREE_RAM_END /\ a \in Ram /\ a # NoPage
         /\ \A k \in Indices : /\ a + k \in Addresses /\ a + k < a + PAGE_SIZE
                               /\ memory[a + k] \in Contents
<1>1. a \in Addresses /\ memory \in [Addresses -> Contents]
  BY DEF PoolInv, PagingTypeOK, Bases
<1>2. /\ a \in Nat /\ Aligned(a) /\ FREE_RAM <= a /\ a + PAGE_SIZE <= next_paddr
      /\ a + PAGE_SIZE <= FREE_RAM_END
  BY <1>1, Layout DEF PoolInv, Addresses
<1>3. \A k \in Indices : a + k \in Addresses /\ a + k < a + PAGE_SIZE
  BY <1>2, Layout, PageLayout DEF Indices, Addresses
<1>4. a \in Ram /\ a # NoPage
  BY <1>2, Layout, PageLayout DEF Ram, NoPage
<1> QED
  BY <1>1, <1>2, <1>3, <1>4

\* Words of different pages are different.
LEMMA WordsApart ==
  ASSUME NEW a \in Nat, NEW b \in Nat, Aligned(a), Aligned(b),
         NEW j \in Indices, NEW k \in Indices
  PROVE  a + j = b + k <=> a = b /\ j = k
<1>1. CASE a = b
  BY <1>1 DEF Indices
<1>2. CASE a < b
  BY <1>2, PagesApart, PageLayout DEF Indices
<1>3. CASE b < a
  BY <1>3, PagesApart, PageLayout DEF Indices
<1> QED
  BY <1>1, <1>2, <1>3

\* The page the next call of alloc_pages returns, if it returns.
LEMMA NextIsNew ==
  ASSUME PoolInv, panic = "none", Fits(1)
  PROVE  /\ next_paddr \in Nat /\ Aligned(next_paddr) /\ next_paddr \in Addresses
         /\ FREE_RAM <= next_paddr /\ next_paddr + PAGE_SIZE <= FREE_RAM_END
         /\ Advance(1) = next_paddr + PAGE_SIZE
         /\ Region(NewBlock(1)) = next_paddr .. next_paddr + PAGE_SIZE - 1
         /\ next_paddr \notin Bases /\ next_paddr \in Ram
<1>1. /\ next_paddr \in Addresses /\ next_paddr \in Nat /\ Aligned(next_paddr)
      /\ FREE_RAM <= next_paddr /\ next_paddr <= FREE_RAM_END
  BY Layout DEF PoolInv, PagingTypeOK, Addresses
<1>2. 1 \in Requests /\ next_paddr \in 0 .. FREE_RAM_END
  BY <1>1, Layout, PageLayout
<1>3. /\ Bytes(1) = PAGE_SIZE
      /\ (next_paddr + Bytes(1)) % WORD = next_paddr + Bytes(1)
  <2>1. 1 * PAGE_SIZE = PAGE_SIZE
    BY PageLayout
  <2> QED
    BY <1>2, <2>1, NoWrap
<1>4. Advance(1) = next_paddr + PAGE_SIZE /\ next_paddr + PAGE_SIZE <= FREE_RAM_END
  BY <1>3 DEF Advance, Fits
<1>5. Region(NewBlock(1)) = next_paddr .. next_paddr + PAGE_SIZE - 1
  BY <1>1, <1>2, <1>3, <1>4, RegionIsInterval DEF NewBlock
<1>6. next_paddr \notin Bases
  BY <1>1, PageWords, PageLayout
<1>7. next_paddr \in Ram
  BY <1>1, <1>4, Layout, PageLayout DEF Ram
<1> QED
  BY <1>1, <1>4, <1>5, <1>6, <1>7

\* What alloc_pages does to the pool, whatever is stored in the new page.
LEMMA PoolGrows ==
  ASSUME PoolInv, panic = "none", Fits(1), next_paddr' = Advance(1),
         blocks' = blocks \cup {NewBlock(1)}, panic' = "none",
         memory' \in [Addresses -> Contents], tables' \subseteq Addresses
  PROVE  PoolInv' /\ Bases' = Bases \cup {next_paddr}
<1>1. Bases' = Bases \cup {next_paddr}
  <2>1. NewBlock(1).paddr = next_paddr
    BY DEF NewBlock
  <2>2. PICK b : b = NewBlock(1) /\ b.paddr = next_paddr
    BY <2>1
  <2>3. Bases' = {c.paddr : c \in blocks \cup {b}}
    BY <2>2 DEF Bases
  <2>4. Bases' = {c.paddr : c \in blocks} \cup {b.paddr}
    BY ONLY <2>3
  <2> QED
    BY <2>2, <2>4 DEF Bases
<1>2. next_paddr' = next_paddr + PAGE_SIZE /\ next_paddr \in Nat
  BY NextIsNew
<1>3. next_paddr' \in Addresses /\ next_paddr' <= FREE_RAM_END /\ FREE_RAM <= next_paddr'
  BY <1>2, NextIsNew, Layout, PageLayout DEF Addresses
<1>4. Aligned(next_paddr)' /\ Aligned(next_paddr)
  BY <1>2, NextIsNew, NextPage DEF Aligned
<1>5. blocks' \subseteq [paddr : Addresses, n : {1}]
  <2>1. NewBlock(1) \in [paddr : Addresses, n : {1}]
    BY NextIsNew DEF NewBlock
  <2> QED
    BY <2>1 DEF PoolInv, PagingTypeOK
<1>6. ASSUME NEW a \in Bases'
      PROVE  /\ a % PAGE_SIZE = 0 /\ FREE_RAM <= a
             /\ a + PAGE_SIZE <= next_paddr' /\ a + PAGE_SIZE <= FREE_RAM_END
  <2>1. CASE a = next_paddr
    BY <2>1, <1>2, NextIsNew, PageLayout DEF Aligned
  <2>2. CASE a \in Bases
    BY <2>2, <1>2, PageWords, PageLayout DEF Aligned
  <2> QED
    BY <1>1, <2>1, <2>2
<1>7. PagingTypeOK'
  BY <1>3, <1>5 DEF PagingTypeOK
<1> QED
  BY <1>1, <1>3, <1>4, <1>6, <1>7 DEF PoolInv, Aligned

\* Nothing that happens after a panic changes memory or what was returned.
LEMMA PoolKept ==
  ASSUME PoolInv, UNCHANGED <<next_paddr, blocks, tables, panic>>,
         memory' \in [Addresses -> Contents]
  PROVE  PoolInv' /\ Bases' = Bases
<1>1. Bases' = Bases
  BY DEF Bases
<1>2. PagingTypeOK'
  BY DEF PoolInv, PagingTypeOK
<1> QED
  BY <1>1, <1>2 DEF PoolInv, Aligned

\* Entry k of a table, read off its word.
LEMMA ChildOf ==
  ASSUME PoolInv, NEW t \in Bases, NEW k \in Indices
  PROVE  /\ Valid(memory[t + k]) <=> Child(t, k) # NoPage
         /\ Valid(memory[t + k]) => Child(t, k) = Target(memory[t + k])
         /\ ~ Valid(memory[t + k]) => Child(t, k) = NoPage
<1>1. Target(memory[t + k]) \in Nat
  BY PageWords, TargetIsPage
<1> QED
  BY <1>1 DEF Child, NoPage

\* create_process takes a page for a first-level table: all its entries are
\* invalid, and no word of another table changes.
LEMMA NewTableStep ==
  ASSUME PagingInv, AllocPages(1), tables' = tables \cup {next_paddr},
         NEW n, n = next_paddr
  PROVE  /\ PagingInv' /\ Bases' = Bases \cup {n} /\ n \notin Bases
         /\ n \in Ram /\ Aligned(n)
         /\ \A k \in Indices : Child(n, k)' = NoPage
         /\ \A t \in tables, k \in Indices : Child(t, k)' = Child(t, k)
         /\ \A a \in Bases, k \in Indices : memory'[a + k] = memory[a + k]
<1>1. /\ panic = "none" /\ panic' = "none" /\ Fits(1) /\ next_paddr' = Advance(1)
      /\ blocks' = blocks \cup {NewBlock(1)} /\ memory' = Cleared(NewBlock(1))
      /\ PoolInv /\ TreeInv
  BY DEF AllocPages, PagingInv
<1>2. \A a \in Addresses :
        memory'[a] = IF a \in next_paddr .. next_paddr + PAGE_SIZE - 1 THEN 0 ELSE memory[a]
  BY <1>1, NextIsNew DEF Cleared
<1>3. memory' \in [Addresses -> Contents]
  BY <1>1, Layout DEF Cleared, PoolInv, PagingTypeOK
<1>4. PoolInv' /\ Bases' = Bases \cup {next_paddr}
  <2>1. tables' \subseteq Addresses
    BY <1>1, NextIsNew DEF PoolInv, PagingTypeOK
  <2> QED
    BY <1>1, <1>3, <2>1, PoolGrows
<1>5. \A a \in Bases, k \in Indices : memory'[a + k] = memory[a + k]
  BY <1>1, <1>2, PageWords, NextIsNew, PageLayout DEF Indices
<1>6. \A k \in Indices : memory'[n + k] = 0
  BY <1>1, <1>2, NextIsNew, Layout, PageLayout DEF Indices, Addresses
<1>7. \A k \in Indices : Child(n, k)' = NoPage
  BY <1>6, ClearIsInvalid DEF Child, Valid
<1>8. \A t \in tables, k \in Indices : Child(t, k)' = Child(t, k)
  BY <1>1, <1>5 DEF Child, Valid, Target, TreeInv
<1>9. n \notin Bases /\ n \in Ram /\ Aligned(n)
  BY <1>1, NextIsNew
<1>10. TreeInv'
  <2>1. /\ tables' \subseteq Bases' /\ Bases' \ tables' = Bases \ tables
    BY <1>1, <1>4, <1>9 DEF TreeInv
  <2>2. \A t \in tables', k \in Indices :
          Child(t, k)' = IF t = n THEN NoPage ELSE Child(t, k)
    BY <1>1, <1>7, <1>8, <1>9 DEF TreeInv
  <2>3. \A t \in tables', k \in Indices : Child(t, k)' # NoPage =>
          t \in tables /\ Child(t, k)' = Child(t, k)
    BY <2>2
  <2>4. \A t \in tables', k \in Indices : Child(t, k)' \in (Bases' \ tables') \cup {NoPage}
    BY <1>1, <2>1, <2>2 DEF TreeInv
  <2>5. \A t, u \in tables', j, k \in Indices :
          Child(t, j)' = Child(u, k)' /\ Child(t, j)' # NoPage => t = u /\ j = k
    BY <1>1, <2>3 DEF TreeInv
  <2>6. \A a \in Bases' \ tables' : \E t \in tables', k \in Indices : Child(t, k)' = a
    BY <1>1, <1>8, <2>1 DEF TreeInv
  <2> QED
    BY <2>1, <2>4, <2>5, <2>6 DEF TreeInv
<1> QED
  BY <1>4, <1>5, <1>7, <1>8, <1>9, <1>10 DEF PagingInv

\* The arguments of map_page that are not refused.
LEMMA Arguments ==
  ASSUME NEW v \in Addresses, NEW p \in Addresses, NEW f \in FlagSets
  PROVE  /\ Vpn1(v) \in Indices /\ Vpn0(v) \in Indices
         /\ f \in 0 .. FLAGS - 1 /\ f % 2 = 0
         /\ Entry(p, f) \in Contents /\ Valid(Entry(p, f))
<1>1. f \in 0 .. FLAGS - 1 /\ f % 2 = 0
  BY PagingAssumption
<1> QED
  BY <1>1, Indexing, EntryReadBack

\* map_page finds a second-level table and stores one word of it.
LEMMA MapInExistingStep ==
  ASSUME PagingInv, NEW t \in tables, NEW v \in Addresses, NEW p \in Addresses,
         NEW f \in FlagSets, MapInExistingTable(t, v, p, f), UNCHANGED tables
  PROVE  /\ PagingInv' /\ Bases' = Bases
         /\ Child(t, Vpn1(v)) # NoPage
         /\ \A u \in tables, k \in Indices : Child(u, k)' = Child(u, k)
         /\ \A a \in Bases \ tables, k \in Indices :
              memory'[a + k] = IF a = Child(t, Vpn1(v)) /\ k = Vpn0(v)
                                 THEN Entry(p, f) ELSE memory[a + k]
<1>1. /\ panic = "none" /\ Valid(memory[t + Vpn1(v)])
      /\ memory' = StoreLeaf(memory, t, v, p, f)
      /\ UNCHANGED <<next_paddr, blocks, tables, panic>>
      /\ PoolInv /\ TreeInv /\ t \in Bases
  BY DEF MapInExistingTable, PagingInv, TreeInv
<1>2. PICK i \in Indices, j \in Indices, e \in Contents :
        i = Vpn1(v) /\ j = Vpn0(v) /\ e = Entry(p, f)
  BY Arguments
<1>3. PICK s : s = Child(t, i)
  OBVIOUS
<1>4. s = Target(memory[t + i]) /\ s # NoPage
  BY <1>1, <1>2, <1>3, ChildOf
<1>5. s \in Bases \ tables
  BY <1>1, <1>2, <1>3, <1>4 DEF TreeInv
<1>6. memory' = [memory EXCEPT ![s + j] = e]
  BY <1>1, <1>2, <1>4 DEF StoreLeaf
<1>7. s + j \in Addresses /\ memory \in [Addresses -> Contents]
  BY <1>1, <1>5, PageWords DEF PoolInv, PagingTypeOK
<1>8. memory' \in [Addresses -> Contents]
  BY <1>6, <1>7
<1>9. PoolInv' /\ Bases' = Bases
  BY <1>1, <1>8, PoolKept
<1>10. \A a \in Bases, k \in Indices :
         memory'[a + k] = IF a = s /\ k = j THEN e ELSE memory[a + k]
  <2> SUFFICES ASSUME NEW a \in Bases, NEW k \in Indices
               PROVE  memory'[a + k] = IF a = s /\ k = j THEN e ELSE memory[a + k]
    OBVIOUS
  <2>1. /\ a \in Nat /\ s \in Nat /\ Aligned(a) /\ Aligned(s) /\ a + k \in Addresses
    BY <1>1, <1>5, PageWords
  <2>2. a + k = s + j <=> a = s /\ k = j
    BY <2>1, WordsApart
  <2> QED
    BY <1>6, <1>7, <2>1, <2>2
<1>11. \A u \in tables, k \in Indices : Child(u, k)' = Child(u, k)
  <2>1. \A u \in tables, k \in Indices : memory'[u + k] = memory[u + k]
    BY <1>1, <1>5, <1>10 DEF TreeInv
  <2> QED
    BY <2>1 DEF Child, Valid, Target
<1>12. TreeInv'
  BY <1>1, <1>9, <1>11 DEF TreeInv
<1> QED
  BY <1>1, <1>2, <1>3, <1>4, <1>9, <1>10, <1>11, <1>12 DEF PagingInv

\* map_page finds no second-level table, takes a page for one, and stores one
\* word of it.
LEMMA MapInNewStep ==
  ASSUME PagingInv, NEW t \in tables, NEW v \in Addresses, NEW p \in Addresses,
         NEW f \in FlagSets, MapInNewTable(t, v, p, f), UNCHANGED tables,
         NEW n, n = next_paddr
  PROVE  /\ PagingInv' /\ Bases' = Bases \cup {n} /\ n \notin Bases /\ n # NoPage
         /\ Child(t, Vpn1(v)) = NoPage
         /\ \A u \in tables, k \in Indices :
              Child(u, k)' = IF u = t /\ k = Vpn1(v) THEN n ELSE Child(u, k)
         /\ \A a \in Bases \ tables, k \in Indices : memory'[a + k] = memory[a + k]
         /\ \A k \in Indices :
              memory'[n + k] = IF k = Vpn0(v) THEN Entry(p, f) ELSE 0
<1>1. /\ panic = "none" /\ panic' = "none" /\ ~ Valid(memory[t + Vpn1(v)])
      /\ Fits(1) /\ next_paddr' = Advance(1)
      /\ blocks' = blocks \cup {NewBlock(1)} /\ tables' = tables
      /\ memory' = StoreLeaf(Installed(Cleared(NewBlock(1)), t, v, n), t, v, p, f)
      /\ PoolInv /\ TreeInv /\ t \in Bases
  BY DEF MapInNewTable, PagingInv, TreeInv
<1>2. PICK i \in Indices, j \in Indices, e \in Contents :
        i = Vpn1(v) /\ j = Vpn0(v) /\ e = Entry(p, f)
  BY Arguments
<1>3. /\ n \in Nat /\ Aligned(n) /\ n \in Addresses /\ n \notin Bases /\ n # NoPage
      /\ n + PAGE_SIZE <= FREE_RAM_END
      /\ Region(NewBlock(1)) = n .. n + PAGE_SIZE - 1
  BY <1>1, NextIsNew DEF NoPage
<1>4. PICK d \in Contents : d = Entry(n, 0) /\ Valid(d) /\ Target(d) = n
  <2>1. 0 \in 0 .. FLAGS - 1 /\ 0 % 2 = 0
    BY PageLayout
  <2> QED
    BY <1>3, <2>1, EntryReadBack
<1>5. PICK clear : clear = Cleared(NewBlock(1))
  OBVIOUS
<1>6. /\ clear \in [Addresses -> Contents]
      /\ \A a \in Addresses :
           clear[a] = IF a \in n .. n + PAGE_SIZE - 1 THEN 0 ELSE memory[a]
  BY <1>1, <1>3, <1>5, Layout DEF Cleared, PoolInv, PagingTypeOK
<1>7. PICK inst : inst = [clear EXCEPT ![t + i] = d]
  OBVIOUS
<1>8. t + i \in Addresses /\ inst \in [Addresses -> Contents] /\ inst[t + i] = d
  BY <1>1, <1>6, <1>7, PageWords
<1>9. memory' = [inst EXCEPT ![n + j] = e]
  <2>1. inst = Installed(Cleared(NewBlock(1)), t, v, n)
    BY <1>2, <1>4, <1>5, <1>7 DEF Installed
  <2>2. memory' = [inst EXCEPT ![Target(inst[t + i]) + j] = e]
    BY <1>1, <1>2, <2>1 DEF StoreLeaf
  <2> QED
    BY <1>4, <1>8, <2>2
<1>10. \A k \in Indices : n + k \in Addresses /\ n + k \in n .. n + PAGE_SIZE - 1
  BY <1>3, Layout, PageLayout DEF Indices, Addresses
<1>11. memory' \in [Addresses -> Contents]
  BY <1>8, <1>9, <1>10
<1>12. PoolInv' /\ Bases' = Bases \cup {n}
  <2>1. tables' \subseteq Addresses
    BY <1>1 DEF PoolInv, PagingTypeOK
  <2> QED
    BY <1>1, <1>11, <2>1, PoolGrows
<1>13. \A a \in Bases, k \in Indices :
         memory'[a + k] = IF a = t /\ k = i THEN d ELSE memory[a + k]
  <2> SUFFICES ASSUME NEW a \in Bases, NEW k \in Indices
               PROVE  memory'[a + k] = IF a = t /\ k = i THEN d ELSE memory[a + k]
    OBVIOUS
  <2>1. /\ a \in Nat /\ t \in Nat /\ Aligned(a) /\ Aligned(t) /\ a + k \in Addresses
        /\ a + k < n
    BY <1>1, PageWords, PageLayout, <1>3 DEF Indices
  <2>2. a + k = t + i <=> a = t /\ k = i
    BY <2>1, WordsApart
  <2>3. a + k # n + j /\ a + k \notin n .. n + PAGE_SIZE - 1
    BY <2>1, <1>3, PageLayout DEF Indices
  <2>4. memory'[a + k] = inst[a + k]
    BY <1>8, <1>9, <2>1, <2>3
  <2>5. clear[a + k] = memory[a + k]
    BY <1>6, <2>1, <2>3
  <2> QED
    BY <1>6, <1>7, <2>1, <2>2, <2>4, <2>5
<1>14. \A k \in Indices : memory'[n + k] = IF k = j THEN e ELSE 0
  <2> SUFFICES ASSUME NEW k \in Indices
               PROVE  memory'[n + k] = IF k = j THEN e ELSE 0
    OBVIOUS
  <2>1. /\ n + k \in Addresses /\ clear[n + k] = 0
        /\ n + k = n + j <=> k = j
    BY <1>3, <1>6, <1>10 DEF Indices
  <2>2. n + k # t + i
    <3>1. t \in Nat /\ Aligned(t) /\ t # n
      BY <1>1, <1>3, PageWords
    <3> QED
      BY <1>3, <3>1, WordsApart
  <2>3. inst[n + k] = 0
    BY <1>6, <1>7, <2>1, <2>2
  <2> QED
    BY <1>8, <1>9, <2>1, <2>3
<1>15. \A u \in tables, k \in Indices :
         Child(u, k)' = IF u = t /\ k = i THEN n ELSE Child(u, k)
  <2>1. \A u \in tables, k \in Indices :
          memory'[u + k] = IF u = t /\ k = i THEN d ELSE memory[u + k]
    BY <1>1, <1>13 DEF TreeInv
  <2> QED
    BY <1>4, <2>1 DEF Child, Valid, Target
<1>16. Child(t, i) = NoPage
  BY <1>1, <1>2, ChildOf
<1>17. TreeInv'
  <2>1. tables' \subseteq Bases' /\ Bases' \ tables' = (Bases \ tables) \cup {n}
    BY <1>1, <1>3, <1>12 DEF TreeInv
  <2>2. \A u \in tables', k \in Indices : Child(u, k)' \in (Bases' \ tables') \cup {NoPage}
    BY <1>1, <1>15, <2>1 DEF TreeInv
  <2>3. \A u \in tables, k \in Indices : Child(u, k) # n
    BY <1>1, <1>3 DEF TreeInv
  <2>4. \A u, w \in tables', k, l \in Indices :
          Child(u, k)' = Child(w, l)' /\ Child(u, k)' # NoPage => u = w /\ k = l
    BY <1>1, <1>15, <2>3 DEF TreeInv
  <2>5. \A a \in Bases \ tables : \E u \in tables', k \in Indices : Child(u, k)' = a
    <3> SUFFICES ASSUME NEW a \in Bases \ tables
                 PROVE  \E u \in tables', k \in Indices : Child(u, k)' = a
      OBVIOUS
    <3>1. PICK u \in tables, k \in Indices : Child(u, k) = a
      BY <1>1 DEF TreeInv
    <3>2. a # NoPage
      BY <1>1, PageWords
    <3> QED
      BY <1>1, <1>15, <1>16, <3>1, <3>2
  <2>6. \E u \in tables', k \in Indices : Child(u, k)' = n
    BY <1>1, <1>15
  <2> QED
    BY <2>1, <2>2, <2>4, <2>5, <2>6 DEF TreeInv
<1> QED
  BY <1>1, <1>2, <1>3, <1>12, <1>13, <1>14, <1>15, <1>16, <1>17 DEF PagingInv, TreeInv

\* "unaligned vaddr", "unaligned paddr" and "out of memory" leave the tables alone.
LEMMA PanicStep ==
  ASSUME PagingInv, UNCHANGED tables,
         \/ \E v, p \in Addresses : Unaligned(v, p)
         \/ OutOfMemory(1)
  PROVE  PagingInv' /\ UNCHANGED <<blocks, memory, tables>>
<1>1. /\ panic = "none" /\ UNCHANGED <<blocks, memory, tables>>
      /\ PoolInv /\ TreeInv
  BY DEF Unaligned, OutOfMemory, PagingInv
<1>2. Bases' = Bases /\ TreeInv'
  <2>1. Bases' = Bases
    BY <1>1 DEF Bases
  <2>2. \A t \in tables, k \in Indices : Child(t, k)' = Child(t, k)
    BY <1>1 DEF Child
  <2> QED
    BY <1>1, <2>1, <2>2 DEF TreeInv
<1>3. panic' \in {"out of memory", "unaligned vaddr", "unaligned paddr"}
  BY DEF Unaligned, OutOfMemory
<1>4. /\ next_paddr \in Nat /\ Aligned(next_paddr) /\ FREE_RAM <= next_paddr
      /\ next_paddr <= FREE_RAM_END /\ next_paddr \in Addresses
  BY <1>1, Layout DEF PoolInv, PagingTypeOK, Addresses
<1>5. \/ next_paddr' = next_paddr
      \/ next_paddr' = next_paddr + PAGE_SIZE
  <2>1. CASE OutOfMemory(1)
    <3>1. 1 \in Requests /\ next_paddr \in 0 .. FREE_RAM_END
      BY <1>4, Layout, PageLayout
    <3>2. /\ Bytes(1) = PAGE_SIZE
          /\ (next_paddr + Bytes(1)) % WORD = next_paddr + Bytes(1)
      <4>1. 1 * PAGE_SIZE = PAGE_SIZE
        BY PageLayout
      <4> QED
        BY <3>1, <4>1, NoWrap
    <3> QED
      BY <2>1, <3>2 DEF OutOfMemory, Advance
  <2>2. CASE \E v, p \in Addresses : Unaligned(v, p)
    BY <2>2 DEF Unaligned
  <2> QED
    BY <2>1, <2>2
<1>6. /\ next_paddr' \in Addresses /\ FREE_RAM <= next_paddr'
      /\ next_paddr <= next_paddr'
  BY <1>4, <1>5, Layout, PageLayout DEF Addresses
<1>7. Aligned(next_paddr)'
  BY <1>4, <1>5, NextPage DEF Aligned
<1>8. ASSUME NEW a \in Bases
      PROVE  /\ a % PAGE_SIZE = 0 /\ FREE_RAM <= a
             /\ a + PAGE_SIZE <= next_paddr' /\ a + PAGE_SIZE <= FREE_RAM_END
  <2>1. /\ a \in Nat /\ Aligned(a) /\ FREE_RAM <= a /\ a + PAGE_SIZE <= next_paddr
        /\ a + PAGE_SIZE <= FREE_RAM_END
    BY <1>1, PageWords
  <2>2. next_paddr' \in Nat
    BY <1>6, Layout DEF Addresses
  <2> QED
    BY <1>4, <1>6, <2>1, <2>2, PageLayout DEF Aligned
<1>9. PagingTypeOK'
  BY <1>1, <1>3, <1>6 DEF PoolInv, PagingTypeOK
<1>10. PoolInv'
  BY <1>2, <1>3, <1>6, <1>7, <1>8, <1>9 DEF PoolInv, Aligned
<1> QED
  BY <1>1, <1>2, <1>10 DEF PagingInv

LEMMA PagingInitInv == PagingInit => PagingInv
<1> SUFFICES ASSUME PagingInit PROVE PagingInv
  OBVIOUS
<1>1. /\ next_paddr = FREE_RAM /\ blocks = {} /\ tables = {} /\ panic = "none"
      /\ memory \in [Addresses -> Contents]
  BY PagingAssumption DEF PagingInit
<1>2. Bases = {}
  BY <1>1 DEF Bases
<1>3. PoolInv
  BY <1>1, <1>2, Layout, PageLayout DEF PoolInv, PagingTypeOK, Addresses
<1> QED
  BY <1>1, <1>2, <1>3 DEF PagingInv, TreeInv

LEMMA PagingStutter == PagingInv /\ UNCHANGED pagingVars => PagingInv'
<1> SUFFICES ASSUME PagingInv, UNCHANGED pagingVars PROVE PagingInv'
  OBVIOUS
<1>1. /\ UNCHANGED <<next_paddr, blocks, memory, panic, tables>> /\ PoolInv /\ TreeInv
      /\ memory \in [Addresses -> Contents]
  BY DEF pagingVars, vars, PagingInv, PoolInv, PagingTypeOK
<1>2. PoolInv' /\ Bases' = Bases
  BY <1>1, PoolKept
<1>3. \A t \in tables, k \in Indices : Child(t, k)' = Child(t, k)
  BY <1>1 DEF Child
<1>4. TreeInv'
  BY <1>1, <1>2, <1>3 DEF TreeInv
<1> QED
  BY <1>2, <1>4 DEF PagingInv

LEMMA NewTableInv == PagingInv /\ NewTable => PagingInv'
<1>1. ASSUME PagingInv, AllocPages(1), tables' = tables \cup {next_paddr}
      PROVE  PagingInv'
  <2>1. PICK n : n = next_paddr
    OBVIOUS
  <2> QED
    BY <1>1, <2>1, NewTableStep
<1>2. ASSUME PagingInv, OutOfMemory(1), UNCHANGED tables
      PROVE  PagingInv'
  BY <1>2, PanicStep
<1> QED
  BY <1>1, <1>2 DEF NewTable

LEMMA MapPageInv ==
  ASSUME PagingInv, NEW t \in tables, NEW v \in Addresses, NEW p \in Addresses,
         NEW f \in FlagSets, map_page(t, v, p, f), UNCHANGED tables
  PROVE  PagingInv'
<1>1. CASE Unaligned(v, p) \/ NoPageForTable(t, v)
  BY <1>1, PanicStep DEF NoPageForTable
<1>2. CASE MapInExistingTable(t, v, p, f)
  BY <1>2, MapInExistingStep
<1>3. CASE MapInNewTable(t, v, p, f)
  <2>1. PICK n : n = next_paddr
    OBVIOUS
  <2> QED
    BY <1>3, <2>1, MapInNewStep
<1> QED
  BY <1>1, <1>2, <1>3 DEF map_page

LEMMA PagingNextInv == PagingInv /\ [PagingNext]_pagingVars => PagingInv'
<1>1. ASSUME PagingInv, NEW t \in tables, NEW v \in VAddrs, NEW p \in PAddrs,
             NEW f \in FlagSets, map_page(t, v, p, f), UNCHANGED tables
      PROVE  PagingInv'
  <2>1. v \in Addresses /\ p \in Addresses
    BY PagingAssumption
  <2> QED
    BY <1>1, <2>1, MapPageInv
<1> QED
  BY <1>1, NewTableInv, PagingStutter DEF PagingNext

\* The inductive invariant of the page tables.
THEOREM PagingInvariant == PagingSpec => []PagingInv
BY PagingInitInv, PagingNextInv, PTL DEF PagingSpec

\* Every entry is a word and every address an address, whatever map_page is asked.
THEOREM PagingTypes == PagingSpec => []PagingTypeOK
<1>1. PagingInv => PagingTypeOK
  BY DEF PagingInv, PoolInv
<1> QED
  BY <1>1, PagingInvariant, PTL

\* The second-level tables of a first-level one are what its entries point to.
LEMMA SecondLevelChildren ==
  ASSUME PagingInv, NEW t \in tables
  PROVE  /\ \A s \in SecondLevel(t) :
              /\ s \in Bases \ tables
              /\ \E k \in Indices : Valid(memory[t + k]) /\ Child(t, k) = s
         /\ \A k \in Indices : Child(t, k) # NoPage => Child(t, k) \in SecondLevel(t)
<1>1. PoolInv /\ TreeInv /\ t \in Bases
  BY DEF PagingInv, TreeInv
<1>2. \A k \in Indices : /\ Valid(memory[t + k]) <=> Child(t, k) # NoPage
                         /\ Valid(memory[t + k]) => Child(t, k) = Target(memory[t + k])
  BY <1>1, ChildOf
<1>3. SecondLevel(t) = {Target(memory[t + k]) : k \in {k \in Indices : Valid(memory[t + k])}}
  BY DEF SecondLevel, Indices
<1>4. ASSUME NEW s \in SecondLevel(t)
      PROVE  /\ s \in Bases \ tables
             /\ \E k \in Indices : Valid(memory[t + k]) /\ Child(t, k) = s
  <2>1. PICK k \in Indices : Valid(memory[t + k]) /\ Target(memory[t + k]) = s
    BY <1>3
  <2>2. Child(t, k) = s /\ s # NoPage
    BY <1>2, <2>1
  <2>3. s \in Bases \ tables
    BY <1>1, <2>2 DEF TreeInv
  <2> QED
    BY <2>1, <2>2, <2>3
<1>5. \A k \in Indices : Child(t, k) # NoPage => Child(t, k) \in SecondLevel(t)
  BY <1>2, <1>3
<1> QED
  BY <1>4, <1>5

LEMMA InvGivesTablesPrivate == PagingInv => TablesPrivate
<1> SUFFICES ASSUME PagingInv PROVE TablesPrivate
  OBVIOUS
<1>1. PoolInv /\ TreeInv
  BY DEF PagingInv
<1>2. {b.paddr : b \in blocks} = tables \cup UNION {SecondLevel(t) : t \in tables}
  <2>1. \A a \in Bases \ tables : \E t \in tables : a \in SecondLevel(t)
    <3> SUFFICES ASSUME NEW a \in Bases \ tables
                 PROVE  \E t \in tables : a \in SecondLevel(t)
      OBVIOUS
    <3>1. PICK t \in tables, k \in Indices : Child(t, k) = a
      BY <1>1 DEF TreeInv
    <3>2. a # NoPage
      BY <1>1, PageWords
    <3> QED
      BY <3>1, <3>2, SecondLevelChildren
  <2>2. \A t \in tables : SecondLevel(t) \subseteq Bases \ tables
    BY SecondLevelChildren
  <2>3. tables \subseteq Bases
    BY <1>1 DEF TreeInv
  <2>4. Bases = tables \cup UNION {SecondLevel(t) : t \in tables}
    BY <2>1, <2>2, <2>3
  <2> QED
    BY <2>4 DEF Bases
<1>3. \A t \in tables : SecondLevel(t) \cap tables = {}
  BY SecondLevelChildren
<1>4. \A t, u \in tables : t # u => SecondLevel(t) \cap SecondLevel(u) = {}
  <2> SUFFICES ASSUME NEW t \in tables, NEW u \in tables,
                      NEW s \in SecondLevel(t), s \in SecondLevel(u)
               PROVE  t = u
    OBVIOUS
  <2>1. PICK j \in Indices : Child(t, j) = s
    BY SecondLevelChildren
  <2>2. PICK k \in Indices : Child(u, k) = s
    BY SecondLevelChildren
  <2>3. s # NoPage
    BY <1>1, SecondLevelChildren, PageWords
  <2> QED
    BY <1>1, <2>1, <2>2, <2>3 DEF TreeInv
<1>5. \A t \in tables : \A j, k \in Indices :
        Valid(memory[t + j]) /\ Valid(memory[t + k])
          /\ Target(memory[t + j]) = Target(memory[t + k]) => j = k
  <2> SUFFICES ASSUME NEW t \in tables, NEW j \in Indices, NEW k \in Indices,
                      Valid(memory[t + j]), Valid(memory[t + k]),
                      Target(memory[t + j]) = Target(memory[t + k])
               PROVE  j = k
    OBVIOUS
  <2>1. t \in Bases
    BY <1>1 DEF TreeInv
  <2>2. Child(t, j) = Child(t, k) /\ Child(t, j) # NoPage
    BY <1>1, <2>1, ChildOf
  <2> QED
    BY <1>1, <2>2 DEF TreeInv
<1> QED
  BY <1>2, <1>3, <1>4, <1>5 DEF TablesPrivate, Indices

\* No page is shared between tables or between entries, none is lost, and no
\* entry of a first-level table points anywhere but to a page of its own.
THEOREM TablesStayPrivate == PagingSpec => []TablesPrivate
BY PagingInvariant, InvGivesTablesPrivate, PTL
-----------------------------------------------------------------------------
(* The page tables implement independent address spaces.                   *)

\* The walk of the hardware, in terms of Child.
WalkOf(t, page) ==
  LET c == Child(t, page \div ENTRIES)
      e == memory[c + (page % ENTRIES)]
  IN  IF c # NoPage /\ Valid(e) THEN Decoded(e) ELSE Unmapped

LEMMA WalkByChild == PoolInv => \A u \in Bases, page \in Pages : Walk(u, page) = WalkOf(u, page)
<1> SUFFICES ASSUME PoolInv, NEW t \in Bases, NEW page \in Pages
             PROVE  Walk(t, page) = WalkOf(t, page)
  OBVIOUS
<1>1. PICK i \in Indices : i = page \div ENTRIES
  BY PageIsIndices
<1>2. /\ Valid(memory[t + i]) <=> Child(t, i) # NoPage
      /\ Valid(memory[t + i]) => Child(t, i) = Target(memory[t + i])
  BY ChildOf
<1> QED
  BY <1>1, <1>2 DEF Walk, WalkOf

LEMMA WalkByChildNext ==
  PoolInv' => (\A u \in Bases, page \in Pages : Walk(u, page) = WalkOf(u, page))'
BY WalkByChild, PTL

\* A new table maps nothing, and the others map what they did.
LEMMA NewTableWalks ==
  ASSUME PagingInv, AllocPages(1), tables' = tables \cup {next_paddr},
         NEW n, n = next_paddr
  PROVE  \A t \in tables', page \in Pages :
           Walk(t, page)' = IF t = n THEN Unmapped ELSE Walk(t, page)
<1>1. /\ PagingInv' /\ Bases' = Bases \cup {n} /\ n \notin Bases
      /\ \A k \in Indices : Child(n, k)' = NoPage
      /\ \A t \in tables, k \in Indices : Child(t, k)' = Child(t, k)
      /\ \A a \in Bases, k \in Indices : memory'[a + k] = memory[a + k]
  BY NewTableStep
<1>2. PoolInv /\ TreeInv /\ PoolInv' /\ TreeInv'
  BY <1>1 DEF PagingInv
<1>3. (\A u \in Bases, page \in Pages : Walk(u, page) = WalkOf(u, page))'
  BY <1>2, WalkByChildNext
<1>4. \A t \in tables', page \in Pages : Walk(t, page)' = WalkOf(t, page)'
  BY <1>2, <1>3 DEF TreeInv
<1> SUFFICES ASSUME NEW t \in tables', NEW page \in Pages
             PROVE  Walk(t, page)' = IF t = n THEN Unmapped ELSE Walk(t, page)
  OBVIOUS
<1>5. PICK i \in Indices, j \in Indices : i = page \div ENTRIES /\ j = page % ENTRIES
  BY PageIsIndices
<1>6. CASE t = n
  BY <1>1, <1>4, <1>5, <1>6 DEF WalkOf
<1>7. CASE t # n
  <2>1. t \in tables /\ t \in Bases
    BY <1>2, <1>7 DEF TreeInv
  <2>2. Child(t, i)' = Child(t, i)
    BY <1>1, <2>1
  <2>3. Child(t, i) # NoPage => Child(t, i) \in Bases
    BY <1>2, <2>1 DEF TreeInv
  <2>4. PICK c : c = Child(t, i)
    OBVIOUS
  <2>5. c # NoPage => memory'[c + j] = memory[c + j]
    BY <1>1, <2>3, <2>4
  <2>6. WalkOf(t, page)' = WalkOf(t, page)
    BY <1>5, <2>2, <2>4, <2>5 DEF WalkOf, Valid, Decoded, Unmapped
  <2> QED
    BY <1>2, <1>4, <1>7, <2>1, <2>6, WalkByChild
<1> QED
  BY <1>6, <1>7

\* map_page maps the page it was asked to map, in the table it was given, and
\* no page of any table to anything else.
LEMMA MapPageWalks ==
  ASSUME PagingInv, NEW t \in tables, NEW v \in Addresses, NEW p \in Addresses,
         NEW f \in FlagSets, UNCHANGED tables,
         MapInExistingTable(t, v, p, f) \/ MapInNewTable(t, v, p, f)
  PROVE  \A u \in tables, page \in Pages :
           Walk(u, page)' = IF u = t /\ page = Page(v) THEN Decoded(Entry(p, f))
                                                       ELSE Walk(u, page)
<1>1. /\ PagingInv' /\ PoolInv' /\ PoolInv /\ TreeInv
      /\ \A a \in Bases : a \in Bases'
  <2>1. PagingInv' /\ \A a \in Bases : a \in Bases'
    <3>1. CASE MapInExistingTable(t, v, p, f)
      BY <3>1, MapInExistingStep
    <3>2. CASE MapInNewTable(t, v, p, f)
      <4>1. PICK n : n = next_paddr
        OBVIOUS
      <4> QED
        BY <3>2, <4>1, MapInNewStep
    <3> QED
      BY <3>1, <3>2
  <2> QED
    BY <2>1 DEF PagingInv
<1>2. (\A u \in Bases, page \in Pages : Walk(u, page) = WalkOf(u, page))'
  BY <1>1, WalkByChildNext
<1>3. \A u \in tables : u \in Bases /\ u \in Bases'
  BY <1>1 DEF TreeInv
<1>4. PICK i \in Indices, j \in Indices, e \in Contents :
        i = Vpn1(v) /\ j = Vpn0(v) /\ e = Entry(p, f) /\ Valid(e)
  BY Arguments
<1>5. /\ Page(v) \in Pages
      /\ Page(v) \div ENTRIES = i /\ Page(v) % ENTRIES = j
  BY <1>4, Indexing
<1> SUFFICES ASSUME NEW u \in tables, NEW page \in Pages
             PROVE  WalkOf(u, page)' = IF u = t /\ page = Page(v) THEN Decoded(e)
                                                                  ELSE WalkOf(u, page)
  BY <1>1, <1>2, <1>3, <1>4, WalkByChild
<1>6. PICK k \in Indices, l \in Indices : k = page \div ENTRIES /\ l = page % ENTRIES
  BY PageIsIndices
<1>7. page = Page(v) <=> k = i /\ l = j
  BY <1>5, <1>6, PageIsIndices
<1>8. PICK c : c = Child(u, k)
  OBVIOUS
<1>9. PICK c1 : c1 = Child(u, k)'
  OBVIOUS
<1>10. /\ WalkOf(u, page) = IF c # NoPage /\ Valid(memory[c + l])
                              THEN Decoded(memory[c + l]) ELSE Unmapped
       /\ WalkOf(u, page)' = IF c1 # NoPage /\ Valid(memory'[c1 + l])
                               THEN Decoded(memory'[c1 + l]) ELSE Unmapped
  BY <1>6, <1>8, <1>9 DEF WalkOf, Valid, Decoded, Unmapped
<1>11. c # NoPage => c \in Bases \ tables
  BY <1>1, <1>8 DEF TreeInv
<1>12. CASE MapInExistingTable(t, v, p, f)
  <2>1. PICK s : s = Child(t, i)
    OBVIOUS
  <2>2. /\ s # NoPage
        /\ c1 = c
        /\ \A a \in Bases \ tables : memory'[a + l] = IF a = s /\ l = j THEN e
                                                                       ELSE memory[a + l]
    BY <1>4, <1>8, <1>9, <1>12, <2>1, MapInExistingStep
  <2>3. c = s <=> u = t /\ k = i
    BY <1>1, <1>8, <2>1, <2>2 DEF TreeInv
  <2> QED
    BY <1>4, <1>7, <1>10, <1>11, <2>2, <2>3
<1>13. CASE MapInNewTable(t, v, p, f)
  <2>1. PICK n : n = next_paddr
    OBVIOUS
  <2>2. /\ n # NoPage /\ n \notin Bases
        /\ Child(t, i) = NoPage
        /\ c1 = IF u = t /\ k = i THEN n ELSE c
        /\ \A a \in Bases \ tables : memory'[a + l] = memory[a + l]
        /\ memory'[n + l] = IF l = j THEN e ELSE 0
    BY <1>4, <1>8, <1>9, <1>13, <2>1, MapInNewStep
  <2>3. CASE u = t /\ k = i
    BY <1>4, <1>7, <1>8, <1>10, <2>2, <2>3, ClearIsInvalid
  <2>4. CASE ~ (u = t /\ k = i)
    BY <1>7, <1>10, <1>11, <2>2, <2>4
  <2> QED
    BY <2>3, <2>4
<1> QED
  BY <1>12, <1>13

\* What AddressSpaces sees of the tables.
Maps == [t \in tables |-> [page \in Pages |-> Walk(t, page)]]

LEMMA RefineInit == PagingInit => AS!Init
<1> SUFFICES ASSUME PagingInit PROVE AS!Init
  OBVIOUS
<1>1. tables = {}
  BY DEF PagingInit
<1> QED
  BY <1>1 DEF AS!Init

LEMMA NewTableRefines ==
  ASSUME PagingInv, AllocPages(1), tables' = tables \cup {next_paddr}
  PROVE  AS!Next /\ AS!Create(next_paddr)
<1>1. PICK n : n = next_paddr
  OBVIOUS
<1>2. n \in Ram /\ Aligned(n) /\ n \notin Bases /\ tables \subseteq Bases
  BY <1>1, NewTableStep DEF PagingInv, TreeInv
<1>3. Maps' = [t \in tables \cup {n} |->
                 IF t = n THEN [page \in Pages |-> Unmapped]
                          ELSE [page \in Pages |-> Walk(t, page)]]
  <2>1. Maps' = [t \in tables' |-> [page \in Pages |-> Walk(t, page)']]
    BY DEF Maps, Pages
  <2>2. \A t \in tables', page \in Pages :
          Walk(t, page)' = IF t = n THEN Unmapped ELSE Walk(t, page)
    BY <1>1, NewTableWalks
  <2> QED
    BY <1>1, <2>1, <2>2
<1>4. DOMAIN Maps = tables /\ \A t \in tables : Maps[t] = [page \in Pages |-> Walk(t, page)]
  BY DEF Maps
<1>5. AS!Create(n)
  BY <1>2, <1>3, <1>4 DEF AS!Create, Maps, Pages, Unmapped
<1> QED
  BY <1>1, <1>2, <1>5 DEF AS!Next

LEMMA MapPageRefines ==
  ASSUME PagingInv, NEW t \in tables, NEW v \in VAddrs, NEW p \in PAddrs,
         NEW f \in FlagSets, Aligned(p), UNCHANGED tables,
         MapInExistingTable(t, v, p, f) \/ MapInNewTable(t, v, p, f)
  PROVE  AS!Next /\ AS!Map(t, Page(v), Mapping(p, f))
<1>1. v \in Addresses /\ p \in Addresses
  BY PagingAssumption
<1>2. PICK q, m : q = Page(v) /\ m = Mapping(p, f) /\ m = Decoded(Entry(p, f))
  <2>1. Decoded(Entry(p, f)) = Mapping(p, f)
    BY <1>1, PagingAssumption, EntryReadBack DEF Mapping
  <2> QED
    BY <2>1
<1>3. q \in Pages
  BY <1>1, <1>2, Indexing
<1>4. m \in {Mapping(a, b) : a \in {a \in PAddrs : Aligned(a)}, b \in FlagSets}
  <2>1. Mapping(p, f) \in {Mapping(a, b) : a \in {a \in PAddrs : Aligned(a)}, b \in FlagSets}
    OBVIOUS
  <2> QED
    BY <1>2, <2>1
<1>5. \A u \in tables, page \in Pages :
        Walk(u, page)' = IF u = t /\ page = q THEN m ELSE Walk(u, page)
  BY <1>1, <1>2, MapPageWalks
<1>6. Maps' = [Maps EXCEPT ![t][q] = m]
  <2>1. Maps' = [u \in tables |-> [page \in Pages |-> Walk(u, page)']]
    BY DEF Maps, Pages
  <2>2. Maps' = [u \in tables |-> [page \in Pages |->
                   IF u = t /\ page = q THEN m ELSE Walk(u, page)]]
    BY <1>5, <2>1
  <2>3. Maps = [u \in tables |-> [page \in Pages |-> Walk(u, page)]]
    BY DEF Maps
  <2> QED
    BY <1>3, <2>2, <2>3
<1>7. AS!Map(t, q, m)
  BY <1>6 DEF AS!Map, Maps
<1>8. DOMAIN Maps = tables
  BY DEF Maps
<1>9. AS!Next
  BY <1>3, <1>4, <1>7, <1>8 DEF AS!Next, Maps
<1> QED
  BY <1>2, <1>7, <1>9

LEMMA RefineNext == PagingInv /\ [PagingNext]_pagingVars => AS!Next \/ UNCHANGED Maps
<1> SUFFICES ASSUME PagingInv, [PagingNext]_pagingVars
             PROVE  AS!Next \/ UNCHANGED Maps
  OBVIOUS
<1>1. ASSUME UNCHANGED <<memory, tables>>
      PROVE  UNCHANGED Maps
  BY <1>1 DEF Maps, Walk, Pages, Valid, Decoded, Target, Unmapped
<1>2. CASE NewTable
  BY <1>1, <1>2, NewTableRefines DEF NewTable, OutOfMemory
<1>3. ASSUME NEW t \in tables, NEW v \in VAddrs, NEW p \in PAddrs, NEW f \in FlagSets,
             map_page(t, v, p, f), UNCHANGED tables
      PROVE  AS!Next \/ UNCHANGED Maps
  <2>1. CASE Unaligned(v, p) \/ NoPageForTable(t, v)
    BY <1>1, <1>3, <2>1 DEF Unaligned, NoPageForTable, OutOfMemory
  <2>2. CASE Aligned(p) /\ (MapInExistingTable(t, v, p, f) \/ MapInNewTable(t, v, p, f))
    BY <1>3, <2>2, MapPageRefines
  <2> QED
    BY <1>3, <2>1, <2>2 DEF map_page
<1>4. CASE UNCHANGED pagingVars
  BY <1>1, <1>4 DEF pagingVars, vars
<1> QED
  BY <1>2, <1>3, <1>4 DEF PagingNext

\* Which map a call changes, where, and to what.
LEMMA CallsServed == PagingInv => Serves
<1> SUFFICES ASSUME PagingInv PROVE Serves
  OBVIOUS
<1>1. ASSUME NewTable, panic' = "none"
      PROVE  AS!Create(next_paddr)
  <2>1. AllocPages(1) /\ tables' = tables \cup {next_paddr}
    BY <1>1 DEF NewTable, OutOfMemory
  <2> QED
    BY <2>1, NewTableRefines
<1>2. ASSUME NEW t \in tables, NEW v \in VAddrs, NEW p \in PAddrs, NEW f \in FlagSets,
             map_page(t, v, p, f), UNCHANGED tables
      PROVE  IF panic' = "none" THEN AS!Map(t, Page(v), Mapping(p, f)) ELSE AS!Nothing
  <2>1. CASE Unaligned(v, p) \/ NoPageForTable(t, v)
    <3>1. panic' # "none" /\ UNCHANGED <<memory, tables>>
      BY <1>2, <2>1 DEF Unaligned, NoPageForTable, OutOfMemory
    <3> QED
      BY <3>1 DEF AS!Nothing, Walk, Pages, Valid, Decoded, Target, Unmapped
  <2>2. CASE Aligned(p) /\ (MapInExistingTable(t, v, p, f) \/ MapInNewTable(t, v, p, f))
    <3>1. panic' = "none"
      BY <2>2 DEF MapInExistingTable, MapInNewTable
    <3> QED
      BY <1>2, <2>2, <3>1, MapPageRefines
  <2> QED
    BY <1>2, <2>1, <2>2 DEF map_page
<1> QED
  BY <1>1, <1>2 DEF Serves

\* What the hardware finds in the tables is what the callers of map_page asked
\* for: one map for each first-level table, and a call changes, in the map of
\* its table, what its page maps to: to its frame with its flags.
THEOREM PageTablesImplementAddressSpaces == PagingSpec => ImplementsAddressSpaces
<1>1. PagingInv /\ [PagingNext]_pagingVars
        => [AS!Next]_([t \in tables |-> [p \in Pages |-> Walk(t, p)]])
  BY RefineNext DEF Maps
<1>2. PagingInv => [Serves]_pagingVars
  BY CallsServed
<1> QED
  BY <1>1, <1>2, RefineInit, PagingInvariant, PTL
     DEF PagingSpec, ImplementsAddressSpaces, AS!Spec
-----------------------------------------------------------------------------
(* Address spaces of processes.                                            *)

\* Pages of the kernel below page n map to themselves, and nothing else does.
MappedUpTo(t, n) ==
  \A page \in Pages :
    Walk(t, page) = IF page \in Page(KERNEL_BASE) .. n - 1
                      THEN [ppn |-> page, flags |-> RWX + PAGE_V] ELSE Unmapped

\* A process in use has a table nobody else has, all of it mapped.
PublishedInv ==
  /\ \A i \in InUse : /\ procs[i].page_table \in tables
                      /\ MappedUpTo(procs[i].page_table, Page(FREE_RAM_END))
  /\ \A i, j \in InUse : procs[i].page_table = procs[j].page_table => i = j

\* The table create_process is filling in is nobody's yet, and is mapped as
\* far as the loop has come: all of it, when the slot becomes RUNNABLE.
UnderwayInv ==
  (pc = "map" /\ panic = "none") \/ pc = "page_table" =>
    /\ page_table \in tables
    /\ \A i \in InUse : procs[i].page_table # page_table
    /\ Aligned(paddr) /\ KERNEL_BASE <= paddr /\ paddr <= FREE_RAM_END
    /\ MappedUpTo(page_table, Page(paddr))
    /\ pc = "page_table" => paddr = FREE_RAM_END

\* Where create_process is, how far it has got with its slot, and how many
\* processes are RUNNABLE by then.
PlaceInv ==
  /\ pc \in {"alloc", "map"} => slot \in Slots \ Runnable
  /\ pc \in {"page_table", "return"} => slot \in Runnable
  /\ pc \in {"find", "alloc", "page_table", "return"} => panic = "none"
  /\ pc # "yeild" => created <= NumProcs
  /\ IsFiniteSet(Runnable)
  /\ Cardinality(Runnable) =
       IF pc \in {"page_table", "return"} THEN created + 1 ELSE created

SpacesInv == SpacesTypeOK /\ PagingInv /\ PublishedInv /\ UnderwayInv /\ PlaceInv

\* The linear part of the assumptions about the kernel.
LEMMA KernelLayout ==
  /\ KERNEL_BASE \in Nat /\ Aligned(KERNEL_BASE) /\ KERNEL_BASE <= FREE_RAM
  /\ KERNEL_BASE \in Addresses
  /\ FREE_RAM_END \in Nat /\ Aligned(FREE_RAM_END)
  /\ RWX \in FlagSets /\ NumProcs \in Nat /\ PROCS_MAX \in Nat
  /\ Slots \subseteq Nat
BY SpacesAssumption, Layout DEF Aligned, Addresses, Slots

\* Nobody else's mapping changes: what is published stays so.
LEMMA PublishedKept ==
  ASSUME PublishedInv, UNCHANGED procs, InUse' = InUse, tables \subseteq tables',
         \A t \in {procs[i].page_table : i \in InUse}, page \in Pages :
           Walk(t, page)' = Walk(t, page)
  PROVE  PublishedInv'
<1>1. ASSUME NEW i \in InUse
      PROVE  /\ procs'[i].page_table \in tables'
             /\ MappedUpTo(procs[i].page_table, Page(FREE_RAM_END))'
  <2>1. PICK t : t = procs[i].page_table
    OBVIOUS
  <2>2. t = procs'[i].page_table /\ t \in tables /\ MappedUpTo(t, Page(FREE_RAM_END))
    BY <2>1 DEF PublishedInv
  <2>3. \A page \in Pages : Walk(t, page)' = Walk(t, page)
    BY <2>1
  <2>4. MappedUpTo(t, Page(FREE_RAM_END))'
    BY <2>2, <2>3 DEF MappedUpTo, Pages, Page, Unmapped
  <2>5. procs[i].page_table' = t
    BY <2>2
  <2> QED
    BY <2>2, <2>4, <2>5 DEF MappedUpTo
<1> QED
  BY <1>1 DEF PublishedInv

LEMMA SpacesInitInv == SpacesInit => SpacesInv
<1> SUFFICES ASSUME SpacesInit PROVE SpacesInv
  OBVIOUS
<1>1. PagingInv
  BY PagingInitInv DEF SpacesInit
<1>2. /\ procs = [i \in Slots |-> [state |-> "PROC_UNUSED", page_table |-> NULL]]
      /\ pc = "find" /\ slot = NULL /\ page_table = NULL /\ paddr = 0 /\ created = 0
      /\ panic = "none"
  BY DEF SpacesInit, PagingInit
<1>3. /\ Runnable = {} /\ InUse = {}
      /\ IsFiniteSet(Runnable) /\ Cardinality(Runnable) = 0
  BY <1>2, FS_EmptySet DEF Runnable, InUse
<1>4. SpacesTypeOK
  BY <1>1, <1>2, KernelLayout, Layout
     DEF SpacesTypeOK, PagingInv, PoolInv, Addresses
<1>5. PublishedInv /\ UnderwayInv /\ PlaceInv
  BY <1>2, <1>3, KernelLayout DEF PublishedInv, UnderwayInv, PlaceInv
<1> QED
  BY <1>1, <1>4, <1>5 DEF SpacesInv

\* A walk depends on the memory only.
LEMMA WalkKept ==
  ASSUME UNCHANGED memory, NEW t, NEW page
  PROVE  Walk(t, page)' = Walk(t, page)
BY DEF Walk, Valid, Decoded, Target, Unmapped

LEMMA FindSlotInv == SpacesInv /\ FindSlot => SpacesInv'
<1> SUFFICES ASSUME SpacesInv, FindSlot PROVE SpacesInv'
  OBVIOUS
<1>1. /\ pc = "find" /\ UNCHANGED <<pagingVars, procs, page_table, paddr, created>>
      /\ UNCHANGED <<next_paddr, blocks, memory, panic, tables>>
      /\ SpacesTypeOK /\ PagingInv /\ PublishedInv /\ PlaceInv
  BY DEF FindSlot, SpacesInv, pagingVars, vars
<1>2. PagingInv' /\ PagingTypeOK'
  BY <1>1, PagingStutter DEF PagingInv, PoolInv
<1>4. Free \subseteq Slots /\ Free \subseteq Nat /\ Free \cap Runnable = {}
  BY KernelLayout DEF Free, Runnable
<1>5. \/ pc' = "no_slot" /\ slot' = slot
      \/ pc' = "alloc" /\ slot' \in Slots \ Runnable
  <2>1. Free # {} => Min(Free) \in Free
    BY <1>4, MinIsLeast
  <2> QED
    BY <1>4, <2>1 DEF FindSlot
<1>6. Runnable' = Runnable /\ InUse' = InUse
  BY <1>1, <1>5 DEF Runnable, InUse
<1>3. PublishedInv'
  BY <1>1, <1>6, WalkKept, PublishedKept
<1>7. SpacesTypeOK'
  BY <1>1, <1>2, <1>5 DEF SpacesTypeOK
<1>8. UnderwayInv' /\ PlaceInv'
  BY <1>1, <1>5, <1>6 DEF UnderwayInv, PlaceInv
<1> QED
  BY <1>2, <1>3, <1>7, <1>8 DEF SpacesInv

LEMMA AllocPageTableInv == SpacesInv /\ AllocPageTable => SpacesInv'
<1> SUFFICES ASSUME SpacesInv, AllocPageTable PROVE SpacesInv'
  OBVIOUS
<1>1. /\ pc = "alloc" /\ pc' = "map" /\ page_table' = next_paddr /\ paddr' = KERNEL_BASE
      /\ UNCHANGED <<procs, slot, created>> /\ NewTable
      /\ SpacesTypeOK /\ PagingInv /\ PublishedInv /\ PlaceInv
  BY DEF AllocPageTable, SpacesInv
<1>2. PagingInv' /\ PagingTypeOK'
  BY <1>1, NewTableInv DEF PagingInv, PoolInv
<1>3. Runnable' = Runnable /\ InUse' = InUse
  BY <1>1 DEF Runnable, InUse
<1>4. PlaceInv'
  BY <1>1, <1>3 DEF PlaceInv
<1>5. SpacesTypeOK'
  <2>1. next_paddr \in Addresses
    BY <1>1 DEF PagingInv, PoolInv, PagingTypeOK
  <2> QED
    BY <1>1, <1>2, <2>1, KernelLayout DEF SpacesTypeOK
<1>6. CASE AllocPages(1) /\ tables' = tables \cup {next_paddr}
  <2>1. PICK n : n = next_paddr
    OBVIOUS
  <2>2. /\ n \notin Bases /\ tables \subseteq Bases /\ page_table' = n
        /\ \A t \in tables', page \in Pages :
             Walk(t, page)' = IF t = n THEN Unmapped ELSE Walk(t, page)
    BY <1>1, <1>6, <2>1, NewTableStep, NewTableWalks DEF PagingInv, TreeInv
  <2>3. \A i \in InUse : procs[i].page_table \in tables /\ procs[i].page_table # n
    BY <1>1, <2>2 DEF PublishedInv
  <2>4. PublishedInv'
    BY <1>1, <1>3, <1>6, <2>2, <2>3, PublishedKept
  <2>5. MappedUpTo(n, Page(KERNEL_BASE))'
    <3>1. \A page \in Pages : Walk(n, page)' = Unmapped
      BY <1>6, <2>1, <2>2
    <3>2. Page(KERNEL_BASE) .. Page(KERNEL_BASE) - 1 = {}
      BY KernelLayout, AlignedIsMultiple
    <3> QED
      BY <3>1, <3>2 DEF MappedUpTo, Pages, Page, Unmapped
  <2>6. UnderwayInv'
    <3>1. n \in tables'
      BY <1>6, <2>1
    <3>2. KERNEL_BASE <= FREE_RAM_END
      BY KernelLayout, Layout
    <3>3. MappedUpTo(page_table, Page(paddr))'
      BY <1>1, <2>2, <2>5 DEF MappedUpTo, Page
    <3> QED
      BY <1>1, <1>3, <2>2, <2>3, <3>1, <3>2, <3>3, KernelLayout DEF UnderwayInv, Aligned
  <2> QED
    BY <1>2, <1>4, <1>5, <2>4, <2>6 DEF SpacesInv
<1>7. CASE OutOfMemory(1) /\ UNCHANGED tables
  <2>1. UNCHANGED memory /\ panic' = "out of memory"
    BY <1>7 DEF OutOfMemory
  <2>2. PublishedInv' /\ UnderwayInv'
    BY <1>1, <1>3, <1>7, <2>1, WalkKept, PublishedKept DEF UnderwayInv
  <2> QED
    BY <1>2, <1>4, <1>5, <2>2 DEF SpacesInv
<1> QED
  BY <1>1, <1>6, <1>7 DEF NewTable

\* What one turn of the mapping loop adds to the table under construction.
LEMMA OneMorePage ==
  ASSUME NEW q \in Nat, NEW r \in Nat, r <= q, q \in Pages, NEW page \in Pages
  PROVE  page \in r .. (q + 1) - 1 <=> page = q \/ page \in r .. q - 1
<1>1. page \in Nat
  BY PageIsIndices
<1> QED
  BY <1>1

LEMMA MapKernelPageInv == SpacesInv /\ MapKernelPage => SpacesInv'
<1> SUFFICES ASSUME SpacesInv, MapKernelPage PROVE SpacesInv'
  OBVIOUS
<1>1. /\ pc = "map" /\ paddr < FREE_RAM_END /\ paddr' = (paddr + PAGE_SIZE) % WORD
      /\ UNCHANGED <<tables, procs, pc, slot, page_table, created>>
      /\ map_page(page_table, paddr, paddr, RWX) /\ panic = "none"
      /\ SpacesTypeOK /\ PagingInv /\ PublishedInv /\ UnderwayInv /\ PlaceInv
  BY DEF MapKernelPage, MoreToMap, SpacesInv, map_page, Unaligned, MapInExistingTable,
         MapInNewTable, NoPageForTable, OutOfMemory
<1>2. PICK t, a : t = page_table /\ a = paddr
  OBVIOUS
<1>3. /\ t \in tables /\ a \in Addresses /\ a \in Nat /\ Aligned(a)
      /\ KERNEL_BASE <= a /\ a < FREE_RAM_END
      /\ \A i \in InUse : procs[i].page_table # t
      /\ MappedUpTo(t, Page(a)) /\ RWX \in FlagSets
  BY <1>1, <1>2, KernelLayout, Layout DEF UnderwayInv, SpacesTypeOK, Addresses
<1>4. map_page(t, a, a, RWX)
  BY <1>1, <1>2
<1>5. PagingInv' /\ PagingTypeOK'
  BY <1>1, <1>3, <1>4, MapPageInv DEF PagingInv, PoolInv
<1>6. Runnable' = Runnable /\ InUse' = InUse
  BY <1>1 DEF Runnable, InUse
<1>7. PlaceInv'
  BY <1>1, <1>6 DEF PlaceInv
<1>8. /\ paddr' = a + PAGE_SIZE /\ paddr' \in Addresses
      /\ KERNEL_BASE <= paddr' /\ paddr' <= FREE_RAM_END
      /\ paddr' % PAGE_SIZE = 0 /\ paddr' \div PAGE_SIZE = Page(a) + 1
  <2>1. a + PAGE_SIZE <= FREE_RAM_END
    BY <1>3, KernelLayout, PagesApart
  <2>2. a + PAGE_SIZE \in 0 .. WORD - 1
    BY <1>3, <2>1, Layout, PageLayout
  <2>3. paddr' = a + PAGE_SIZE
    BY <1>1, <1>2, <2>2, Layout, ModIdentity
  <2>4. Aligned(a + PAGE_SIZE) /\ Page(a + PAGE_SIZE) = Page(a) + 1
    BY <1>3, NextPage
  <2> QED
    BY <1>3, <2>1, <2>2, <2>3, <2>4, KernelLayout, PageLayout DEF Addresses, Aligned, Page
<1>9. SpacesTypeOK'
  BY <1>1, <1>5, <1>8 DEF SpacesTypeOK
<1>10. CASE MapInExistingTable(t, a, a, RWX) \/ MapInNewTable(t, a, a, RWX)
  <2>1. \A u \in tables, page \in Pages :
          Walk(u, page)' = IF u = t /\ page = Page(a) THEN Decoded(Entry(a, RWX))
                                                     ELSE Walk(u, page)
    BY <1>1, <1>3, <1>10, MapPageWalks
  <2>2. Decoded(Entry(a, RWX)) = [ppn |-> Page(a), flags |-> RWX + PAGE_V]
    BY <1>3, PagingAssumption, EntryReadBack
  <2>3. \A i \in InUse : procs[i].page_table \in tables
    BY <1>1 DEF PublishedInv
  <2>4. PublishedInv'
    BY <1>1, <1>3, <1>6, <2>1, <2>3, PublishedKept
  <2>5. PICK q \in Nat, r \in Nat : q = Page(a) /\ r = Page(KERNEL_BASE) /\ q \in Pages
    BY <1>3, KernelLayout, AlignedIsMultiple, Indexing
  <2>6. r <= q
    <3>1. CASE a = KERNEL_BASE
      BY <3>1, <2>5
    <3>2. CASE KERNEL_BASE < a
      BY <1>3, <2>5, <3>2, KernelLayout, PagesApart
    <3> QED
      BY <1>3, <3>1, <3>2, KernelLayout
  <2>7. \A page \in Pages :
          Walk(t, page)' = IF page \in r .. (q + 1) - 1
                             THEN [ppn |-> page, flags |-> RWX + PAGE_V] ELSE Unmapped
    <3> SUFFICES ASSUME NEW page \in Pages
                 PROVE  Walk(t, page)' = IF page \in r .. (q + 1) - 1
                          THEN [ppn |-> page, flags |-> RWX + PAGE_V] ELSE Unmapped
      OBVIOUS
    <3>1. page \in r .. (q + 1) - 1 <=> page = q \/ page \in r .. q - 1
      BY <2>5, <2>6, OneMorePage
    <3>2. Walk(t, page) = IF page \in r .. q - 1
                            THEN [ppn |-> page, flags |-> RWX + PAGE_V] ELSE Unmapped
      BY <1>3, <2>5 DEF MappedUpTo
    <3>3. Walk(t, page)' = IF page = q THEN [ppn |-> q, flags |-> RWX + PAGE_V]
                                       ELSE Walk(t, page)
      BY <1>3, <2>1, <2>2, <2>5
    <3> QED
      BY <3>1, <3>2, <3>3
  <2>8. MappedUpTo(page_table, Page(paddr))'
    BY <1>1, <1>2, <1>8, <2>5, <2>7 DEF MappedUpTo, Page, Pages, Unmapped
  <2>9. UnderwayInv'
    BY <1>1, <1>2, <1>3, <1>6, <1>8, <2>8 DEF UnderwayInv, Aligned
  <2> QED
    BY <1>5, <1>7, <1>9, <2>4, <2>9 DEF SpacesInv
<1>11. CASE NoPageForTable(t, a)
  <2>1. UNCHANGED memory /\ panic' = "out of memory"
    BY <1>11 DEF NoPageForTable, OutOfMemory
  <2>2. PublishedInv' /\ UnderwayInv'
    BY <1>1, <1>6, <2>1, WalkKept, PublishedKept DEF UnderwayInv
  <2> QED
    BY <1>5, <1>7, <1>9, <2>2 DEF SpacesInv
<1> QED
  BY <1>3, <1>4, <1>10, <1>11 DEF map_page, Unaligned

\* A store into the slot of the process under construction.
LEMMA SlotStored ==
  ASSUME SpacesTypeOK, slot \in Slots, NEW pcb,
         procs' = [procs EXCEPT ![slot] = pcb],
         pcb.state = "PROC_RUNNABLE"
  PROVE  /\ Runnable' = Runnable \cup {slot}
         /\ procs'[slot] = pcb
         /\ \A i \in Slots : i # slot => procs'[i] = procs[i]
<1>1. DOMAIN procs = Slots /\ DOMAIN procs' = Slots
  BY DEF SpacesTypeOK
<1>2. procs'[slot] = pcb /\ \A i \in Slots : i # slot => procs'[i] = procs[i]
  BY <1>1
<1> QED
  BY <1>1, <1>2 DEF Runnable

LEMMA SetStateInv == SpacesInv /\ SetState => SpacesInv'
<1> SUFFICES ASSUME SpacesInv, SetState PROVE SpacesInv'
  OBVIOUS
<1> DEFINE pcb == [procs[slot] EXCEPT !.state = "PROC_RUNNABLE"]
<1>1. /\ pc = "map" /\ pc' = "page_table" /\ panic = "none" /\ ~ (paddr < FREE_RAM_END)
      /\ procs' = [procs EXCEPT ![slot] = pcb]
      /\ UNCHANGED <<next_paddr, blocks, memory, panic, tables, slot, page_table, paddr>>
      /\ UNCHANGED pagingVars /\ created' = created
      /\ SpacesTypeOK /\ PagingInv /\ PublishedInv /\ UnderwayInv /\ PlaceInv
  BY DEF SetState, MoreToMap, SpacesInv, pagingVars, vars, locals
<1>2. PagingInv' /\ PagingTypeOK'
  BY <1>1, PagingStutter DEF PagingInv, PoolInv
<1>3. /\ slot \in Slots \ Runnable /\ created <= NumProcs /\ created \in Nat
      /\ paddr = FREE_RAM_END
      /\ Runnable = InUse /\ IsFiniteSet(Runnable) /\ Cardinality(Runnable) = created
  <2>1. paddr \in Nat /\ FREE_RAM_END \in Nat
    BY <1>1, Layout DEF SpacesTypeOK, Addresses
  <2> QED
    BY <1>1, <2>1 DEF UnderwayInv, PlaceInv, SpacesTypeOK, InUse
<1>4. /\ pcb.state = "PROC_RUNNABLE"
      /\ pcb \in [state : {"PROC_UNUSED", "PROC_RUNNABLE"}, page_table : Addresses \cup {NULL}]
  <2>1. procs[slot] \in [state : {"PROC_UNUSED", "PROC_RUNNABLE"},
                         page_table : Addresses \cup {NULL}]
    BY <1>1, <1>3 DEF SpacesTypeOK
  <2> QED
    BY <2>1
<1>5. /\ Runnable' = Runnable \cup {slot}
      /\ \A i \in Slots : i # slot => procs'[i] = procs[i]
  <2> HIDE DEF pcb
  <2> QED
    BY <1>1, <1>3, <1>4, SlotStored
<1>6. InUse' = InUse /\ InUse \subseteq Slots /\ \A i \in InUse : procs'[i] = procs[i]
  <2>1. InUse' = {i \in Runnable' : i # slot}
    BY <1>1 DEF InUse
  <2>2. Runnable \subseteq Slots
    BY <1>1 DEF Runnable, SpacesTypeOK
  <2> HIDE DEF pcb
  <2> QED
    BY <1>3, <1>5, <2>1, <2>2
<1>8. PublishedInv'
  <2> HIDE DEF pcb
  <2>1. ASSUME NEW i \in InUse
        PROVE  /\ procs'[i].page_table \in tables'
               /\ MappedUpTo(procs[i].page_table, Page(FREE_RAM_END))'
    <3>1. procs'[i].page_table = procs[i].page_table
      BY <1>6, <2>1
    <3>2. MappedUpTo(procs[i].page_table, Page(FREE_RAM_END))
          /\ procs[i].page_table \in tables
      BY <1>1, <2>1 DEF PublishedInv
    <3> QED
      BY <1>1, <3>1, <3>2, WalkKept DEF MappedUpTo, Pages, Page, Unmapped
  <2> QED
    BY <1>1, <1>6, <2>1 DEF PublishedInv
<1>9. SpacesTypeOK'
  <2> HIDE DEF pcb
  <2> QED
    BY <1>1, <1>2, <1>4 DEF SpacesTypeOK
<1>10. UnderwayInv'
  <2> HIDE DEF pcb
  <2>1. MappedUpTo(page_table, Page(paddr))'
    BY <1>1, WalkKept DEF UnderwayInv, MappedUpTo, Pages, Page, Unmapped
  <2> QED
    BY <1>1, <1>3, <1>6, <2>1 DEF UnderwayInv, Aligned
<1>11. PlaceInv'
  <2>1. IsFiniteSet(Runnable') /\ Cardinality(Runnable') = created + 1
    BY <1>3, <1>5, FS_AddElement
  <2> HIDE DEF pcb
  <2> QED
    BY <1>1, <1>3, <1>5, <2>1 DEF PlaceInv
<1> QED
  BY <1>2, <1>8, <1>9, <1>10, <1>11 DEF SpacesInv

LEMMA SetPageTableInv == SpacesInv /\ SetPageTable => SpacesInv'
<1> SUFFICES ASSUME SpacesInv, SetPageTable PROVE SpacesInv'
  OBVIOUS
<1> DEFINE pcb == [procs[slot] EXCEPT !.page_table = page_table]
<1>1. /\ pc = "page_table" /\ pc' = "return"
      /\ procs' = [procs EXCEPT ![slot] = pcb]
      /\ UNCHANGED <<next_paddr, blocks, memory, panic, tables, slot, page_table, paddr>>
      /\ UNCHANGED pagingVars /\ created' = created
      /\ SpacesTypeOK /\ PagingInv /\ PublishedInv /\ UnderwayInv /\ PlaceInv
  BY DEF SetPageTable, PublishedTable, SpacesInv, pagingVars, vars, locals
<1>2. PagingInv' /\ PagingTypeOK'
  BY <1>1, PagingStutter DEF PagingInv, PoolInv
<1>3. /\ page_table \in tables /\ page_table \in Addresses
      /\ \A i \in InUse : procs[i].page_table # page_table
      /\ paddr = FREE_RAM_END /\ MappedUpTo(page_table, Page(paddr))
      /\ slot \in Runnable /\ slot \in Slots
      /\ InUse = Runnable \ {slot} /\ InUse \subseteq Slots
  BY <1>1 DEF UnderwayInv, PlaceInv, SpacesTypeOK, PagingTypeOK, InUse, Runnable
<1>4. PICK t, s, end : t = page_table /\ s = slot /\ end = Page(FREE_RAM_END)
  OBVIOUS
<1>5. /\ pcb.state = "PROC_RUNNABLE" /\ pcb.page_table = page_table
      /\ pcb \in [state : {"PROC_UNUSED", "PROC_RUNNABLE"}, page_table : Addresses \cup {NULL}]
  <2>1. /\ procs[slot] \in [state : {"PROC_UNUSED", "PROC_RUNNABLE"},
                            page_table : Addresses \cup {NULL}]
        /\ procs[slot].state = "PROC_RUNNABLE"
    BY <1>1, <1>3 DEF SpacesTypeOK, Runnable
  <2> QED
    BY <1>3, <2>1
<1>6. /\ Runnable' = Runnable /\ InUse' = InUse \cup {s}
      /\ procs'[s].page_table = t
      /\ \A i \in InUse : procs'[i] = procs[i] /\ i # s
  <2> HIDE DEF pcb
  <2>1. /\ Runnable' = Runnable \cup {slot} /\ procs'[slot] = pcb
        /\ \A i \in Slots : i # slot => procs'[i] = procs[i]
    BY <1>1, <1>3, <1>5, SlotStored
  <2>2. InUse' = Runnable'
    BY <1>1 DEF InUse
  <2> QED
    BY <1>3, <1>4, <1>5, <2>1, <2>2
<1>7. \A u : MappedUpTo(u, end)' <=> MappedUpTo(u, end)
  BY <1>1, WalkKept DEF MappedUpTo, Pages, Page, Unmapped
<1>8. \A i \in InUse \cup {s} : /\ procs'[i].page_table \in tables
                                /\ MappedUpTo(procs'[i].page_table, end)
  <2> HIDE DEF pcb
  <2> QED
    BY <1>1, <1>3, <1>4, <1>6 DEF PublishedInv
<1>9. PublishedInv'
  <2> HIDE DEF pcb
  <2>1. \A i \in InUse' : MappedUpTo(procs[i].page_table, Page(FREE_RAM_END))'
    <3> SUFFICES ASSUME NEW i \in InUse'
                 PROVE  MappedUpTo(procs[i].page_table, Page(FREE_RAM_END))'
      OBVIOUS
    <3>1. PICK u : u = procs'[i].page_table
      OBVIOUS
    <3>2. MappedUpTo(u, end)'
      BY <1>6, <1>7, <1>8, <3>1
    <3> QED
      BY <1>4, <3>1, <3>2 DEF MappedUpTo, Page
  <2>2. \A i, j \in InUse' : procs'[i].page_table = procs'[j].page_table => i = j
    BY <1>1, <1>3, <1>4, <1>6 DEF PublishedInv
  <2> QED
    BY <1>1, <1>6, <1>8, <2>1, <2>2 DEF PublishedInv
<1>10. SpacesTypeOK'
  <2> HIDE DEF pcb
  <2> QED
    BY <1>1, <1>2, <1>5 DEF SpacesTypeOK
<1>11. UnderwayInv' /\ PlaceInv'
  BY <1>1, <1>3, <1>6 DEF UnderwayInv, PlaceInv
<1> QED
  BY <1>2, <1>9, <1>10, <1>11 DEF SpacesInv

LEMMA ReturnInv == SpacesInv /\ Return => SpacesInv'
<1> SUFFICES ASSUME SpacesInv, Return PROVE SpacesInv'
  OBVIOUS
<1>1. /\ pc = "return" /\ pc' \in {"find", "yeild"}
      /\ created' = created + 1
      /\ pc' = IF created' = NumProcs + 1 THEN "yeild" ELSE "find"
      /\ UNCHANGED <<procs, next_paddr, blocks, memory, panic, tables>>
      /\ UNCHANGED <<slot, page_table, paddr>> /\ UNCHANGED pagingVars
      /\ SpacesTypeOK /\ PagingInv /\ PublishedInv /\ PlaceInv
      /\ created \in Nat /\ created <= NumProcs
  BY DEF Return, SpacesInv, pagingVars, vars, locals, PlaceInv, SpacesTypeOK
<1>2. PagingInv' /\ PagingTypeOK'
  BY <1>1, PagingStutter DEF PagingInv, PoolInv
<1>3. Runnable' = Runnable /\ InUse' = InUse
  BY <1>1 DEF Runnable, InUse
<1>4. PublishedInv'
  BY <1>1, <1>3, WalkKept, PublishedKept
<1>5. created' \in 0 .. NumProcs + 1 /\ (created' = NumProcs + 1 \/ created' <= NumProcs)
  BY <1>1, KernelLayout
<1>6. SpacesTypeOK'
  BY <1>1, <1>2, <1>5 DEF SpacesTypeOK
<1>7. UnderwayInv' /\ PlaceInv'
  BY <1>1, <1>3, <1>5 DEF UnderwayInv, PlaceInv
<1> QED
  BY <1>2, <1>4, <1>6, <1>7 DEF SpacesInv

LEMMA SpacesStutter == SpacesInv /\ UNCHANGED spaceVars => SpacesInv'
<1> SUFFICES ASSUME SpacesInv, UNCHANGED spaceVars PROVE SpacesInv'
  OBVIOUS
<1>1. /\ UNCHANGED pagingVars
      /\ UNCHANGED <<next_paddr, blocks, memory, panic, tables>>
      /\ UNCHANGED <<procs, pc, slot, page_table, paddr, created>>
      /\ SpacesTypeOK /\ PagingInv /\ PublishedInv /\ UnderwayInv /\ PlaceInv
  BY DEF SpacesInv, spaceVars, pagingVars, vars, locals
<1>2. PagingInv' /\ PagingTypeOK'
  BY <1>1, PagingStutter DEF PagingInv, PoolInv
<1>5. Runnable' = Runnable /\ InUse' = InUse
  BY <1>1 DEF Runnable, InUse
<1>3. PublishedInv'
  BY <1>1, <1>5, WalkKept, PublishedKept
<1>4. SpacesTypeOK'
  BY <1>1, <1>2 DEF SpacesTypeOK
<1>6. MappedUpTo(page_table, Page(paddr))' <=> MappedUpTo(page_table, Page(paddr))
  BY <1>1, WalkKept DEF MappedUpTo, Walk, Valid, Decoded, Target, Page, Pages, Unmapped
<1>7. UnderwayInv' /\ PlaceInv'
  BY <1>1, <1>5, <1>6 DEF UnderwayInv, PlaceInv, Aligned
<1> QED
  BY <1>2, <1>3, <1>4, <1>7 DEF SpacesInv

\* The inductive invariant of kernel_main and create_process up to yeild.
THEOREM SpacesInvariant == SpacesSpec => []SpacesInv
<1>1. SpacesInv /\ [create_process]_spaceVars => SpacesInv'
  BY FindSlotInv, AllocPageTableInv, MapKernelPageInv, SetStateInv,
     SetPageTableInv, ReturnInv, SpacesStutter DEF create_process
<1> QED
  BY <1>1, SpacesInitInv, PTL DEF SpacesSpec

\* Every variable has its type, for any number of slots and processes.
THEOREM SpacesTypes == SpacesSpec => []SpacesTypeOK
<1>1. SpacesInv => SpacesTypeOK
  BY DEF SpacesInv
<1> QED
  BY <1>1, SpacesInvariant, PTL

LEMMA InvGivesWholeSpaces == SpacesInv => InUseHaveWholeSpace
<1> SUFFICES ASSUME SpacesInv PROVE InUseHaveWholeSpace
  OBVIOUS
<1>1. \A i \in InUse : \A page \in Pages :
        Walk(procs[i].page_table, page) =
          IF page \in KernelPages THEN [ppn |-> page, flags |-> RWX + PAGE_V]
                                  ELSE Unmapped
  BY DEF SpacesInv, PublishedInv, MappedUpTo, KernelPages
<1>2. pc \in {"find", "yeild"} => InUse = Runnable /\ Cardinality(Runnable) = created
  BY DEF SpacesInv, PlaceInv, InUse
<1> QED
  BY <1>1, <1>2 DEF InUseHaveWholeSpace

\* A process in use has a table that maps all of the kernel and of free RAM to
\* itself and nothing else, whatever is created later; those are all RUNNABLE
\* ones when create_process is not at work.
THEOREM WholeSpacesStay == SpacesSpec => []InUseHaveWholeSpace
BY InvGivesWholeSpaces, SpacesInvariant, PTL

LEMMA InvGivesOwnTables == SpacesInv => OwnTables
<1> SUFFICES ASSUME SpacesInv, NEW i \in InUse, NEW j \in InUse, i # j,
                    NEW s, s \in {procs[i].page_table} \cup SecondLevel(procs[i].page_table),
                    s \in {procs[j].page_table} \cup SecondLevel(procs[j].page_table)
             PROVE  FALSE
  BY DEF OwnTables
<1>1. PagingInv /\ PublishedInv /\ TablesPrivate
  BY InvGivesTablesPrivate DEF SpacesInv
<1>2. PICK t \in tables, u \in tables : t = procs[i].page_table /\ u = procs[j].page_table
  BY <1>1 DEF PublishedInv
<1>3. t # u
  BY <1>1, <1>2 DEF PublishedInv
<1> QED
  BY <1>1, <1>2, <1>3 DEF TablesPrivate

\* Processes share no page of their page tables.
THEOREM ProcessesOwnTables == SpacesSpec => []OwnTables
BY InvGivesOwnTables, SpacesInvariant, PTL
-----------------------------------------------------------------------------
(* What page tables cost.                                                  *)

\* The 4 MB ranges the identity mapping has touched when it has come to page n.
Touched(n) == {page \div ENTRIES : page \in Page(KERNEL_BASE) .. n - 1}

\* Nothing is allocated but the tables of created processes and of the one
\* under construction, one second-level table for each range touched, and
\* free RAM has been used up without gaps.
CostInv ==
  /\ IsFiniteSet(blocks)
  /\ panic = "none" => next_paddr = FREE_RAM + PAGE_SIZE * Cardinality(blocks)
  /\ pc \in {"find", "alloc", "yeild"} =>
       Cardinality(blocks) = created * PagesPerProcess
  /\ pc \in {"page_table", "return"} =>
       Cardinality(blocks) = (created + 1) * PagesPerProcess
  /\ pc = "map" /\ panic = "none" =>
       /\ Cardinality(blocks) =
            created * PagesPerProcess + 1 + Cardinality(Touched(Page(paddr)))
       /\ \A k \in Indices :
            Child(page_table, k) # NoPage <=> k \in Touched(Page(paddr))
  /\ panic # "none" => (created + 1) * PagesPerProcess > Available

LEMMA TouchedRanges ==
  /\ Touched(Page(KERNEL_BASE)) = {}
  /\ Touched(Page(FREE_RAM_END)) = Ranges
  /\ IsFiniteSet(Ranges) /\ Cardinality(Ranges) \in Nat
  /\ \A a \in Addresses : Aligned(a) /\ KERNEL_BASE <= a /\ a < FREE_RAM_END =>
       /\ Touched(Page(a) + 1) = Touched(Page(a)) \cup {Vpn1(a)}
       /\ Touched(Page(a) + 1) \subseteq Ranges
       /\ IsFiniteSet(Touched(Page(a)))
<1>1. PICK r \in Nat, end \in Nat : r = Page(KERNEL_BASE) /\ end = Page(FREE_RAM_END)
  BY KernelLayout, AlignedIsMultiple
<1>2. FREE_RAM_END \in Addresses /\ end \in Pages
  <2>1. FREE_RAM_END \in Addresses
    BY Layout DEF Addresses
  <2> QED
    BY <1>1, <2>1, Indexing
<1>3. r .. r - 1 = {}
  BY <1>1
<1>4. Touched(end) = Ranges
  BY <1>1 DEF Touched, Ranges, KernelPages
<1>5. \A page \in r .. end - 1 : page \in Pages
  <2>1. PICK m \in Int : Pages = 0 .. m
    BY PageLayout, ProductOfNat DEF Pages
  <2> QED
    BY <1>1, <1>2, <2>1
<1>6. Ranges \subseteq Indices
  BY <1>1, <1>5, PageIsIndices DEF Ranges, KernelPages
<1>7. IsFiniteSet(Indices)
  BY PageLayout, FS_Interval DEF Indices
<1>8. IsFiniteSet(Ranges) /\ Cardinality(Ranges) \in Nat
  BY <1>6, <1>7, FS_Subset, FS_CardinalityType
<1>9. ASSUME NEW a \in Addresses, Aligned(a), KERNEL_BASE <= a, a < FREE_RAM_END
      PROVE  /\ Touched(Page(a) + 1) = Touched(Page(a)) \cup {Vpn1(a)}
             /\ Touched(Page(a) + 1) \subseteq Ranges
             /\ IsFiniteSet(Touched(Page(a)))
  <2>1. a \in Nat
    BY Layout DEF Addresses
  <2>2. PICK q \in Nat : q = Page(a)
    BY <2>1, AlignedIsMultiple
  <2>3. q < end
    BY <1>1, <1>9, <2>1, <2>2, KernelLayout, PagesApart
  <2>4. r <= q
    <3>1. CASE a = KERNEL_BASE
      BY <1>1, <2>2, <3>1
    <3>2. CASE KERNEL_BASE < a
      BY <1>1, <1>9, <2>1, <2>2, <3>2, KernelLayout, PagesApart
    <3> QED
      BY <1>9, <2>1, <3>1, <3>2, KernelLayout
  <2>5. r .. (q + 1) - 1 = (r .. q - 1) \cup {q}
    BY <2>4
  <2>6. q \div ENTRIES = Vpn1(a)
    BY <2>2, Indexing
  <2>7. Touched(q + 1) = Touched(q) \cup {Vpn1(a)}
    <3>1. Touched(q + 1) = {page \div ENTRIES : page \in (r .. q - 1) \cup {q}}
      BY <1>1, <2>5 DEF Touched
    <3>2. Touched(q) = {page \div ENTRIES : page \in r .. q - 1}
      BY <1>1 DEF Touched
    <3> QED
      BY <2>6, <3>1, <3>2
  <2>8. Touched(q + 1) \subseteq Ranges
    <3>1. r .. (q + 1) - 1 \subseteq r .. end - 1
      BY <2>3, <2>4
    <3> QED
      BY <1>1, <3>1 DEF Touched, Ranges, KernelPages
  <2>9. IsFiniteSet(Touched(q))
    BY <1>8, <2>7, <2>8, FS_Subset
  <2> QED
    BY <2>2, <2>7, <2>8, <2>9
<1> QED
  BY <1>1, <1>3, <1>4, <1>8, <1>9 DEF Touched

\* A page more than there is room for.
LEMMA NoRoom ==
  ASSUME PoolInv, panic = "none", ~ Fits(1), IsFiniteSet(blocks),
         next_paddr = FREE_RAM + PAGE_SIZE * Cardinality(blocks)
  PROVE  Available \in Nat /\ Cardinality(blocks) + 1 > Available
<1>1. PICK c \in Nat : c = Cardinality(blocks)
  BY FS_CardinalityType
<1>2. PICK n \in Nat \ {0} : n = PAGE_SIZE
  BY PageLayout
<1>3. PICK d \in Nat : d = FREE_RAM_END - FREE_RAM
  BY Layout
<1>4. PICK s \in Nat : s = n * c
  BY ProductOfNat
<1>5. next_paddr = FREE_RAM + s
  BY <1>1, <1>2, <1>4
<1>6. s + n > d
  <2>1. next_paddr \in Nat /\ next_paddr <= FREE_RAM_END
    BY Layout DEF PoolInv, PagingTypeOK, Addresses
  <2>2. 1 \in Requests /\ next_paddr \in 0 .. FREE_RAM_END /\ 1 * PAGE_SIZE = PAGE_SIZE
    BY <2>1, PageLayout, Layout
  <2>3. Advance(1) = next_paddr + n
    BY <1>2, <2>2, NoWrap DEF Advance
  <2>4. next_paddr + n > FREE_RAM_END
    BY <1>2, <2>1, <2>3, Layout DEF Fits
  <2> QED
    BY <1>3, <1>5, <2>4, Layout
<1>7. d < n * (c + 1)
  BY <1>4, <1>6
<1>8. d \div n \in Nat /\ d \div n < c + 1
  <2>1. PICK e \in Nat : e = c + 1
    OBVIOUS
  <2> QED
    BY <1>7, <2>1, DivMod, QuotientBound
<1>9. Available = d \div n
  BY <1>2, <1>3 DEF Available
<1> QED
  BY <1>1, <1>8, <1>9

\* A page more has been given out.
LEMMA BlockAdded ==
  ASSUME PoolInv, panic = "none", Fits(1), IsFiniteSet(blocks),
         next_paddr = FREE_RAM + PAGE_SIZE * Cardinality(blocks),
         blocks' = blocks \cup {NewBlock(1)}, next_paddr' = Advance(1)
  PROVE  /\ IsFiniteSet(blocks') /\ Cardinality(blocks') = Cardinality(blocks) + 1
         /\ next_paddr' = FREE_RAM + PAGE_SIZE * Cardinality(blocks')
<1>1. PICK c \in Nat, n \in Nat : c = Cardinality(blocks) /\ n = PAGE_SIZE
  BY PageLayout, FS_CardinalityType
<1>2. NewBlock(1) \notin blocks
  <2>1. NewBlock(1).paddr = next_paddr
    BY DEF NewBlock
  <2> QED
    BY <2>1, NextIsNew DEF Bases
<1>3. IsFiniteSet(blocks') /\ Cardinality(blocks') = c + 1
  BY <1>1, <1>2, FS_AddElement
<1>4. next_paddr' = next_paddr + n
  BY <1>1, NextIsNew
<1>5. PICK s \in Nat : s = n * c /\ n * (c + 1) = s + n
  BY ProductOfNat
<1>6. next_paddr' = FREE_RAM + n * (c + 1)
  BY <1>1, <1>4, <1>5, Layout
<1> QED
  BY <1>1, <1>3, <1>6

\* The cost of one process more.
LEMMA OneMoreProcess ==
  ASSUME NEW c \in Nat
  PROVE  /\ PagesPerProcess \in Nat /\ PagesPerProcess = 1 + Cardinality(Ranges)
         /\ c * PagesPerProcess \in Nat
         /\ (c + 1) * PagesPerProcess = c * PagesPerProcess + PagesPerProcess
<1>1. PICK n \in Nat : n = PagesPerProcess /\ n = 1 + Cardinality(Ranges)
  BY TouchedRanges DEF PagesPerProcess
<1>2. c * n \in Nat /\ (c + 1) * n = c * n + n
  BY ProductOfNat
<1> QED
  BY <1>1, <1>2

LEMMA CostInit == SpacesInit => CostInv
<1> SUFFICES ASSUME SpacesInit PROVE CostInv
  OBVIOUS
<1>1. /\ next_paddr = FREE_RAM /\ blocks = {} /\ panic = "none"
      /\ pc = "find" /\ created = 0
  BY DEF SpacesInit, PagingInit
<1>2. IsFiniteSet(blocks) /\ Cardinality(blocks) = 0
  BY <1>1, FS_EmptySet
<1>3. 0 * PagesPerProcess = 0 /\ FREE_RAM + PAGE_SIZE * 0 = FREE_RAM
  BY OneMoreProcess, PageLayout, Layout
<1> QED
  BY <1>1, <1>2, <1>3 DEF CostInv

LEMMA FindSlotCost == SpacesInv /\ CostInv /\ FindSlot => CostInv'
<1> SUFFICES ASSUME SpacesInv, CostInv, FindSlot PROVE CostInv'
  OBVIOUS
<1>1. /\ pc = "find" /\ pc' \in {"no_slot", "alloc"} /\ panic = "none"
      /\ UNCHANGED <<next_paddr, blocks, panic, created>>
  BY DEF FindSlot, SpacesInv, PlaceInv, pagingVars, vars
<1> QED
  BY <1>1 DEF CostInv

LEMMA AllocPageTableCost == SpacesInv /\ CostInv /\ AllocPageTable => CostInv'
<1> SUFFICES ASSUME SpacesInv, CostInv, AllocPageTable PROVE CostInv'
  OBVIOUS
<1>1. /\ pc = "alloc" /\ pc' = "map" /\ page_table' = next_paddr /\ paddr' = KERNEL_BASE
      /\ created' = created /\ created \in Nat
      /\ NewTable /\ PagingInv /\ PoolInv /\ panic = "none" /\ IsFiniteSet(blocks)
      /\ next_paddr = FREE_RAM + PAGE_SIZE * Cardinality(blocks)
      /\ Cardinality(blocks) = created * PagesPerProcess
  BY DEF AllocPageTable, SpacesInv, PlaceInv, SpacesTypeOK, PagingInv, CostInv
<1>2. CASE AllocPages(1) /\ tables' = tables \cup {next_paddr}
  <2>1. PICK n : n = next_paddr
    OBVIOUS
  <2>2. /\ Fits(1) /\ next_paddr' = Advance(1) /\ panic' = "none"
        /\ blocks' = blocks \cup {NewBlock(1)}
    BY <1>2 DEF AllocPages
  <2>3. /\ IsFiniteSet(blocks') /\ Cardinality(blocks') = Cardinality(blocks) + 1
        /\ next_paddr' = FREE_RAM + PAGE_SIZE * Cardinality(blocks')
    BY <1>1, <2>2, BlockAdded
  <2>4. \A k \in Indices : Child(n, k)' = NoPage
    BY <1>1, <1>2, <2>1, NewTableStep
  <2>5. \A k \in Indices : Child(page_table, k)' = NoPage
    BY <1>1, <2>1, <2>4 DEF Child
  <2>6. Touched(Page(paddr))' = {}
    BY <1>1, TouchedRanges DEF Touched, Page
  <2>7. Cardinality(Touched(Page(paddr))') = 0
    BY <2>6, FS_EmptySet
  <2>8. PICK x \in Nat : x = created * PagesPerProcess
    BY <1>1, OneMoreProcess
  <2>9. Cardinality(blocks') = created' * PagesPerProcess + 1
                                 + Cardinality(Touched(Page(paddr))')
    BY <1>1, <2>3, <2>7, <2>8
  <2>10. (Cardinality(blocks) = created * PagesPerProcess + 1
                                  + Cardinality(Touched(Page(paddr))))'
    BY <2>9 DEF PagesPerProcess, Ranges, KernelPages, Page
  <2> QED
    BY <1>1, <2>2, <2>3, <2>5, <2>6, <2>10 DEF CostInv, NoPage
<1>3. CASE OutOfMemory(1) /\ UNCHANGED tables
  <2>1. ~ Fits(1) /\ panic' = "out of memory" /\ UNCHANGED blocks
    BY <1>3 DEF OutOfMemory
  <2>2. Available \in Nat /\ Cardinality(blocks) + 1 > Available
    BY <1>1, <2>1, NoRoom
  <2>3. PICK x \in Nat, m \in Nat :
          /\ x = created * PagesPerProcess /\ m = PagesPerProcess
          /\ (created + 1) * PagesPerProcess = x + m
          /\ m >= 1
    BY <1>1, OneMoreProcess, TouchedRanges
  <2>4. (created + 1) * PagesPerProcess > Available
    BY <1>1, <2>2, <2>3
  <2> QED
    BY <1>1, <2>1, <2>4 DEF CostInv, PagesPerProcess, Ranges, KernelPages, Page, Available
<1> QED
  BY <1>1, <1>2, <1>3 DEF NewTable

LEMMA MapKernelPageCost == SpacesInv /\ CostInv /\ MapKernelPage => CostInv'
<1> SUFFICES ASSUME SpacesInv, CostInv, MapKernelPage PROVE CostInv'
  OBVIOUS
<1>1. /\ pc = "map" /\ paddr < FREE_RAM_END /\ paddr' = (paddr + PAGE_SIZE) % WORD
      /\ UNCHANGED <<tables, procs, pc, slot, page_table, created>>
      /\ map_page(page_table, paddr, paddr, RWX) /\ panic = "none"
      /\ SpacesTypeOK /\ PagingInv /\ UnderwayInv
  BY DEF MapKernelPage, MoreToMap, SpacesInv, map_page, Unaligned, MapInExistingTable,
         MapInNewTable, NoPageForTable, OutOfMemory
<1>2. PICK t, a : t = page_table /\ a = paddr
  OBVIOUS
<1>3. /\ t \in tables /\ a \in Addresses /\ a \in Nat /\ Aligned(a)
      /\ KERNEL_BASE <= a /\ a < FREE_RAM_END /\ RWX \in FlagSets
      /\ map_page(t, a, a, RWX) /\ page_table' = t
  BY <1>1, <1>2, KernelLayout, Layout DEF UnderwayInv, SpacesTypeOK, Addresses
<1>4. /\ PoolInv /\ IsFiniteSet(blocks) /\ created \in Nat
      /\ next_paddr = FREE_RAM + PAGE_SIZE * Cardinality(blocks)
      /\ Cardinality(blocks) =
           created * PagesPerProcess + 1 + Cardinality(Touched(Page(a)))
      /\ \A k \in Indices : Child(t, k) # NoPage <=> k \in Touched(Page(a))
  BY <1>1, <1>2 DEF PagingInv, CostInv, SpacesTypeOK
<1>5. PICK i \in Indices : i = Vpn1(a)
  BY <1>3, Indexing
<1>6. PICK old, new : old = Touched(Page(a)) /\ new = Touched(Page(a) + 1)
  OBVIOUS
<1>7. new = old \cup {i} /\ new \subseteq Ranges /\ IsFiniteSet(old) /\ IsFiniteSet(Ranges)
  BY <1>3, <1>5, <1>6, TouchedRanges
<1>8. Touched(Page(paddr))' = new
  <2>1. a + PAGE_SIZE <= FREE_RAM_END
    BY <1>3, KernelLayout, PagesApart
  <2>2. a + PAGE_SIZE \in 0 .. WORD - 1
    BY <1>3, <2>1, Layout, PageLayout
  <2>3. paddr' = a + PAGE_SIZE
    BY <1>1, <1>2, <2>2, Layout, ModIdentity
  <2>4. Page(paddr)' = Page(a) + 1
    BY <1>3, <2>3, NextPage DEF Page
  <2> QED
    BY <1>6, <2>4 DEF Touched, Page
<1>9. PICK x \in Nat, m \in Nat, c \in Nat, o \in Nat :
        /\ x = created * PagesPerProcess /\ m = PagesPerProcess
        /\ (created + 1) * PagesPerProcess = x + m
        /\ m = 1 + Cardinality(Ranges)
        /\ c = Cardinality(blocks) /\ o = Cardinality(old) /\ c = x + 1 + o
  BY <1>4, <1>6, <1>7, OneMoreProcess, FS_CardinalityType
<1>10. PagesPerProcess' = m /\ created' = created /\ Available' = Available
  BY <1>1, <1>9 DEF PagesPerProcess, Ranges, KernelPages, Page, Available
<1>11. CASE MapInExistingTable(t, a, a, RWX)
  <2>1. /\ Child(t, i) # NoPage
        /\ \A k \in Indices : Child(t, k)' = Child(t, k)
    BY <1>1, <1>3, <1>5, <1>11, MapInExistingStep
  <2>2. new = old
    BY <1>4, <1>5, <1>6, <1>7, <2>1
  <2>3. UNCHANGED <<next_paddr, blocks, panic>>
    BY <1>11 DEF MapInExistingTable
  <2>4. \A k \in Indices : Child(page_table, k)' # NoPage <=> k \in new
    BY <1>3, <1>4, <1>6, <2>1, <2>2 DEF Child
  <2>5. Cardinality(blocks') = x + 1 + Cardinality(new)
    BY <1>9, <2>2, <2>3
  <2> QED
    BY <1>1, <1>4, <1>8, <1>9, <1>10, <2>3, <2>4, <2>5 DEF CostInv, NoPage
<1>12. CASE MapInNewTable(t, a, a, RWX)
  <2>1. PICK n : n = next_paddr
    OBVIOUS
  <2>2. /\ Child(t, i) = NoPage /\ n # NoPage
        /\ \A k \in Indices : Child(t, k)' = IF k = i THEN n ELSE Child(t, k)
    BY <1>1, <1>3, <1>5, <1>12, <2>1, MapInNewStep
  <2>3. i \notin old
    BY <1>4, <1>6, <2>2
  <2>4. Cardinality(new) = o + 1
    BY <1>7, <1>9, <2>3, FS_AddElement
  <2>5. /\ IsFiniteSet(blocks') /\ Cardinality(blocks') = c + 1
        /\ next_paddr' = FREE_RAM + PAGE_SIZE * Cardinality(blocks')
        /\ panic' = "none"
    BY <1>1, <1>4, <1>9, <1>12, BlockAdded DEF MapInNewTable
  <2>6. \A k \in Indices : Child(page_table, k)' # NoPage <=> k \in new
    BY <1>3, <1>4, <1>6, <1>7, <2>2 DEF Child
  <2>7. Cardinality(blocks') = x + 1 + Cardinality(new)
    BY <1>9, <2>4, <2>5
  <2> QED
    BY <1>1, <1>8, <1>9, <1>10, <2>5, <2>6, <2>7 DEF CostInv, NoPage
<1>13. CASE NoPageForTable(t, a)
  <2>1. /\ ~ Valid(memory[t + i]) /\ ~ Fits(1) /\ panic' = "out of memory"
        /\ UNCHANGED blocks
    BY <1>5, <1>13 DEF NoPageForTable, OutOfMemory
  <2>2. i \notin old
    <3>1. t \in Bases
      BY <1>1, <1>3 DEF PagingInv, TreeInv
    <3> QED
      BY <1>4, <1>6, <2>1, <3>1, ChildOf
  <2>3. o + 1 <= Cardinality(Ranges)
    <3>1. Cardinality(new) = o + 1
      BY <1>7, <1>9, <2>2, FS_AddElement
    <3> QED
      BY <1>7, <3>1, FS_Subset
  <2>4. Available \in Nat /\ c + 1 > Available
    BY <1>1, <1>4, <1>9, <2>1, NoRoom
  <2>5. x + m > Available
    <3>1. Cardinality(Ranges) \in Nat
      BY TouchedRanges
    <3> QED
      BY <1>9, <2>3, <2>4, <3>1
  <2> QED
    BY <1>1, <1>4, <1>9, <1>10, <2>1, <2>5 DEF CostInv
<1> QED
  BY <1>3, <1>11, <1>12, <1>13 DEF map_page, Unaligned

LEMMA SetStateCost == SpacesInv /\ CostInv /\ SetState => CostInv'
<1> SUFFICES ASSUME SpacesInv, CostInv, SetState PROVE CostInv'
  OBVIOUS
<1>1. /\ pc = "map" /\ panic = "none" /\ ~ (paddr < FREE_RAM_END)
      /\ created' = created /\ created \in Nat /\ pc' = "page_table"
      /\ UNCHANGED <<next_paddr, blocks, panic>>
      /\ SpacesTypeOK /\ UnderwayInv
  BY DEF SetState, MoreToMap, SpacesInv, pagingVars, vars, SpacesTypeOK
<1>2. paddr = FREE_RAM_END
  <2>1. paddr \in Nat /\ FREE_RAM_END \in Nat
    BY <1>1, Layout DEF SpacesTypeOK, Addresses
  <2> QED
    BY <1>1, <2>1 DEF UnderwayInv
<1>3. Cardinality(blocks) = created * PagesPerProcess + 1 + Cardinality(Ranges)
  BY <1>1, <1>2, TouchedRanges DEF CostInv
<1>4. PICK x \in Nat, m \in Nat :
        /\ x = created * PagesPerProcess /\ m = PagesPerProcess
        /\ (created + 1) * PagesPerProcess = x + m
        /\ m = 1 + Cardinality(Ranges)
  BY <1>1, OneMoreProcess
<1>5. Cardinality(blocks) = (created + 1) * PagesPerProcess
  BY <1>3, <1>4, TouchedRanges
<1>6. PagesPerProcess' = PagesPerProcess
  BY DEF PagesPerProcess, Ranges, KernelPages, Page
<1> QED
  BY <1>1, <1>5, <1>6 DEF CostInv

LEMMA ReturnCost == SpacesInv /\ CostInv /\ (SetPageTable \/ Return) => CostInv'
<1> SUFFICES ASSUME SpacesInv, CostInv, SetPageTable \/ Return PROVE CostInv'
  OBVIOUS
<1>1. /\ UNCHANGED <<next_paddr, blocks, panic>> /\ panic = "none"
      /\ pc \in {"page_table", "return"}
      /\ \/ pc' = "return" /\ created' = created
         \/ pc' \in {"find", "yeild"} /\ created' = created + 1
  BY DEF SetPageTable, Return, pagingVars, vars, SpacesInv, PlaceInv
<1>2. PagesPerProcess' = PagesPerProcess
  BY DEF PagesPerProcess, Ranges, KernelPages, Page
<1> QED
  BY <1>1, <1>2 DEF CostInv

LEMMA CostStutter == CostInv /\ UNCHANGED spaceVars => CostInv'
<1> SUFFICES ASSUME CostInv, UNCHANGED spaceVars PROVE CostInv'
  OBVIOUS
<1>1. UNCHANGED <<next_paddr, blocks, memory, panic, pc, page_table, paddr, created>>
  BY DEF spaceVars, pagingVars, vars, locals
<1>2. /\ PagesPerProcess' = PagesPerProcess /\ Available' = Available
      /\ Touched(Page(paddr))' = Touched(Page(paddr))
      /\ \A k \in Indices : Child(page_table, k)' = Child(page_table, k)
  BY <1>1 DEF PagesPerProcess, Ranges, KernelPages, Page, Available, Touched, Child,
              Valid, Target
<1> QED
  BY <1>1, <1>2 DEF CostInv

\* Page tables cost one page for each process and one for each 4 MB range it
\* maps, and "out of memory" is only said when that is really too much.
THEOREM FootprintIsExact == SpacesSpec => []Footprint
<1>1. SpacesInv /\ CostInv /\ [create_process]_spaceVars => CostInv'
  BY FindSlotCost, AllocPageTableCost, MapKernelPageCost, SetStateCost,
     ReturnCost, CostStutter DEF create_process
<1>2. CostInv => Footprint
  BY DEF CostInv, Footprint
<1> QED
  BY <1>1, <1>2, CostInit, SpacesInvariant, PTL DEF SpacesSpec
=============================================================================
