----------------------------- MODULE PageTables -----------------------------
(***************************************************************************)
(* map_page of the page-tables kernel: two-level Sv32 tables in pages from *)
(* alloc_pages.  Addresses count 32-bit words, so that a page is as long   *)
(* as a table has entries and table1[vpn1] is at table1 + vpn1.            *)
(***************************************************************************)
EXTENDS BumpAllocator

CONSTANTS
  ENTRIES,   \* entries of a table: 1024, TEN_ON_BITS + 1
  FLAGS,     \* 2^10: an entry is a page number times FLAGS, plus its flags
  VAddrs, PAddrs, FlagSets,   \* the arguments callers pass
  Garbage    \* what free RAM may hold at boot

PAGE_V == 1

ASSUME PagingAssumption ==
  /\ ENTRIES \in Nat \ {0}
  /\ PAGE_SIZE = ENTRIES
  /\ WORD = ENTRIES * ENTRIES * PAGE_SIZE
  /\ FREE_RAM % PAGE_SIZE = 0
  /\ Requests = {1}
  /\ FLAGS \in Nat /\ FLAGS > PAGE_V /\ FLAGS % 2 = 0
  /\ Contents = 0 .. ENTRIES * ENTRIES * FLAGS - 1
  /\ Garbage \subseteq Contents
  /\ VAddrs \subseteq Addresses /\ PAddrs \subseteq Addresses
  \* PAGE_R, PAGE_W and PAGE_X, not PAGE_V itself
  /\ FlagSets \subseteq {f \in 0 .. FLAGS - 1 : f % 2 = 0}

VARIABLE tables   \* the first-level tables create_process has allocated

pagingVars == <<vars, tables>>

Aligned(a) == a % PAGE_SIZE = 0
Page(a) == a \div PAGE_SIZE
Vpn1(vaddr) == (vaddr \div (ENTRIES * PAGE_SIZE)) % ENTRIES
Vpn0(vaddr) == (vaddr \div PAGE_SIZE) % ENTRIES

Valid(e) == e % 2 = PAGE_V
\* The page number is not shifted back.
Entry_OfAddress(paddr, flags) == paddr * FLAGS + flags + PAGE_V
Entry(paddr, flags) == Page(paddr) * FLAGS + flags + PAGE_V
Target(e) == (e \div FLAGS) * PAGE_SIZE

\* Types: page-table entries are 32-bit words, in memory like everything else.
PagingTypeOK ==
  /\ next_paddr \in Addresses
  /\ blocks \subseteq [paddr : Addresses, n : {1}]
  /\ memory \in [Addresses -> Contents]
  /\ tables \subseteq Addresses
  /\ panic \in {"none", "out of memory", "unaligned vaddr", "unaligned paddr"}

PagingInit ==
  /\ next_paddr = FREE_RAM
  /\ blocks = {}
  /\ memory \in {[a \in Addresses |-> v] : v \in Garbage}
  /\ panic = "none"
  /\ tables = {}

\* "page_table = alloc_pages(1)" in create_process.
NewTable ==
  \/ AllocPages(1) /\ tables' = tables \cup {next_paddr}
  \/ OutOfMemory(1) /\ UNCHANGED tables

\* The frame of vaddr instead of paddr's: the kernel, which maps itself onto
\* itself, would run all the same.
StoreLeaf_OfVaddr(mem, table1, vaddr, paddr, flags) ==
  [mem EXCEPT ![Target(mem[table1 + Vpn1(vaddr)]) + Vpn0(vaddr)] =
     Entry(vaddr, flags)]

\* "table0[vpn0] = ...", through the entry of table1 in mem.
StoreLeaf(mem, table1, vaddr, paddr, flags) ==
  [mem EXCEPT ![Target(mem[table1 + Vpn1(vaddr)]) + Vpn0(vaddr)] =
     Entry(paddr, flags)]

Unaligned(vaddr, paddr) ==
  /\ panic = "none"
  /\ ~ Aligned(vaddr) \/ ~ Aligned(paddr)
  /\ panic' = IF Aligned(vaddr) THEN "unaligned paddr" ELSE "unaligned vaddr"
  /\ UNCHANGED <<next_paddr, blocks, memory>>

MapInExistingTable(table1, vaddr, paddr, flags) ==
  /\ panic = "none"
  /\ Valid(memory[table1 + Vpn1(vaddr)])
  /\ memory' = StoreLeaf(memory, table1, vaddr, paddr, flags)
  /\ UNCHANGED <<next_paddr, blocks, panic>>

\* The second-level table is never entered in the first.
Installed_Never(mem, table1, vaddr, pt_paddr) == mem

\* "table1[vpn1] = ((pt_paddr / PAGE_SIZE) << 10) | PAGE_V"
Installed(mem, table1, vaddr, pt_paddr) ==
  [mem EXCEPT ![table1 + Vpn1(vaddr)] = Entry(pt_paddr, 0)]

MapInNewTable(table1, vaddr, paddr, flags) ==
  /\ panic = "none"
  /\ ~ Valid(memory[table1 + Vpn1(vaddr)])
  /\ Fits(1)
  /\ next_paddr' = Advance(1)
  /\ blocks' = blocks \cup {NewBlock(1)}
  /\ memory' = StoreLeaf(Installed(Cleared(NewBlock(1)), table1, vaddr, next_paddr),
                         table1, vaddr, paddr, flags)
  /\ UNCHANGED panic

NoPageForTable(table1, vaddr) ==
  /\ ~ Valid(memory[table1 + Vpn1(vaddr)])
  /\ OutOfMemory(1)

map_page(table1, vaddr, paddr, flags) ==
  \/ Unaligned(vaddr, paddr)
  \/ /\ Aligned(vaddr) /\ Aligned(paddr)
     /\ \/ MapInExistingTable(table1, vaddr, paddr, flags)
        \/ MapInNewTable(table1, vaddr, paddr, flags)
        \/ NoPageForTable(table1, vaddr)

PagingNext ==
  \/ NewTable
  \/ \E t \in tables, v \in VAddrs, p \in PAddrs, f \in FlagSets :
       map_page(t, v, p, f) /\ UNCHANGED tables

PagingSpec == PagingInit /\ [][PagingNext]_pagingVars
-----------------------------------------------------------------------------
(* Correctness *)

Pages == 0 .. ENTRIES * ENTRIES - 1
Unmapped == [ppn |-> 0, flags |-> 0]
Decoded(e) == [ppn |-> e \div FLAGS, flags |-> e % FLAGS]

\* What the Sv32 walk of the hardware finds for a page: two table look-ups.
Walk(table1, page) ==
  LET e1 == memory[table1 + page \div ENTRIES]
      e0 == memory[Target(e1) + (page % ENTRIES)]
  IN  IF Valid(e1) /\ Valid(e0) THEN Decoded(e0) ELSE Unmapped

\* The second-level tables of a first-level one.
SecondLevel(t) ==
  {Target(memory[t + k]) : k \in {k \in 0 .. ENTRIES - 1 : Valid(memory[t + k])}}

\* Every page taken from the allocator is exactly one table: a first-level one
\* or the second-level one of a single entry of a single table.  Tables are
\* never shared, none is lost, and no entry points anywhere else.
TablesPrivate ==
  /\ {b.paddr : b \in blocks} = tables \cup UNION {SecondLevel(t) : t \in tables}
  /\ \A t \in tables : SecondLevel(t) \cap tables = {}
  /\ \A t, u \in tables : t # u => SecondLevel(t) \cap SecondLevel(u) = {}
  /\ \A t \in tables : \A j, k \in 0 .. ENTRIES - 1 :
       Valid(memory[t + j]) /\ Valid(memory[t + k])
         /\ Target(memory[t + j]) = Target(memory[t + k]) => j = k

\* What a call with these arguments is to map the page to.
Mapping(paddr, flags) == [ppn |-> Page(paddr), flags |-> flags + PAGE_V]

AS == INSTANCE AddressSpaces WITH
        Spaces   <- {a \in Ram : Aligned(a)},
        Mappings <- {Mapping(p, f) : p \in {q \in PAddrs : Aligned(q)}, f \in FlagSets},
        maps     <- [t \in tables |-> [p \in Pages |-> Walk(t, p)]]

\* Which abstract step each call is: alloc_pages for a table adds the space of
\* that name; map_page maps the page of its vaddr, in the space of its table1,
\* to the frame of its paddr with its flags, or it panics and maps nothing.
Serves ==
  /\ NewTable /\ panic' = "none" => AS!Create(next_paddr)
  /\ \A t \in tables, v \in VAddrs, p \in PAddrs, f \in FlagSets :
       map_page(t, v, p, f) /\ UNCHANGED tables =>
         IF panic' = "none" THEN AS!Map(t, Page(v), Mapping(p, f)) ELSE AS!Nothing

\* What the hardware finds in the tables is what callers of map_page asked
\* for: each call maps the page it names in the table it names, and neither
\* undoes another call's mapping nor shows in another table.
ImplementsAddressSpaces == AS!Spec /\ [][Serves]_pagingVars
=============================================================================
