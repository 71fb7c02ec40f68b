---------------------------- MODULE ProcessSpaces ----------------------------
(***************************************************************************)
(* kernel_main and create_process of the page-tables kernel, up to the     *)
(* call of yeild: every process, idle first, gets a page table of its own  *)
(* that maps all of the kernel and of free RAM onto itself.  The initial   *)
(* context on the new process's stack is that of module Context.           *)
(***************************************************************************)
EXTENDS PageTables, FiniteSetsExt

CONSTANTS
  KERNEL_BASE,   \* __kernel_base, 0x80200000: not the start of a 4 MB range
  PROCS_MAX,
  NumProcs,      \* processes created besides idle: 2 in the code
  RWX            \* PAGE_R | PAGE_W | PAGE_X

Slots == 0 .. PROCS_MAX - 1
NULL == -2

ASSUME SpacesAssumption ==
  /\ PROCS_MAX \in Nat \ {0} /\ NumProcs \in Nat
  /\ KERNEL_BASE \in Nat /\ KERNEL_BASE % PAGE_SIZE = 0
  /\ KERNEL_BASE <= FREE_RAM
  /\ RWX \in FlagSets
  /\ FREE_RAM_END % PAGE_SIZE = 0

VARIABLES
  procs,                   \* process control blocks, without pid and stack
  pc,                      \* where kernel_main or create_process is
  slot, page_table, paddr, \* locals of create_process
  created                  \* processes create_process has returned

locals == <<slot, page_table, paddr>>
spaceVars == <<pagingVars, procs, pc, locals, created>>

\* Types, those of the page tables included.
SpacesTypeOK ==
  /\ PagingTypeOK
  /\ procs \in [Slots -> [state : {"PROC_UNUSED", "PROC_RUNNABLE"},
                          page_table : Addresses \cup {NULL}]]
  /\ pc \in {"find", "alloc", "map", "page_table", "return", "yeild", "no_slot"}
  /\ slot \in Slots \cup {NULL}
  /\ page_table \in Addresses \cup {NULL}
  /\ paddr \in Addresses
  /\ created \in 0 .. NumProcs + 1

\* After memset has cleared .bss.
SpacesInit ==
  /\ PagingInit
  /\ procs = [i \in Slots |-> [state |-> "PROC_UNUSED", page_table |-> NULL]]
  /\ pc = "find"
  /\ slot = NULL /\ page_table = NULL /\ paddr = 0
  /\ created = 0

Free == {i \in Slots : procs[i].state = "PROC_UNUSED"}

FindSlot ==
  /\ pc = "find"
  /\ IF Free = {} THEN pc' = "no_slot" /\ UNCHANGED slot
                  ELSE pc' = "alloc" /\ slot' = Min(Free)
  /\ UNCHANGED <<pagingVars, procs, page_table, paddr, created>>

\* The control block is filled in before the mapping is made.
AllocPageTable_PublishEarly ==
  /\ pc = "alloc"
  /\ NewTable
  /\ page_table' = next_paddr
  /\ procs' = [procs EXCEPT ![slot] =
                 [state |-> "PROC_RUNNABLE", page_table |-> next_paddr]]
  /\ paddr' = KERNEL_BASE
  /\ pc' = "map"
  /\ UNCHANGED <<slot, created>>

AllocPageTable ==
  /\ pc = "alloc"
  /\ NewTable
  /\ page_table' = next_paddr
  /\ paddr' = KERNEL_BASE
  /\ pc' = "map"
  /\ UNCHANGED <<procs, slot, created>>

MoreToMap == paddr < FREE_RAM_END

\* One turn of the loop that maps the kernel onto itself.
MapKernelPage ==
  /\ pc = "map"
  /\ MoreToMap
  /\ map_page(page_table, paddr, paddr, RWX)
  /\ paddr' = (paddr + PAGE_SIZE) % WORD
  /\ UNCHANGED <<tables, procs, pc, slot, page_table, created>>

\* Every process gets the page table of the first one.
PublishedTable_Shared == IF created = 0 THEN page_table ELSE procs[0].page_table

PublishedTable == page_table

\* The control block, when everything else has succeeded: first the state, and
\* only then, past pid and sp, the table.
SetState ==
  /\ pc = "map"
  /\ panic = "none"
  /\ ~ MoreToMap
  /\ procs' = [procs EXCEPT ![slot].state = "PROC_RUNNABLE"]
  /\ pc' = "page_table"
  /\ UNCHANGED <<pagingVars, locals, created>>

SetPageTable ==
  /\ pc = "page_table"
  /\ procs' = [procs EXCEPT ![slot].page_table = PublishedTable]
  /\ pc' = "return"
  /\ UNCHANGED <<pagingVars, locals, created>>

Return ==
  /\ pc = "return"
  /\ created' = created + 1
  /\ pc' = IF created' = NumProcs + 1 THEN "yeild" ELSE "find"
  /\ UNCHANGED <<pagingVars, procs, locals>>

create_process ==
  \/ FindSlot \/ AllocPageTable \/ MapKernelPage
  \/ SetState \/ SetPageTable \/ Return

SpacesSpec ==
  SpacesInit /\ [][create_process]_spaceVars /\ WF_spaceVars(create_process)
-----------------------------------------------------------------------------
(* Correctness *)

\* Between two stores of create_process a slot is RUNNABLE and has no table;
\* the others in that state are in use.
Runnable == {i \in DOMAIN procs : procs[i].state = "PROC_RUNNABLE"}
InUse == {i \in Runnable : pc = "page_table" => i # slot}

KernelPages == Page(KERNEL_BASE) .. Page(FREE_RAM_END) - 1

\* The first-level entries the identity mapping needs.
Ranges == {page \div ENTRIES : page \in KernelPages}
PagesPerProcess == 1 + Cardinality(Ranges)
Available == (FREE_RAM_END - FREE_RAM) \div PAGE_SIZE

\* A process in use has its whole address space: every page of the kernel and
\* of free RAM maps to itself and nothing else is mapped.  Creating another
\* process, or failing to, changes nothing about it; and where create_process
\* is not at work every RUNNABLE process is in use.
InUseHaveWholeSpace ==
  /\ \A i \in InUse : \A page \in Pages :
       Walk(procs[i].page_table, page) =
         IF page \in KernelPages THEN [ppn |-> page, flags |-> RWX + PAGE_V]
                                 ELSE Unmapped
  /\ pc \in {"find", "yeild"} => InUse = Runnable /\ Cardinality(Runnable) = created

\* Processes share no page of their page tables, so that a later map_page for
\* one of them cannot change another's address space.
OwnTables ==
  \A i, j \in InUse : i # j =>
    LET pages(k) == {procs[k].page_table} \cup SecondLevel(procs[k].page_table)
    IN  pages(i) \cap pages(j) = {}

\* Page tables cost exactly one page and one more per 4 MB range touched:
\* memory runs out only when there is really too little for the processes.
Footprint ==
  /\ pc \in {"find", "yeild"} => Cardinality(blocks) = created * PagesPerProcess
  /\ panic # "none" => (created + 1) * PagesPerProcess > Available

\* kernel_main gets to its call of yeild if memory and slots are sufficient;
\* otherwise it stops in the PANIC that says which of them is not.
CreationEnds ==
  LET enough == (NumProcs + 1) * PagesPerProcess <= Available
      slots  == NumProcs < PROCS_MAX
  IN  /\ enough /\ slots => <>(pc = "yeild")
      /\ enough /\ ~ slots => <>[](pc = "no_slot")
      /\ ~ enough /\ slots => <>[](panic = "out of memory")
=============================================================================
