----------------------------- MODULE PagedKernel -----------------------------
(***************************************************************************)
(* The page-tables kernel as a whole.  Scheduler gives its processes,      *)
(* AddressSwitch the asm block of yeild, ProcessSpaces the page tables     *)
(* create_process builds and TrapEntry its kernel_entry and handle_trap:   *)
(* the same code, in one machine with one process table and one PANIC.  An *)
(* exception may be taken before any step: while a page table is half made *)
(* or a control block half filled, between the instructions of the asm     *)
(* block, or under any table; the hardware caches translations at any      *)
(* moment, in the trap handler too.                                        *)
(***************************************************************************)
EXTENDS TrapEntry

CONSTANTS ENTRIES, FLAGS, KERNEL_BASE, FREE_RAM, FREE_RAM_END, RWX, RamGarbage

\* As in ProcessSpaces, with a page as long as a table and a word long enough
\* for every page: what the linker script and the definitions of kernel.h give.
ASSUME PagedAssumption ==
  /\ ENTRIES \in Nat \ {0}
  /\ FLAGS \in Nat /\ FLAGS > 1 /\ FLAGS % 2 = 0
  /\ KERNEL_BASE \in Nat /\ KERNEL_BASE <= FREE_RAM
  /\ FREE_RAM \in Nat /\ FREE_RAM <= FREE_RAM_END
  /\ FREE_RAM_END \in Nat /\ FREE_RAM_END + ENTRIES < ENTRIES * ENTRIES * ENTRIES
  /\ \A a \in {KERNEL_BASE, FREE_RAM, FREE_RAM_END} : a % ENTRIES = 0
  /\ RWX \in 0 .. FLAGS - 1 /\ RWX % 2 = 0
  /\ RamGarbage \subseteq 0 .. ENTRIES * ENTRIES * FLAGS - 1

VARIABLES
  satp, tlb, asm,                          \* as in AddressSwitch
  next_paddr, blocks, memory, tables,      \* as in PageTables
  creation,                                \* where create_process is
  page_table, paddr,                       \* its locals
  spaces                                   \* state and page_table in procs[i]

switchState == <<satp, tlb, asm>>
ramState ==
  <<next_paddr, blocks, memory, tables, creation, page_table, paddr, spaces>>
pagedVars == <<allVars, switchState, ramState>>

Switch == INSTANCE AddressSwitch

\* Processes kernel_main has created, idle included.
created == IF idle_proc = NULL THEN 0 ELSE made + 1

Spaces == INSTANCE ProcessSpaces WITH
  PAGE_SIZE <- ENTRIES, WORD <- ENTRIES * ENTRIES * ENTRIES,
  Contents <- 0 .. ENTRIES * ENTRIES * FLAGS - 1, Garbage <- RamGarbage,
  Requests <- {1}, VAddrs <- {}, PAddrs <- {}, FlagSets <- {RWX},
  procs <- spaces, pc <- creation, slot <- proc

\* Types: those of the modules, with the one PANIC they share; their halves of
\* struct process are one table.
PagedTypeOK ==
  /\ pc # KM("memset") => \A i \in Slots : spaces[i].state = procs[i].state
  /\ TrapTypeOK
  /\ Switch!SwitchTypeOK
  /\ panic \in {"no free process slots", "unreachable here"} \/ Spaces!SpacesTypeOK

PagedInit ==
  /\ TrapInit
  /\ satp = NULL /\ tlb = {} /\ asm = "sfence"
  /\ Spaces!PagingInit
  /\ creation = "find"
  /\ page_table = NULL /\ paddr = 0
  /\ spaces = [i \in Slots |-> [state |-> "PROC_UNUSED", page_table |-> NULL]]

Creating == pc \in {KM("create_idle"), KM("create")} \cup CreateLabels

\* create_process, in the order of its statements.  The search for a slot and
\* the words of the new context are one step.
FindSlot ==
  /\ entry = "idle"
  /\ pc \in {KM("create_idle"), KM("create")}
  /\ IF Free = {} THEN UNCHANGED vars ELSE CreateIdle \/ Create
  /\ Spaces!FindSlot
  /\ UNCHANGED <<trapVars, switchState>>

NoSlot ==
  /\ entry = "idle"
  /\ creation = "no_slot"
  /\ NoFreeSlot
  /\ UNCHANGED <<trapVars, switchState, ramState>>

\* alloc_pages and the calls of map_page.  Out of memory is a PANIC like any
\* other.
BuildSpace ==
  /\ entry = "idle"
  /\ pc = KM("pid")
  /\ UNCHANGED <<bss, cpu, csrs, local, console, trapVars, switchState>>
  /\ Spaces!AllocPageTable \/ Spaces!MapKernelPage
  /\ pc' = IF panic' = "none" THEN pc ELSE KM("halt")

\* The control block, a field at a time: pid, state, sp, page_table.
FillControlBlock ==
  /\ entry = "idle"
  /\ \/ SetPid /\ creation = "map" /\ ~ Spaces!MoreToMap /\ UNCHANGED ramState
     \/ SetState /\ Spaces!SetState
     \/ SetSp /\ UNCHANGED ramState
     \/ pc = KM("return") /\ UNCHANGED vars /\ Spaces!SetPageTable
  /\ UNCHANGED <<trapVars, switchState>>

ReturnProcess ==
  /\ entry = "idle"
  /\ ReturnIdle \/ Return
  /\ Spaces!Return
  /\ UNCHANGED <<trapVars, switchState>>

\* Any other statement: kernel_main, yeild with its asm block, the processes.
Run ==
  /\ entry = "idle"
  /\ ~ Creating
  /\ Switch!Sfence \/ Switch!SetSatp \/ Switch!SfenceAgain \/ Switch!Execute
  /\ UNCHANGED <<trapVars, ramState>>

Exception ==
  /\ \E cause \in Causes : Raise(cause)
  /\ UNCHANGED <<switchState, ramState>>

HandleTrap ==
  /\ kernel_entry \/ handle_trap
  /\ UNCHANGED <<switchState, ramState>>

CacheTranslation ==
  /\ Switch!CacheTranslation
  /\ UNCHANGED <<trapVars, ramState>>

create_process_paged ==
  FindSlot \/ NoSlot \/ BuildSpace \/ FillControlBlock \/ ReturnProcess

Hart == create_process_paged \/ Run \/ HandleTrap
PagedNext == Hart \/ Exception \/ CacheTranslation

\* The hart does not stop; exceptions and refills of the TLB need not happen.
PagedSpec == PagedInit /\ [][PagedNext]_pagedVars /\ WF_pagedVars(Hart)
-----------------------------------------------------------------------------
(* Correctness *)

\* "/ PAGE_SIZE" left out.
SatpTable_Address(i) == (spaces[i].page_table * ENTRIES) % (ENTRIES * ENTRIES * ENTRIES)

\* The table the hardware walks for SATP_SV32 | (page_table / PAGE_SIZE).
SatpTable(i) == (spaces[i].page_table \div ENTRIES) * ENTRIES

\* Whatever table the hardware may use at any moment, satp's or one with
\* translations left in the TLB, it finds every page of the kernel - its code,
\* the process table with all stacks, the boot stack, the page tables - at its
\* own address with all rights.  So neither yeild, which goes on on the old
\* stack under the new table, nor kernel_entry, wherever it cuts in, can fault
\* on a page; and the store below address 0 made with a sscratch of 0 does.
KernelAlwaysMapped ==
  \A i \in (tlb \cup {satp}) \ {NULL} : \A page \in Spaces!Pages :
    Spaces!Walk(SatpTable(i), page) =
      IF page \in Spaces!KernelPages
        THEN [ppn |-> page, flags |-> RWX + Spaces!PAGE_V]
        ELSE Spaces!Unmapped

\* A process in use has a space of its own and keeps it, whatever happens
\* later, an exception at any step of the creation of the next one included:
\* only the slot create_process stands between the stores of state and of
\* page_table in may be RUNNABLE without a table, and where yeild is at work
\* there is none.  The exception, handled on the boot stack, damages no context.
CreatedStayComplete ==
  /\ Spaces!InUseHaveWholeSpace /\ Spaces!OwnTables
  /\ pc \in YeildLabels \cup BodyLabels => Spaces!InUse = 0 .. made
  /\ Creating => ContextsIntact

\* The kernel serves every process for ever, unless an exception is reported;
\* with too little memory or a slot too few it stops in the PANIC that says
\* so, and no process ever prints.
KernelOutcome ==
  LET memory_suffices == (NumProcs + 1) * Spaces!PagesPerProcess <= Spaces!Available
      silent == [](console = <<0, "nothing">>)
  IN  \/ <>(report # "none")
      \/ IF ~ memory_suffices THEN silent /\ <>[](panic = "out of memory")
         ELSE IF NumProcs >= PROCS_MAX
           THEN silent /\ <>[](panic = "no free process slots")
           ELSE EveryProcessPrints
=============================================================================
