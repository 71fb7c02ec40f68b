------------------------- MODULE PagedKernel_proof -------------------------
(***************************************************************************)
(* Proofs about the page-tables kernel as a whole: what is proved of its   *)
(* scheduler, its traps and its page tables one by one survives their      *)
(* being one machine, and the tables the hardware uses map the kernel.     *)
(***************************************************************************)
EXTENDS PagedKernel, TrapEntry_proof

\* The theorems about page tables, for the tables of this kernel.
SP == INSTANCE ProcessSpaces_proof WITH
  PAGE_SIZE <- ENTRIES, WORD <- ENTRIES * ENTRIES * ENTRIES,
  Contents <- 0 .. ENTRIES * ENTRIES * FLAGS - 1, Garbage <- RamGarbage,
  Requests <- {1}, VAddrs <- {}, PAddrs <- {}, FlagSets <- {RWX},
  procs <- spaces, pc <- creation, slot <- proc

\* What those theorems assume holds of this kernel.
LEMMA Assumptions ==
  SP!AllocatorAssumption /\ SP!PagingAssumption /\ SP!SpacesAssumption
<1> DEFINE W == ENTRIES * ENTRIES * ENTRIES
           E == ENTRIES * ENTRIES * FLAGS
<1>1. W \in Nat \ {0} /\ E \in Nat \ {0}
  <2>1. PICK e \in Nat : e = ENTRIES * ENTRIES
    BY PagedAssumption
  <2>2. e > 0
    BY <2>1, PagedAssumption
  <2>3. e * ENTRIES \in Nat /\ e * FLAGS \in Nat /\ e * ENTRIES > 0 /\ e * FLAGS > 0
    BY <2>2, PagedAssumption
  <2> QED
    BY <2>1, <2>3
<1>2. FREE_RAM_END + ENTRIES < W /\ RamGarbage \subseteq 0 .. E - 1
  BY PagedAssumption
<1>3. 1 * ENTRIES = ENTRIES
  BY PagedAssumption
<1> HIDE DEF W, E
<1>4. 0 \in 0 .. E - 1 /\ FREE_RAM_END < W
  BY <1>1, <1>2, PagedAssumption
<1>5. SP!AllocatorAssumption
  BY <1>1, <1>2, <1>3, <1>4, PagedAssumption DEF SP!AllocatorAssumption, W, E
<1>6. SP!PagingAssumption
  BY <1>2, PagedAssumption DEF SP!PagingAssumption, SP!PAGE_V, SP!Addresses, W, E
<1>7. SP!SpacesAssumption
  BY PagedAssumption, SchedulerAssumption DEF SP!SpacesAssumption
<1> QED
  BY <1>5, <1>6, <1>7

-----------------------------------------------------------------------------
(* PagedKernel and the proofs about page tables each have an instance of   *)
(* ProcessSpaces, with the same substitutions: they are the same.          *)

LEMMA SameTables ==
  /\ \A t, page : Spaces!Walk(t, page) = SP!Walk(t, page)
  /\ \A t : Spaces!SecondLevel(t) = SP!SecondLevel(t)
  /\ Spaces!Pages = SP!Pages /\ Spaces!KernelPages = SP!KernelPages
  /\ Spaces!Runnable = SP!Runnable /\ Spaces!InUse = SP!InUse
  /\ Spaces!Unmapped = SP!Unmapped
<1> USE DEF Spaces!Valid, SP!Valid, Spaces!Target, SP!Target, Spaces!Page, SP!Page,
            Spaces!Unmapped, SP!Unmapped, Spaces!PAGE_V, SP!PAGE_V
<1>1. \A t, page : Spaces!Walk(t, page) = SP!Walk(t, page)
  BY DEF Spaces!Walk, SP!Walk, Spaces!Decoded, SP!Decoded
<1>2. \A t : Spaces!SecondLevel(t) = SP!SecondLevel(t)
  BY DEF Spaces!SecondLevel, SP!SecondLevel
<1>3. Spaces!Pages = SP!Pages /\ Spaces!KernelPages = SP!KernelPages
  BY DEF Spaces!Pages, SP!Pages, Spaces!KernelPages, SP!KernelPages
<1>4. Spaces!Runnable = SP!Runnable /\ Spaces!InUse = SP!InUse
  BY DEF Spaces!Runnable, SP!Runnable, Spaces!InUse, SP!InUse
<1> QED
  BY <1>1, <1>2, <1>3, <1>4

LEMMA SameProperties ==
  /\ Spaces!InUseHaveWholeSpace <=> SP!InUseHaveWholeSpace
  /\ Spaces!OwnTables <=> SP!OwnTables
  /\ Spaces!SpacesTypeOK <=> SP!SpacesTypeOK
<1>1. Spaces!InUseHaveWholeSpace <=> SP!InUseHaveWholeSpace
  <2>1. Spaces!Cardinality(SP!Runnable) = SP!Cardinality(SP!Runnable)
    BY DEF Spaces!Cardinality, SP!Cardinality
  <2> QED
    BY <2>1, SameTables
       DEF Spaces!InUseHaveWholeSpace, SP!InUseHaveWholeSpace, Spaces!PAGE_V, SP!PAGE_V
<1>2. Spaces!OwnTables <=> SP!OwnTables
  BY SameTables DEF Spaces!OwnTables, SP!OwnTables
<1>3. Spaces!SpacesTypeOK <=> SP!SpacesTypeOK
  BY DEF Spaces!SpacesTypeOK, SP!SpacesTypeOK, Spaces!PagingTypeOK, SP!PagingTypeOK,
         Spaces!Addresses, SP!Addresses, Spaces!NULL, SP!NULL, Spaces!Slots, SP!Slots
<1> QED
  BY <1>1, <1>2, <1>3

LEMMA SameFree == Spaces!Free = SP!Free /\ Spaces!Min(Spaces!Free) = SP!Min(SP!Free)
<1>1. Spaces!Free = SP!Free
  BY DEF Spaces!Free, SP!Free, Spaces!Slots, SP!Slots
<1> QED
  BY <1>1 DEF Spaces!Min, SP!Min

LEMMA SameVars == Spaces!pagingVars = SP!pagingVars
BY DEF Spaces!pagingVars, SP!pagingVars, Spaces!vars, SP!vars

LEMMA SameFindSlot == Spaces!FindSlot => SP!FindSlot
BY SameFree, SameVars DEF Spaces!FindSlot, SP!FindSlot, Spaces!pagingVars, SP!pagingVars, Spaces!vars, SP!vars

LEMMA SameAlloc == Spaces!AllocPageTable => SP!AllocPageTable
BY DEF Spaces!AllocPageTable, SP!AllocPageTable, Spaces!NewTable, SP!NewTable, Spaces!AllocPages, SP!AllocPages, Spaces!OutOfMemory, SP!OutOfMemory, Spaces!Fits, SP!Fits, Spaces!Advance, SP!Advance, Spaces!NewBlock, SP!NewBlock, Spaces!Cleared, SP!Cleared, Spaces!Bytes, SP!Bytes, Spaces!Region, SP!Region,
 Spaces!Addresses, SP!Addresses

LEMMA SameSetState == Spaces!SetState => SP!SetState
BY SameVars DEF Spaces!SetState, SP!SetState, Spaces!MoreToMap, SP!MoreToMap, Spaces!locals,
   SP!locals, Spaces!pagingVars, SP!pagingVars, Spaces!vars, SP!vars

LEMMA SameSetPageTable == Spaces!SetPageTable => SP!SetPageTable
BY SameVars DEF Spaces!SetPageTable, SP!SetPageTable, Spaces!PublishedTable,
   SP!PublishedTable, Spaces!locals, SP!locals, Spaces!pagingVars, SP!pagingVars,
   Spaces!vars, SP!vars

LEMMA SameReturn == Spaces!Return => SP!Return
BY SameVars DEF Spaces!Return, SP!Return, Spaces!locals, SP!locals, Spaces!pagingVars,
   SP!pagingVars, Spaces!vars, SP!vars

LEMMA SameMap == Spaces!MapKernelPage => SP!MapKernelPage
<1> USE DEF Spaces!Page, SP!Page, Spaces!Vpn1, SP!Vpn1, Spaces!Vpn0, SP!Vpn0, Spaces!PAGE_V, SP!PAGE_V,
            Spaces!Valid, SP!Valid, Spaces!Entry, SP!Entry, Spaces!Target, SP!Target,
            Spaces!Aligned, SP!Aligned
<1>1. \A n : /\ Spaces!Fits(n) <=> SP!Fits(n)
             /\ Spaces!Advance(n) = SP!Advance(n) /\ Spaces!NewBlock(n) = SP!NewBlock(n)
  BY DEF Spaces!Fits, SP!Fits, Spaces!Advance, SP!Advance, Spaces!Bytes, SP!Bytes,
         Spaces!NewBlock, SP!NewBlock
<1>2. \A b : Spaces!Cleared(b) = SP!Cleared(b)
  BY DEF Spaces!Cleared, SP!Cleared, Spaces!Region, SP!Region, Spaces!Bytes, SP!Bytes,
         Spaces!Addresses, SP!Addresses
<1>3. \A mem, t, v, p, f : Spaces!StoreLeaf(mem, t, v, p, f) = SP!StoreLeaf(mem, t, v, p, f)
  BY DEF Spaces!StoreLeaf, SP!StoreLeaf
<1>4. \A mem, t, v, p : Spaces!Installed(mem, t, v, p) = SP!Installed(mem, t, v, p)
  BY DEF Spaces!Installed, SP!Installed
<1>5. ASSUME NEW t, NEW v, NEW p, NEW f, Spaces!map_page(t, v, p, f)
      PROVE  SP!map_page(t, v, p, f)
  <2>1. Spaces!Unaligned(v, p) => SP!Unaligned(v, p)
    BY DEF Spaces!Unaligned, SP!Unaligned
  <2>2. Spaces!MapInExistingTable(t, v, p, f) => SP!MapInExistingTable(t, v, p, f)
    BY <1>3 DEF Spaces!MapInExistingTable, SP!MapInExistingTable
  <2>3. Spaces!MapInNewTable(t, v, p, f) => SP!MapInNewTable(t, v, p, f)
    BY <1>1, <1>2, <1>3, <1>4 DEF Spaces!MapInNewTable, SP!MapInNewTable
  <2>4. Spaces!NoPageForTable(t, v) => SP!NoPageForTable(t, v)
    BY <1>1 DEF Spaces!NoPageForTable, SP!NoPageForTable,
                Spaces!OutOfMemory, SP!OutOfMemory
  <2> QED
    BY <1>5, <2>1, <2>2, <2>3, <2>4 DEF Spaces!map_page, SP!map_page
<1>6. Spaces!MoreToMap <=> SP!MoreToMap
  BY DEF Spaces!MoreToMap, SP!MoreToMap
<1> HIDE DEF Spaces!Aligned, SP!Aligned
<1> QED
  BY <1>5, <1>6 DEF Spaces!MapKernelPage, SP!MapKernelPage

LEMMA SameInit == PagedInit => SP!SpacesInit
BY DEF PagedInit, SP!SpacesInit, Spaces!PagingInit, SP!PagingInit, Spaces!NULL, SP!NULL,
       SP!Slots, Slots, NULL, created, TrapInit, Init, Spaces!Addresses, SP!Addresses

\* So have it and AddressSwitch one of the scheduler.
LEMMA SameNext == Switch!Next => Next
<1> USE DEF Switch!Slots, Slots, Switch!Procs, Procs, Switch!Y, Y, Switch!KM, KM,
            Switch!Body, Body, Switch!YEILD, YEILD, Switch!FRAME, FRAME, Switch!SReg, SReg,
            Switch!bss, bss, Switch!cpu, cpu, Switch!csrs, csrs, Switch!local, local
<1>1. Switch!KernelMain => KernelMain
  <2>1. Switch!ClearBss => ClearBss
    BY DEF Switch!ClearBss, ClearBss, Switch!NullSp, NullSp, Switch!NULL, NULL,
           Switch!Stacks, Stacks, Switch!BOOT, BOOT
  <2>2. Switch!SetTrapVector => SetTrapVector
    BY DEF Switch!SetTrapVector, SetTrapVector
  <2>3. Switch!Free = Free /\ Switch!FirstFree = FirstFree
    BY DEF Switch!Free, Free, Switch!FirstFree, FirstFree, Switch!Min, Min
  <2>4. \A start : Switch!CreateProcess(start) => CreateProcess(start)
    BY <2>3 DEF Switch!CreateProcess, CreateProcess, Switch!InitialContext, InitialContext
  <2>5. Switch!CreateIdle \/ Switch!Create => CreateIdle \/ Create
    BY <2>3, <2>4 DEF Switch!CreateIdle, CreateIdle, Switch!Create, Create
  <2>6. /\ Switch!SetPid => SetPid
        /\ Switch!SetState \/ Switch!SetSp => SetState \/ SetSp
        /\ Switch!SetIdlePid => SetIdlePid
    BY DEF Switch!SetPid, SetPid, Switch!NewPid, NewPid, Switch!SetState, SetState,
           Switch!SetSp, SetSp, Switch!SetIdlePid, SetIdlePid, Switch!Store, Store
  <2>7. /\ Switch!NoFreeSlot => NoFreeSlot
        /\ Switch!ReturnIdle \/ Switch!Return => ReturnIdle \/ Return
        /\ Switch!SetIdleCurrent => SetIdleCurrent
    BY <2>3 DEF Switch!NoFreeSlot, NoFreeSlot, Switch!ReturnIdle, ReturnIdle, Switch!Return,
                Return, Switch!SetIdleCurrent, SetIdleCurrent, Switch!NULL, NULL
  <2>8. Switch!StartScheduling \/ Switch!Unreachable => StartScheduling \/ Unreachable
    BY DEF Switch!StartScheduling, StartScheduling, Switch!Unreachable, Unreachable
  <2> QED
    BY <2>1, <2>2, <2>5, <2>6, <2>7, <2>8
       DEF Switch!KernelMain, KernelMain, Switch!create_process, create_process
<1>2. Switch!Yeild => Yeild
  <2>1. Switch!Hits = Hits /\ \A i : Switch!Candidate(i) = Candidate(i)
    BY DEF Switch!Hits, Hits, Switch!Candidate, Candidate, Switch!Eligible, Eligible
  <2>2. Switch!FirstHit = FirstHit
    BY <2>1 DEF Switch!FirstHit, FirstHit, Switch!Min, Min
  <2>3. Switch!Pick => Pick
    BY <2>1, <2>2 DEF Switch!Pick, Pick
  <2>4. Switch!SetSscratch \/ Switch!SetCurrProc => SetSscratch \/ SetCurrProc
    BY DEF Switch!SetSscratch, SetSscratch, Switch!TrapStack, TrapStack, Switch!Top, Top,
           Switch!SetCurrProc, SetCurrProc
  <2>5. Switch!SaveContext => SaveContext
    BY DEF Switch!SaveContext, SaveContext, Switch!SwitchedOut, SwitchedOut,
           Switch!PushContext, PushContext, Switch!ContextWords, ContextWords
  <2>6. Switch!RestoreContext => RestoreContext
    BY DEF Switch!RestoreContext, RestoreContext, Switch!SavedRa, SavedRa,
           Switch!SavedSRegs, SavedSRegs
  <2> QED
    BY <2>3, <2>4, <2>5, <2>6 DEF Switch!Yeild, Yeild
<1>3. ASSUME NEW p \in Procs, Switch!Entry(p) PROVE Entry(p)
  <2>1. \A d : Switch!Compute(d) => Compute(d)
    BY DEF Switch!Compute, Compute
  <2>2. Switch!Start(p) => Start(p)
    BY <2>1 DEF Switch!Start, Start
  <2>3. Switch!Delay(p) => Delay(p)
    BY <2>1 DEF Switch!Delay, Delay
  <2>4. Switch!Putchar(p) \/ Switch!CallYeild(p) => Putchar(p) \/ CallYeild(p)
    BY DEF Switch!Putchar, Putchar, Switch!CallYeild, CallYeild
  <2> QED
    BY <1>3, <2>2, <2>3, <2>4 DEF Switch!Entry, Entry
<1> QED
  BY <1>1, <1>2, <1>3 DEF Switch!Next, Next
-----------------------------------------------------------------------------
(* The inductive invariant.                                                *)

\* The PANICs of the scheduler; the others are in the page tables' code.
SchedulerPanics == {"no free process slots", "unreachable here"}

\* What holds of scheduler and traps holds here, until memory runs out.
KernelInv ==
  IF panic \in SchedulerPanics \cup {"none"} THEN TrapInv
  ELSE TrapTypeOK /\ pc = KM("halt") /\ entry = "idle" /\ report = "none"

\* What holds of page tables and address spaces.  Their module knows no PANIC
\* of the scheduler, after which nothing is built any more.
MemoryInv ==
  /\ panic \in SchedulerPanics \/ SP!SpacesInv
  /\ SP!InUseHaveWholeSpace /\ SP!OwnTables
  /\ \A i \in SP!InUse : SatpTable(i) = spaces[i].page_table

\* The scheduler and create_process see one table of processes.
OneTable ==
  /\ DOMAIN spaces = Slots
  /\ IF pc = KM("memset") THEN \A i \in Slots : spaces[i].state = "PROC_UNUSED"
     ELSE \A i \in Slots : spaces[i].state = procs[i].state
  /\ pc \in {KM("memset"), KM("stvec"), KM("create_idle")} => idle_proc = NULL
  /\ creation = "page_table" => pc \in CreateLabels

\* Where yeild can choose it, a process is in use.
ServingInv == pc \in YeildLabels \cup BodyLabels => SP!InUse = 0 .. made

\* Only tables of processes in use are installed, or cached.
HardwareInv ==
  /\ satp \in SP!InUse \cup {NULL}
  /\ tlb \subseteq SP!InUse
  /\ asm \in {"sfence", "satp", "sfence again", "sscratch"}

Boot ==
  {KM("memset"), KM("stvec"), KM("create_idle"), KM("create")}
    \cup CreateLabels \cup IdleLabels

\* Before the first yeild there is the boot stack and the sscratch of reset;
\* an exception is handled on the boot stack, away from contexts just laid.
BootInv ==
  pc \in Boot =>
    /\ made \in 0 .. PROCS_MAX - 1
    /\ sp.base \in {BOOT, NULL} /\ sscratch.base \in {BOOT, NULL}
    /\ Creating => ContextsIntact

PagedInv ==
  KernelInv /\ MemoryInv /\ OneTable /\ ServingInv /\ HardwareInv /\ BootInv
-----------------------------------------------------------------------------
(* The scheduler and the traps.                                            *)

\* create_process is busy with page tables only while all is well, and its
\* building leaves scheduler and traps alone unless it panics.
LEMMA BuildSpaceSeen ==
  ASSUME PagedInv, BuildSpace
  PROVE  /\ TrapInv /\ SchedulerInv /\ panic = "none" /\ SP!SpacesInv /\ SP!SpacesInv'
         /\ SP!AllocPageTable \/ SP!MapKernelPage
         /\ UNCHANGED <<bss, cpu, csrs, local, console, trapVars, switchState, spaces>>
         /\ pc = KM("pid")
         /\ \/ panic' = "none" /\ pc' = pc
            \/ panic' \notin SchedulerPanics \cup {"none"} /\ pc' = KM("halt")
<1>1. /\ entry = "idle" /\ pc = KM("pid")
      /\ UNCHANGED <<bss, cpu, csrs, local, console, trapVars, switchState>>
      /\ Spaces!AllocPageTable \/ Spaces!MapKernelPage
      /\ pc' = IF panic' = "none" THEN pc ELSE KM("halt")
  BY DEF BuildSpace
<1>2. TrapInv
  BY <1>1 DEF PagedInv, KernelInv, KM
<1>3. SchedulerInv /\ panic = "none"
  BY <1>1, <1>2 DEF TrapInv, SchedulerInv, ControlInv, KM
<1>4. SP!SpacesInv
  BY <1>3 DEF PagedInv, MemoryInv, SchedulerPanics
<1>5. SP!AllocPageTable \/ SP!MapKernelPage
  BY <1>1, SameAlloc, SameMap
<1>6. SP!SpacesInv'
  BY <1>4, <1>5, Assumptions, SP!AllocPageTableInv, SP!MapKernelPageInv
<1>7. panic' \in {"none", "out of memory", "unaligned vaddr", "unaligned paddr"}
  BY <1>6 DEF SP!SpacesInv, SP!SpacesTypeOK, SP!PagingTypeOK
<1>8. spaces' = spaces
  BY <1>5 DEF SP!AllocPageTable, SP!MapKernelPage
<1> QED
  BY <1>1, <1>2, <1>3, <1>4, <1>5, <1>6, <1>7, <1>8 DEF SchedulerPanics

\* The steps of create_process that the scheduler and the page tables take
\* together, as one of them sees it.
Together == FindSlot \/ FillControlBlock \/ ReturnProcess

\* Every other step is one of the scheduler's kernel and its traps, or none.
LEMMA OtherStepsSeen ==
  ASSUME [PagedNext]_pagedVars, ~ BuildSpace
  PROVE  [TrapNext]_allVars
<1>1. CASE NoSlot
  BY <1>1 DEF NoSlot, TrapNext, Execute, Next, KernelMain, create_process
<1>2. CASE Together
  <2>1. (entry = "idle" /\ create_process) \/ UNCHANGED vars
    BY <1>2 DEF Together, FindSlot, FillControlBlock, ReturnProcess, create_process
  <2>2. UNCHANGED trapVars
    BY <1>2 DEF Together, FindSlot, FillControlBlock, ReturnProcess
  <2> QED
    BY <2>1, <2>2 DEF TrapNext, Execute, Next, KernelMain, allVars
<1>3. CASE Run
  <2>1. CASE Switch!Execute
    BY <1>3, <2>1, SameNext DEF Run, Switch!Execute, TrapNext, Execute
  <2>2. CASE Switch!Sfence \/ Switch!SetSatp \/ Switch!SfenceAgain
    <3>1. UNCHANGED vars
      BY <2>2 DEF Switch!Sfence, Switch!SetSatp, Switch!SfenceAgain, Switch!vars, vars,
         Switch!bss, bss, Switch!cpu, cpu, Switch!csrs, csrs, Switch!local, local
    <3> QED
      BY <1>3, <3>1 DEF Run, allVars
  <2> QED
    BY <1>3, <2>1, <2>2 DEF Run
<1>4. CASE Exception \/ HandleTrap
  BY <1>4 DEF Exception, HandleTrap, TrapNext
<1>5. CASE CacheTranslation
  BY <1>5 DEF CacheTranslation, Switch!CacheTranslation, Switch!vars, vars, allVars,
     Switch!bss, bss, Switch!cpu, cpu, Switch!csrs, csrs, Switch!local, local
<1>6. CASE UNCHANGED pagedVars
  BY <1>6 DEF pagedVars
<1> QED
  BY <1>1, <1>2, <1>3, <1>4, <1>5, <1>6 DEF PagedNext, Hart, create_process_paged, Together

\* After a PANIC of the page tables' code nothing moves.
LEMMA HaltIsFinal ==
  ASSUME pc = KM("halt"), entry = "idle", [TrapNext]_allVars
  PROVE  UNCHANGED allVars
<1>1. ~ Execute
  BY DEF Execute, Next, KernelMain, Yeild, Entry, ClearBss, SetTrapVector, create_process,
     CreateIdle, Create, NoFreeSlot, SetPid, SetState, SetSp, ReturnIdle, Return, SetIdlePid,
     SetIdleCurrent, Store, StartScheduling, Unreachable, Pick, SetSscratch, SetCurrProc,
     SaveContext, RestoreContext, Start, Putchar, CallYeild, Delay, KM, Y, YEILD, Body, Procs
<1> QED
  BY <1>1 DEF TrapNext, Raise, kernel_entry, handle_trap, SwitchStack, SaveRegisters,
     SaveFaults, SaveSp

LEMMA KernelStep ==
  ASSUME PagedInv, [PagedNext]_pagedVars
  PROVE  KernelInv'
<1>1. CASE BuildSpace
  <2>1. CASE panic' = "none" /\ pc' = pc
    <3>1. UNCHANGED allVars
      BY <1>1, <2>1, BuildSpaceSeen DEF allVars, vars
    <3> QED
      BY <1>1, <2>1, <3>1, BuildSpaceSeen, TrapNextPreservesInv DEF KernelInv
  <2>2. CASE panic' \notin SchedulerPanics \cup {"none"} /\ pc' = KM("halt")
    <3>1. /\ TrapTypeOK /\ UNCHANGED <<sp, entry, scause, report, interrupted>>
          /\ entry = "idle" /\ report = "none"
      <4>1. TrapInv /\ entry = "idle"
        BY <1>1, BuildSpaceSeen DEF BuildSpace
      <4> QED
        BY <1>1, <4>1, BuildSpaceSeen DEF TrapInv, cpu, trapVars
    <3> QED
      BY <2>2, <3>1 DEF KernelInv, TrapTypeOK
  <2> QED
    BY <1>1, <2>1, <2>2, BuildSpaceSeen
<1>2. CASE ~ BuildSpace
  <2>1. [TrapNext]_allVars
    BY <1>2, OtherStepsSeen
  <2>2. CASE panic \in SchedulerPanics \cup {"none"}
    <3>1. TrapInv'
      BY <2>1, <2>2, TrapNextPreservesInv DEF PagedInv, KernelInv
    <3>2. panic' \in SchedulerPanics \cup {"none"}
      <4>1. CASE Execute
        <5>1. SchedulerInv'
          BY <3>1, <4>1 DEF TrapInv, Execute, trapVars
        <5> QED
          BY <5>1 DEF SchedulerInv, TypeOK, SchedulerPanics
      <4>2. CASE ~ Execute
        BY <2>1, <2>2, <4>2 DEF TrapNext, Raise, kernel_entry, handle_trap, SwitchStack,
           SaveRegisters, SaveFaults, SaveSp, allVars, vars
      <4> QED
        BY <4>1, <4>2
    <3> QED
      BY <3>1, <3>2 DEF KernelInv
  <2>3. CASE panic \notin SchedulerPanics \cup {"none"}
    <3>1. UNCHANGED allVars
      BY <2>1, <2>3, HaltIsFinal DEF PagedInv, KernelInv
    <3>2. UNCHANGED <<panic, pc, sp, entry, scause, report, interrupted>>
      BY <3>1 DEF allVars, vars, cpu, trapVars
    <3> QED
      BY <2>3, <3>2 DEF PagedInv, KernelInv, TrapTypeOK
  <2> QED
    BY <2>2, <2>3
<1> QED
  BY <1>1, <1>2
-----------------------------------------------------------------------------
(* Memory, page tables and the table of processes.                         *)

\* What the scheduler's kernel, outside of create_process, leaves to others.
LEMMA OutsideCreation ==
  ASSUME SchedulerInv, Next, ~ Creating
  PROVE  /\ panic' = panic \/ panic' \in SchedulerPanics
         /\ made' = made
         /\ idle_proc' = IF pc = KM("memset") THEN NULL ELSE idle_proc
         /\ IF pc = KM("memset")
              THEN \A i \in Slots : procs'[i].state = "PROC_UNUSED"
              ELSE \A i \in Slots : procs'[i].state = procs[i].state
         /\ proc' = proc
         /\ pc \notin CreateLabels
         /\ pc' \in Boot => pc \in Boot /\ UNCHANGED <<sp, sscratch>>
         /\ pc' # KM("memset")
         /\ pc' \in {KM("stvec"), KM("create_idle")} => pc \in {KM("memset"), KM("stvec")}
<1> USE DEF KM, Y, YEILD, Body, Boot, CreateLabels, IdleLabels
<1>0. pc \notin CreateLabels
  BY DEF Creating
<1>1. CASE ClearBss
  BY <1>1 DEF ClearBss, cpu, csrs, local
<1>2. CASE SetTrapVector
  BY <1>2 DEF SetTrapVector, bss, cpu, local
<1>3. ~ create_process
  BY DEF create_process, CreateIdle, Create, NoFreeSlot, SetPid, SetState, SetSp, ReturnIdle,
     Return, Store, Creating
<1>10. CASE SetIdlePid
  <2>1. \A i \in Slots : procs'[i].state = procs[i].state
    BY <1>10 DEF SetIdlePid, Store, SchedulerInv, TypeOK, Pcb
  <2> QED
    BY <1>10, <2>1 DEF SetIdlePid, Store, cpu, csrs, local
<1>11. CASE SetIdleCurrent
  BY <1>11 DEF SetIdleCurrent, cpu, csrs, local
<1>4. CASE StartScheduling \/ Unreachable
  <2>1. /\ pc \in {KM("yeild"), KM("unreachable")} /\ pc' \in {Y("pick"), KM("halt")}
        /\ UNCHANGED <<procs, idle_proc, made, proc>>
        /\ panic' = panic \/ panic' \in SchedulerPanics
    BY <1>4 DEF StartScheduling, Unreachable, bss, local, SchedulerPanics
  <2>2. pc # KM("memset") /\ pc' \notin Boot
    BY <2>1
  <2> QED
    BY <2>1, <2>2
<1>5. CASE Pick
  <2>1. pc' \notin Boot
    BY <1>5, SchedulerAssumption DEF Pick, SchedulerInv, ControlInv, CalledYeild, Procs
  <2> QED
    BY <1>5, <2>1 DEF Pick, bss
<1>6. CASE SetSscratch \/ SetCurrProc
  BY <1>6 DEF SetSscratch, SetCurrProc, bss, local
<1>7. CASE SaveContext
  <2>1. \A i \in Slots : procs'[i].state = procs[i].state
    BY <1>7 DEF SaveContext, SchedulerInv, TypeOK, Pcb
  <2> QED
    BY <1>7, <2>1 DEF SaveContext, local
<1>8. CASE RestoreContext
  <2>1. pc' \notin Boot
    <3>1. next \in Procs /\ next <= made /\ pc = Y("restore")
      BY <1>8 DEF RestoreContext, SchedulerInv, ControlInv, YeildLabels, Procs
    <3>2. next \in Suspended
      BY <3>1, SchedulerAssumption DEF Suspended, OnCpu, NULL, Procs
    <3>3. /\ procs[next].sp.base = next
          /\ SavedRa(stack[next], procs[next].sp.depth) \in {Body(next, "start"), Body(next, "delay")}
      BY <3>2 DEF SchedulerInv, ContextsIntact
    <3>4. pc' = SavedRa(stack[next], procs[next].sp.depth)
      BY <1>8, <3>3 DEF RestoreContext
    <3> QED
      BY <3>1, <3>3, <3>4 DEF Procs
  <2> QED
    BY <1>8, <2>1 DEF RestoreContext, bss, local
<1>9. ASSUME NEW p \in Procs, Entry(p) PROVE
        /\ panic' = panic /\ made' = made /\ idle_proc' = idle_proc /\ procs' = procs
        /\ proc' = proc
        /\ pc # KM("memset") /\ pc' \notin Boot
  BY <1>9 DEF Entry, Start, Putchar, CallYeild, Delay, bss, local, Procs
<1> QED
  BY <1>0, <1>1, <1>2, <1>3, <1>4, <1>5, <1>6, <1>7, <1>8, <1>9, <1>10, <1>11
     DEF Next, KernelMain, Yeild

\* Steps that neither create nor panic keep the tables of the address spaces.
LEMMA MemoryStays ==
  ASSUME PagedInv, UNCHANGED <<ramState, proc, created>>,
         panic' \in SchedulerPanics \/ panic' = panic
  PROVE  MemoryInv' /\ SP!InUse' = SP!InUse
<1>1. UNCHANGED <<next_paddr, blocks, memory, tables, creation, proc, page_table, paddr,
                  spaces, created>>
  BY DEF ramState
<1>2. SP!InUse' = SP!InUse /\ SP!Runnable' = SP!Runnable
  BY <1>1 DEF SP!InUse, SP!Runnable
<1>3. SP!InUseHaveWholeSpace' /\ SP!OwnTables'
  <2>1. SP!InUseHaveWholeSpace /\ SP!OwnTables
    BY DEF PagedInv, MemoryInv
  <2>2. \A t, page : SP!Walk(t, page)' = SP!Walk(t, page)
    BY <1>1 DEF SP!Walk, SP!Valid, SP!Target, SP!Decoded, SP!Unmapped
  <2>3. \A t : SP!SecondLevel(t)' = SP!SecondLevel(t)
    BY <1>1 DEF SP!SecondLevel, SP!Valid, SP!Target
  <2>4. SP!InUseHaveWholeSpace'
    BY <1>1, <1>2, <2>1, <2>2
       DEF SP!InUseHaveWholeSpace, SP!Pages, SP!KernelPages, SP!Page, SP!Unmapped
  <2>5. SP!OwnTables'
    BY <1>1, <1>2, <2>1, <2>3 DEF SP!OwnTables
  <2> QED
    BY <2>4, <2>5
<1>4. \A i \in SP!InUse' : SatpTable(i)' = spaces'[i].page_table
  BY <1>1, <1>2 DEF PagedInv, MemoryInv, SatpTable
<1>5. panic' \in SchedulerPanics \/ SP!SpacesInv'
  <2> SUFFICES ASSUME panic' \notin SchedulerPanics PROVE SP!SpacesInv'
    OBVIOUS
  <2>1. SP!SpacesInv
    BY DEF PagedInv, MemoryInv
  <2>2. UNCHANGED SP!spaceVars
    BY <1>1 DEF SP!spaceVars, SP!pagingVars, SP!vars, SP!locals
  <2> QED
    BY <2>1, <2>2, SP!SpacesStutter, Assumptions
<1> QED
  BY <1>2, <1>3, <1>4, <1>5 DEF MemoryInv

\* After a step of create_process the properties follow from its invariant.
LEMMA MemoryFromInv == SP!SpacesInv => MemoryInv
<1> SUFFICES ASSUME SP!SpacesInv PROVE MemoryInv
  OBVIOUS
<1>1. SP!OwnTables
  BY SP!InvGivesOwnTables, Assumptions
<1>2. SP!InUseHaveWholeSpace
  BY SP!InvGivesWholeSpaces, Assumptions
<1>3. ASSUME NEW i \in SP!InUse PROVE SatpTable(i) = spaces[i].page_table
  <2>1. PICK t : t = spaces[i].page_table
    OBVIOUS
  <2>2. t \in SP!Bases /\ SP!PoolInv
    BY <1>3, <2>1 DEF SP!SpacesInv, SP!PublishedInv, SP!PagingInv, SP!TreeInv
  <2>3. t \in Nat /\ SP!Aligned(t)
    BY <2>2, SP!PageWords, Assumptions
  <2>4. t = ENTRIES * SP!Page(t)
    BY <2>3, SP!AlignedIsMultiple, Assumptions
  <2> QED
    BY <2>1, <2>3, <2>4, PagedAssumption DEF SatpTable, SP!Page
<1> QED
  BY <1>1, <1>2, <1>3 DEF MemoryInv

LEMMA MemoryFromInvNext == SP!SpacesInv' => MemoryInv'
BY MemoryFromInv, PTL

\* The steps as memory and the table of processes see them.
LEMMA RunSeen ==
  ASSUME PagedInv, Run
  PROVE  /\ UNCHANGED ramState /\ ~ Creating
         /\ (SchedulerInv /\ Next) \/ UNCHANGED vars
<1>1. UNCHANGED ramState /\ ~ Creating /\ entry = "idle"
  BY DEF Run
<1>2. ~ BuildSpace
  BY <1>1 DEF BuildSpace, Creating, CreateLabels
<1>3. CASE panic \in SchedulerPanics \cup {"none"}
  <2>1. SchedulerInv
    BY <1>1, <1>3 DEF PagedInv, KernelInv, TrapInv
  <2>2. Switch!Execute => Next
    BY SameNext DEF Switch!Execute
  <2>3. Switch!Sfence \/ Switch!SetSatp \/ Switch!SfenceAgain => UNCHANGED vars
    BY DEF Switch!Sfence, Switch!SetSatp, Switch!SfenceAgain, Switch!vars, vars,
       Switch!bss, bss, Switch!cpu, cpu, Switch!csrs, csrs, Switch!local, local
  <2> QED
    BY <1>1, <2>1, <2>2, <2>3 DEF Run
<1>4. CASE panic \notin SchedulerPanics \cup {"none"}
  <2>1. [TrapNext]_allVars
    BY <1>2, OtherStepsSeen DEF PagedNext, Hart
  <2>2. UNCHANGED allVars
    BY <1>4, <2>1, HaltIsFinal DEF PagedInv, KernelInv
  <2> QED
    BY <1>1, <2>2 DEF allVars
<1> QED
  BY <1>3, <1>4

\* What each of the two sees of a step they take together.
LEMMA Halves ==
  ASSUME Together
  PROVE  \/ (CreateIdle \/ Create \/ UNCHANGED vars) /\ SP!FindSlot
         \/ SetPid /\ creation = "map" /\ UNCHANGED ramState
         \/ SetState /\ SP!SetState
         \/ SetSp /\ UNCHANGED ramState
         \/ pc = KM("return") /\ UNCHANGED vars /\ SP!SetPageTable
         \/ (ReturnIdle \/ Return) /\ SP!Return
<1>1. CASE FindSlot
  BY <1>1, SameFindSlot DEF FindSlot
<1>2. CASE FillControlBlock
  BY <1>2, SameSetState, SameSetPageTable DEF FillControlBlock
<1>3. CASE ReturnProcess
  BY <1>3, SameReturn DEF ReturnProcess
<1> QED
  BY <1>1, <1>2, <1>3 DEF Together

\* The stores of pid and of sp are the scheduler's alone.
LEMMA StoresSeen ==
  ASSUME SetPid \/ SetSp
  PROVE  UNCHANGED <<proc, created, panic>>
BY DEF SetPid, SetSp, Store, local, created

LEMMA TogetherSeen ==
  ASSUME PagedInv, Together
  PROVE  /\ SchedulerInv /\ SchedulerInv' /\ SP!SpacesInv /\ SP!SpacesInv'
         /\ pc \in {KM("create_idle"), KM("create")} \cup CreateLabels
         /\ UNCHANGED <<switchState, sscratch>>
<1>1. /\ pc \in {KM("create_idle"), KM("create")} \cup CreateLabels
      /\ UNCHANGED csrs /\ (Next \/ UNCHANGED vars)
  <2>1. CASE FindSlot
    BY <2>1 DEF FindSlot, CreateIdle, Create, CreateProcess, Next, KernelMain,
       create_process, vars
  <2>2. CASE FillControlBlock
    BY <2>2 DEF FillControlBlock, SetPid, SetState, SetSp, Store, Next, KernelMain,
       create_process, vars, CreateLabels
  <2>3. CASE ReturnProcess
    BY <2>3 DEF ReturnProcess, ReturnIdle, Return, Next, KernelMain, create_process,
       CreateLabels
  <2> QED
    BY <2>1, <2>2, <2>3 DEF Together
<1>2. UNCHANGED <<switchState, sscratch>> /\ entry = "idle"
  BY <1>1 DEF Together, FindSlot, FillControlBlock, ReturnProcess, csrs
<1>3. pc # KM("halt")
  BY <1>1 DEF KM, CreateLabels
<1>4. SchedulerInv
  <2>1. TrapInv
    BY <1>3 DEF PagedInv, KernelInv
  <2> QED
    BY <1>2, <2>1 DEF TrapInv
<1>5. panic = "none"
  BY <1>3, <1>4 DEF SchedulerInv, ControlInv
<1>6. SP!SpacesInv
  BY <1>5 DEF PagedInv, MemoryInv, SchedulerPanics
<1>7. SP!SpacesInv'
  <2>1. CASE SP!FindSlot \/ SP!SetState \/ SP!SetPageTable \/ SP!Return
    BY <1>6, <2>1, Assumptions, SP!FindSlotInv, SP!SetStateInv, SP!SetPageTableInv,
       SP!ReturnInv
  <2>2. CASE (SetPid \/ SetSp) /\ UNCHANGED ramState
    <3>1. UNCHANGED SP!spaceVars
      BY <2>2, StoresSeen
         DEF ramState, SP!spaceVars, SP!pagingVars, SP!vars, SP!locals
    <3> QED
      BY <1>6, <3>1, Assumptions, SP!SpacesStutter
  <2> QED
    BY <2>1, <2>2, Halves
<1>8. SchedulerInv'
  BY <1>1, <1>4, NextPreservesInv
<1> QED
  BY <1>1, <1>2, <1>4, <1>6, <1>7, <1>8

LEMMA TrapSeen ==
  ASSUME Exception \/ HandleTrap
  PROVE  /\ UNCHANGED <<ramState, switchState>>
         /\ UNCHANGED <<procs, curr_proc, idle_proc, pc, prev_proc, proc, made, panic>>
<1>1. CASE Exception
  BY <1>1 DEF Exception, Raise, vars, bss, local
<1>2. CASE HandleTrap
  BY <1>2 DEF HandleTrap, kernel_entry, handle_trap, SwitchStack, SaveRegisters,
     SaveFaults, SaveSp, vars, bss, local
<1> QED
  BY <1>1, <1>2

LEMMA HardwareSeen ==
  ASSUME CacheTranslation \/ UNCHANGED pagedVars
  PROVE  UNCHANGED <<vars, trapVars, ramState, satp, asm>>
BY DEF CacheTranslation, Switch!CacheTranslation, Switch!vars, vars, pagedVars, allVars,
   Switch!bss, bss, Switch!cpu, cpu, Switch!csrs, csrs, Switch!local, local, switchState

\* Outside of create_process nothing of the address spaces changes.
LEMMA RunStays ==
  ASSUME PagedInv, Run
  PROVE  MemoryInv' /\ SP!InUse' = SP!InUse
<1>1. UNCHANGED <<ramState, proc, made, idle_proc>>
  <2>1. pc = KM("memset") => idle_proc = NULL
    BY DEF PagedInv, OneTable
  <2> QED
    BY <2>1, RunSeen, OutsideCreation DEF vars, bss, local
<1>2. panic' \in SchedulerPanics \/ panic' = panic
  BY RunSeen, OutsideCreation DEF vars
<1> QED
  BY <1>1, <1>2, MemoryStays DEF created

LEMMA MemoryStep ==
  ASSUME PagedInv, [PagedNext]_pagedVars
  PROVE  MemoryInv'
<1>1. CASE BuildSpace
  BY <1>1, BuildSpaceSeen, MemoryFromInvNext
<1>2. CASE Together
  BY <1>2, TogetherSeen, MemoryFromInvNext
<1>3. CASE NoSlot
  BY <1>3, MemoryStays DEF NoSlot, NoFreeSlot, SchedulerPanics, bss, local, created
<1>4. CASE Run
  BY <1>4, RunStays
<1>5. CASE Exception \/ HandleTrap
  BY <1>5, TrapSeen, MemoryStays DEF created
<1>6. CASE CacheTranslation \/ UNCHANGED pagedVars
  BY <1>6, HardwareSeen, MemoryStays DEF created, vars, bss, local
<1> QED
  BY <1>1, <1>2, <1>3, <1>4, <1>5, <1>6
     DEF PagedNext, Hart, create_process_paged, Together

\* Both halves of struct process are filled in for the same slot.
LEMMA OneTableStep ==
  ASSUME PagedInv, [PagedNext]_pagedVars
  PROVE  OneTable'
<1> USE DEF PagedInv
<1>1. ASSUME DOMAIN spaces' = Slots, pc' # KM("memset"),
             \A i \in Slots : spaces'[i].state = procs'[i].state,
             pc' \in {KM("stvec"), KM("create_idle")} => idle_proc' = NULL,
             creation' = "page_table" => pc' \in CreateLabels
      PROVE  OneTable'
  BY <1>1 DEF OneTable
<1>2. CASE BuildSpace
  <2>1. /\ spaces' = spaces /\ procs' = procs /\ pc = KM("pid") /\ creation' = "map"
        /\ pc' = pc \/ pc' = KM("halt")
    BY <1>2, BuildSpaceSeen DEF bss, SP!AllocPageTable, SP!MapKernelPage
  <2> QED
    BY <1>1, <2>1 DEF OneTable, KM
<1>3. CASE Together
  <2>1. /\ SchedulerInv /\ SP!SpacesInv
        /\ pc \in {KM("create_idle"), KM("create")} \cup CreateLabels
    BY <1>3, TogetherSeen
  <2>2. /\ pc \notin {KM("memset"), KM("stvec")}
        /\ pc \in CreateLabels => pc # KM("create_idle")
    BY <2>1 DEF KM, CreateLabels
  <2>3. /\ DOMAIN spaces = Slots /\ \A i \in Slots : spaces[i].state = procs[i].state
        /\ creation = "page_table" => pc \in CreateLabels
        /\ pc = KM("create_idle") => idle_proc = NULL
    BY <2>2 DEF OneTable
  <2>4. spaces \in [Slots -> [state : {"PROC_UNUSED", "PROC_RUNNABLE"},
                              page_table : SP!Addresses \cup {SP!NULL}]]
        /\ procs \in [Slots -> Pcb]
    BY <2>1 DEF SchedulerInv, TypeOK, SP!SpacesInv, SP!SpacesTypeOK, SP!Slots, Slots
  <2>5. CASE (CreateIdle \/ Create \/ UNCHANGED vars) /\ SP!FindSlot
    <3>1. /\ spaces' = spaces /\ procs' = procs /\ creation' # "page_table"
          /\ pc' = KM("pid") \/ UNCHANGED <<pc, idle_proc>>
      BY <2>5 DEF SP!FindSlot, CreateIdle, Create, CreateProcess, vars, bss
    <3> QED
      BY <1>1, <2>2, <2>3, <3>1 DEF KM
  <2>6. CASE SetPid /\ creation = "map" /\ UNCHANGED ramState
    <3>1. /\ spaces' = spaces /\ creation' = "map" /\ pc' = KM("state")
          /\ procs' = [procs EXCEPT ![proc] = [procs[proc] EXCEPT !.pid = NewPid]]
      BY <2>6 DEF SetPid, Store, ramState
    <3>2. \A i \in Slots : procs'[i].state = procs[i].state
      BY <2>4, <3>1 DEF Pcb
    <3> QED
      BY <1>1, <2>3, <3>1, <3>2 DEF KM
  <2>7. CASE SetState /\ SP!SetState
    <3>1. /\ spaces' = [spaces EXCEPT ![proc].state = "PROC_RUNNABLE"]
          /\ procs' = [procs EXCEPT ![proc] = [procs[proc] EXCEPT !.state = "PROC_RUNNABLE"]]
          /\ pc' = KM("sp")
      BY <2>7 DEF SP!SetState, SetState, Store
    <3>2. \A i \in Slots : spaces'[i].state = procs'[i].state
      BY <2>3, <2>4, <3>1 DEF Pcb
    <3>3. DOMAIN spaces' = Slots
      BY <2>3, <3>1
    <3> QED
      BY <1>1, <3>1, <3>2, <3>3 DEF KM, CreateLabels
  <2>8. CASE SetSp /\ UNCHANGED ramState
    <3>1. /\ spaces' = spaces /\ pc' = KM("return")
          /\ procs' = [procs EXCEPT ![proc] =
                         [procs[proc] EXCEPT !.sp = [base |-> proc, depth |-> FRAME]]]
      BY <2>8 DEF SetSp, Store, ramState
    <3>2. \A i \in Slots : procs'[i].state = procs[i].state
      BY <2>4, <3>1 DEF Pcb
    <3> QED
      BY <1>1, <2>3, <3>1, <3>2 DEF KM, CreateLabels
  <2>9. CASE pc = KM("return") /\ UNCHANGED vars /\ SP!SetPageTable
    <3>1. /\ spaces' = [spaces EXCEPT ![proc].page_table = page_table]
          /\ procs' = procs /\ pc' = KM("return") /\ creation' = "return"
      BY <2>9 DEF SP!SetPageTable, SP!PublishedTable, vars, bss
    <3>2. \A i \in Slots : spaces'[i].state = procs'[i].state
      BY <2>3, <2>4, <3>1
    <3>3. DOMAIN spaces' = Slots
      BY <2>3, <3>1
    <3> QED
      BY <1>1, <3>1, <3>2, <3>3 DEF KM
  <2>10. CASE (ReturnIdle \/ Return) /\ SP!Return
    <3>1. /\ spaces' = spaces /\ procs' = procs /\ creation' # "page_table"
          /\ pc' \in {KM("idle_pid"), KM("create"), KM("yeild")}
      BY <2>10 DEF SP!Return, ReturnIdle, Return, bss
    <3> QED
      BY <1>1, <2>3, <3>1 DEF KM
  <2> QED
    BY <1>3, <2>5, <2>6, <2>7, <2>8, <2>9, <2>10, Halves
<1>4. CASE NoSlot
  <2>1. /\ procs' = procs /\ spaces' = spaces /\ pc' = KM("halt")
        /\ creation' = "no_slot"
        /\ pc \in {KM("create_idle"), KM("create")}
    BY <1>4 DEF NoSlot, NoFreeSlot, bss, ramState
  <2> QED
    BY <1>1, <2>1 DEF OneTable, KM
<1>5. ASSUME UNCHANGED <<procs, idle_proc, pc, spaces, creation>> PROVE OneTable'
  BY <1>5 DEF OneTable
<1>6. CASE Run
  <2>1. UNCHANGED <<spaces, creation>>
    BY <1>6, RunSeen DEF ramState
  <2>2. CASE UNCHANGED vars
    BY <1>5, <2>1, <2>2 DEF vars, bss
  <2>3. CASE SchedulerInv /\ Next /\ ~ Creating
    <3>1. /\ idle_proc' = IF pc = KM("memset") THEN NULL ELSE idle_proc
          /\ IF pc = KM("memset")
               THEN \A i \in Slots : procs'[i].state = "PROC_UNUSED"
               ELSE \A i \in Slots : procs'[i].state = procs[i].state
          /\ pc' # KM("memset") /\ pc \notin CreateLabels
          /\ pc' \in {KM("stvec"), KM("create_idle")} => pc \in {KM("memset"), KM("stvec")}
      BY <2>3, OutsideCreation
    <3>2. \A i \in Slots : spaces'[i].state = procs'[i].state
      BY <2>1, <3>1 DEF OneTable
    <3>3. creation # "page_table" /\ DOMAIN spaces = Slots
      BY <3>1 DEF OneTable
    <3>4. pc' \in {KM("stvec"), KM("create_idle")} => idle_proc' = NULL
      BY <3>1 DEF OneTable
    <3> QED
      BY <1>1, <2>1, <3>1, <3>2, <3>3, <3>4
  <2> QED
    BY <1>6, <2>2, <2>3, RunSeen
<1>7. CASE Exception \/ HandleTrap
  BY <1>5, <1>7, TrapSeen DEF ramState
<1>8. CASE CacheTranslation \/ UNCHANGED pagedVars
  BY <1>5, <1>8, HardwareSeen DEF vars, bss, ramState
<1> QED
  BY <1>2, <1>3, <1>4, <1>6, <1>7, <1>8
     DEF PagedNext, Hart, create_process_paged, Together

\* The scan of yeild finds in the table what create_process has finished.
LEMMA ServingFromInv == SchedulerInv /\ OneTable => ServingInv
<1> SUFFICES ASSUME SchedulerInv, OneTable, pc \in YeildLabels \cup BodyLabels
             PROVE  SP!InUse = 0 .. made
  BY DEF ServingInv
<1>1. pc \notin KernelLabels
  BY LabelsApart DEF YeildLabels
<1>2. /\ pc \notin CreateLabels \cup IdleLabels
      /\ pc \notin {KM("memset"), KM("stvec"), KM("create_idle")}
  BY <1>1 DEF KernelLabels
<1>3. /\ creation # "page_table" /\ DOMAIN spaces = Slots
      /\ \A i \in Slots : spaces[i].state = procs[i].state
  BY <1>2 DEF OneTable
<1>4. /\ \A i \in Slots : procs[i].state = IF i <= made THEN "PROC_RUNNABLE"
                                                        ELSE "PROC_UNUSED"
      /\ made < PROCS_MAX /\ made \in Nat
  <2>1. made \in 0 .. NumProcs /\ made < PROCS_MAX
    BY DEF SchedulerInv, TypeOK, TableInv
  <2> QED
    BY <1>2, <2>1, SchedulerAssumption DEF SchedulerInv, TableInv
<1>5. SP!InUse = {i \in Slots : i <= made}
  BY <1>3, <1>4 DEF SP!InUse, SP!Runnable
<1> QED
  BY <1>4, <1>5, SchedulerAssumption DEF Slots

LEMMA ServingFromInvNext == SchedulerInv' /\ OneTable' => ServingInv'
BY ServingFromInv, PTL

LEMMA ServingStep ==
  ASSUME PagedInv, [PagedNext]_pagedVars
  PROVE  ServingInv'
<1> USE DEF PagedInv
<1>1. ASSUME SchedulerInv' PROVE ServingInv'
  BY <1>1, OneTableStep, ServingFromInvNext
<1>2. ASSUME UNCHANGED <<pc, made>>, SP!InUse' = SP!InUse PROVE ServingInv'
  BY <1>2 DEF ServingInv
<1>3. ASSUME pc' \in {KM("pid"), KM("halt")} PROVE ServingInv'
  BY <1>3, LabelsApart DEF ServingInv, KM, Y, YEILD, YeildLabels, KernelLabels, CreateLabels
<1>4. CASE BuildSpace
  BY <1>3, <1>4, BuildSpaceSeen
<1>5. CASE NoSlot
  BY <1>3, <1>5 DEF NoSlot, NoFreeSlot
<1>6. CASE Together
  BY <1>1, <1>6, TogetherSeen
<1>7. CASE Run
  <2>1. CASE UNCHANGED vars
    BY <1>2, <1>7, <2>1, RunStays DEF vars, local
  <2>2. CASE SchedulerInv /\ Next
    BY <1>1, <2>2, NextPreservesInv
  <2> QED
    BY <1>7, <2>1, <2>2, RunSeen
<1>8. CASE Exception \/ HandleTrap
  BY <1>2, <1>8, TrapSeen, MemoryStays DEF created
<1>9. CASE CacheTranslation \/ UNCHANGED pagedVars
  BY <1>2, <1>9, HardwareSeen, MemoryStays DEF created, vars, bss, local
<1> QED
  BY <1>4, <1>5, <1>6, <1>7, <1>8, <1>9
     DEF PagedNext, Hart, create_process_paged, Together
-----------------------------------------------------------------------------
(* What the hardware may use.                                              *)

LEMMA HardwareStep ==
  ASSUME PagedInv, [PagedNext]_pagedVars
  PROVE  HardwareInv'
<1>1. SP!InUse \subseteq SP!InUse'
  <2>1. CASE Together
    <3>1. SP!SpacesInv
      BY <2>1, TogetherSeen
    <3>2. CASE SP!FindSlot
      BY <3>2 DEF SP!FindSlot, SP!InUse, SP!Runnable
    <3>3. CASE (SetPid \/ SetSp) /\ UNCHANGED ramState
      BY <3>3, StoresSeen, MemoryStays
    <3>4. CASE SP!SetState
      <4>1. proc \in DOMAIN spaces \ SP!Runnable
        BY <3>1, <3>4 DEF SP!SetState, SP!SpacesInv, SP!SpacesTypeOK, SP!PlaceInv
      <4>2. spaces' = [spaces EXCEPT ![proc].state = "PROC_RUNNABLE"] /\ proc' = proc
        BY <3>4 DEF SP!SetState, SP!locals
      <4>3. SP!Runnable \subseteq SP!Runnable' \ {proc}
        BY <4>1, <4>2 DEF SP!Runnable
      <4> QED
        BY <4>2, <4>3 DEF SP!InUse
    <3>5. CASE SP!SetPageTable
      <4>1. /\ spaces' = [spaces EXCEPT ![proc].page_table = page_table]
            /\ creation' # "page_table"
        BY <3>5 DEF SP!SetPageTable, SP!PublishedTable
      <4>2. \A i \in DOMAIN spaces : spaces'[i].state = spaces[i].state
        BY <3>1, <4>1 DEF SP!SpacesInv, SP!SpacesTypeOK
      <4> QED
        BY <4>1, <4>2 DEF SP!InUse, SP!Runnable
    <3>6. CASE SP!Return
      BY <3>6 DEF SP!Return, SP!InUse, SP!Runnable
    <3> QED
      BY <2>1, <3>2, <3>3, <3>4, <3>5, <3>6, Halves
  <2>2. CASE BuildSpace
    <3>1. creation \in {"alloc", "map"} /\ creation' = "map" /\ spaces' = spaces
      BY <2>2, BuildSpaceSeen DEF SP!AllocPageTable, SP!MapKernelPage
    <3> QED
      BY <3>1 DEF SP!InUse, SP!Runnable
  <2>3. CASE NoSlot
    BY <2>3, MemoryStays DEF NoSlot, NoFreeSlot, SchedulerPanics, bss, local, created
  <2>4. CASE Run
    BY <2>4, RunStays
  <2>5. CASE Exception \/ HandleTrap
    BY <2>5, TrapSeen, MemoryStays DEF created
  <2>6. CASE CacheTranslation \/ UNCHANGED pagedVars
    BY <2>6, HardwareSeen, MemoryStays DEF created, vars, bss, local
  <2> QED
    BY <2>1, <2>2, <2>3, <2>4, <2>5, <2>6
       DEF PagedNext, Hart, create_process_paged, Together
<1>2. ASSUME satp' \in SP!InUse \cup {satp, NULL}, tlb' \subseteq SP!InUse \cup tlb,
             asm' \in {"sfence", "satp", "sfence again", "sscratch", asm}
      PROVE  HardwareInv'
  BY <1>1, <1>2 DEF PagedInv, HardwareInv
<1>3. CASE UNCHANGED switchState
  BY <1>2, <1>3 DEF switchState
<1>4. CASE Run
  <2>1. CASE Switch!Execute
    BY <1>2, <2>1 DEF Switch!Execute
  <2>2. CASE Switch!Sfence \/ Switch!SfenceAgain
    BY <1>2, <2>2 DEF Switch!Sfence, Switch!SfenceAgain, Switch!Flushed
  <2>3. CASE Switch!SetSatp
    <3>1. pc = Y("sscratch") /\ satp' = next /\ tlb' = tlb /\ asm' = "sfence again"
          /\ entry = "idle"
      BY <1>4, <2>3 DEF Switch!SetSatp, Switch!Y, Y, Switch!YEILD, YEILD, Run
    <3>2. SchedulerInv
      <4>1. TrapInv
        BY <3>1 DEF PagedInv, KernelInv, Y, KM, YEILD
      <4> QED
        BY <3>1, <4>1 DEF TrapInv
    <3>3. next \in Procs /\ made = NumProcs /\ made < PROCS_MAX
      BY <3>1, <3>2 DEF SchedulerInv, ControlInv, TableInv, YeildLabels
    <3>4. next \in SP!InUse
      <4>1. pc \in YeildLabels
        BY <3>1 DEF YeildLabels
      <4>2. SP!InUse = 0 .. made
        BY <4>1 DEF PagedInv, ServingInv
      <4> QED
        BY <3>3, <4>2, SchedulerAssumption DEF Procs
    <3> QED
      BY <1>2, <3>1, <3>4
  <2> QED
    BY <1>4, <2>1, <2>2, <2>3 DEF Run
<1>5. CASE CacheTranslation
  <2>1. satp # NULL /\ tlb' = tlb \cup {satp} /\ satp' = satp /\ asm' = asm
    BY <1>5 DEF CacheTranslation, Switch!CacheTranslation, Switch!NULL, NULL
  <2>2. satp \in SP!InUse
    BY <2>1 DEF PagedInv, HardwareInv
  <2> QED
    BY <1>2, <2>1, <2>2
<1> QED
  BY <1>3, <1>4, <1>5, BuildSpaceSeen, TogetherSeen, TrapSeen
     DEF PagedNext, Hart, create_process_paged, Together, NoSlot, pagedVars
-----------------------------------------------------------------------------
(* Before the first yeild.                                                 *)

LEMMA IntactAtCreate ==
  ASSUME SchedulerInv, pc \in Boot
  PROVE  ContextsIntact /\ sp = Top(BOOT) /\ made \in 0 .. PROCS_MAX - 1
<1>1. made \in 0 .. NumProcs /\ made < PROCS_MAX
  BY DEF SchedulerInv, TypeOK, TableInv
<1> QED
  BY <1>1, SchedulerAssumption
     DEF SchedulerInv, TableInv, FillingInv, IdleInv, ControlInv, Boot

LEMMA IntactAtCreateNext ==
  ASSUME SchedulerInv', pc' \in Boot
  PROVE  ContextsIntact' /\ sp' = Top(BOOT) /\ made' \in 0 .. PROCS_MAX - 1
<1>1. (SchedulerInv /\ pc \in Boot =>
         ContextsIntact /\ sp = Top(BOOT) /\ made \in 0 .. PROCS_MAX - 1)'
  BY IntactAtCreate, PTL
<1> QED
  BY <1>1 DEF Boot, Top, BOOT, KM

\* A frame on the boot stack touches no process's stack.
LEMMA IntactUnlessOwn ==
  ASSUME ContextsIntact, UNCHANGED <<procs, curr_proc, pc, prev_proc, made>>,
         \A p \in Suspended : stack'[p] = stack[p]
  PROVE  ContextsIntact'
<1>1. Suspended' = Suspended
  BY DEF Suspended, OnCpu
<1> QED
  BY <1>1 DEF ContextsIntact

LEMMA BootStep ==
  ASSUME PagedInv, [PagedNext]_pagedVars
  PROVE  BootInv'
<1> SUFFICES ASSUME pc' \in Boot
             PROVE  /\ made' \in 0 .. PROCS_MAX - 1
                    /\ sp'.base \in {BOOT, NULL} /\ sscratch'.base \in {BOOT, NULL}
                    /\ Creating' => ContextsIntact'
  BY DEF BootInv
<1> USE DEF PagedInv
<1>1. ASSUME pc \in Boot, UNCHANGED <<vars>> PROVE BootInv'
  <2>1. UNCHANGED <<procs, curr_proc, pc, prev_proc, made, stack, sp, sscratch>>
    BY <1>1 DEF vars, bss, cpu, csrs, local
  <2>2. Creating => ContextsIntact'
    BY <1>1, <2>1, IntactUnlessOwn DEF BootInv
  <2> QED
    BY <1>1, <2>1, <2>2 DEF BootInv, Creating
<1>2. ASSUME pc \in Boot, UNCHANGED sscratch, SchedulerInv' PROVE BootInv'
  BY <1>2, IntactAtCreateNext DEF BootInv, Top
<1>3. CASE BuildSpace
  <2>1. pc' = pc /\ panic' = panic
    BY <1>3, BuildSpaceSeen DEF Boot, KM, CreateLabels, IdleLabels
  <2>2. UNCHANGED <<vars>>
    BY <1>3, <2>1, BuildSpaceSeen DEF vars
  <2> QED
    BY <1>1, <2>1, <2>2 DEF BootInv
<1>4. CASE Together
  <2>1. SchedulerInv' /\ sscratch' = sscratch /\ pc \in Boot
    BY <1>4, TogetherSeen DEF Boot
  <2> QED
    BY <1>2, <2>1 DEF BootInv
<1>5. CASE NoSlot
  BY <1>5 DEF NoSlot, NoFreeSlot, Boot, KM, CreateLabels, IdleLabels
<1>6. CASE Run
  <2>1. CASE UNCHANGED vars
    <3>1. pc' = pc
      BY <2>1 DEF vars
    <3> QED
      BY <1>1, <2>1, <3>1 DEF BootInv
  <2>2. CASE SchedulerInv /\ Next /\ ~ Creating
    <3>1. pc \in Boot /\ sscratch' = sscratch /\ SchedulerInv'
      BY <2>2, OutsideCreation, NextPreservesInv
    <3> QED
      BY <1>2, <3>1 DEF BootInv
  <2> QED
    BY <1>6, <2>1, <2>2, RunSeen
<1>7. CASE Exception
  <2>1. UNCHANGED vars
    BY <1>7 DEF Exception, Raise
  <2>2. pc' = pc
    BY <2>1 DEF vars
  <2> QED
    BY <1>1, <2>1, <2>2 DEF BootInv
<1>8. CASE HandleTrap
  <2>1. UNCHANGED <<procs, curr_proc, pc, prev_proc, made>>
    BY <1>8, TrapSeen
  <2>2. /\ made \in 0 .. PROCS_MAX - 1
        /\ sp.base \in {BOOT, NULL} /\ sscratch.base \in {BOOT, NULL}
        /\ Creating => ContextsIntact
    BY <2>1 DEF BootInv
  <2>3. /\ sp'.base \in {sp.base, sscratch.base} /\ sscratch'.base \in {sp.base, sscratch.base}
        /\ \A p \in Suspended : p # sp.base => stack'[p] = stack[p]
    <3>0. /\ Suspended \subseteq DOMAIN stack
          /\ sp \in Pointers
          /\ (entry \in {"switch", "save", "save_sp"} => sscratch \in Pointers)
      <4>1. entry # "idle"
        BY <1>8 DEF HandleTrap, kernel_entry, handle_trap, SwitchStack, SaveRegisters,
           SaveFaults, SaveSp
      <4>2. TrapInv
        BY <4>1 DEF KernelInv
      <4>3. Suspended \subseteq Stacks
        BY <2>2, SchedulerAssumption DEF Suspended, Procs, Stacks, Slots
      <4> QED
        BY <4>2, <4>3 DEF TrapInv
    <3>1. CASE SwitchStack
      BY <3>0, <3>1 DEF SwitchStack, FrameBelow, Exchanged, bss, Pointers
    <3>2. CASE SaveRegisters
      BY <3>0, <3>2 DEF SaveRegisters, cpu, csrs
    <3>3. CASE SaveFaults \/ handle_trap
      BY <3>3 DEF SaveFaults, handle_trap, vars, bss, cpu, csrs
    <3>4. CASE SaveSp
      <4>1. \A p \in Suspended : p # sp.base => stack'[p] = stack[p]
        BY <3>0, <3>4 DEF SaveSp
      <4>2. sp' = sp /\ sscratch' = NextTrapStack /\ NextTrapStack.base = sp.base
        BY <3>0, <3>4 DEF SaveSp, NextTrapStack, cpu, Pointers
      <4> QED
        BY <4>1, <4>2
    <3> QED
      BY <1>8, <3>1, <3>2, <3>3, <3>4 DEF HandleTrap, kernel_entry
  <2>4. \A p \in Suspended : stack'[p] = stack[p]
    <3>1. \A p \in Suspended : p # BOOT /\ p # NULL
      BY SchedulerAssumption DEF Suspended, Procs, BOOT, NULL
    <3> QED
      BY <2>2, <2>3, <3>1
  <2> QED
    BY <2>1, <2>2, <2>3, <2>4, IntactUnlessOwn DEF Creating
<1>9. CASE CacheTranslation \/ UNCHANGED pagedVars
  <2>1. UNCHANGED vars
    BY <1>9, HardwareSeen
  <2>2. pc' = pc
    BY <2>1 DEF vars
  <2> QED
    BY <1>1, <2>1, <2>2 DEF BootInv
<1> QED
  BY <1>3, <1>4, <1>5, <1>6, <1>7, <1>8, <1>9
     DEF PagedNext, Hart, create_process_paged, Together
-----------------------------------------------------------------------------
(* The theorems.                                                           *)

LEMMA PagedInitInv == PagedInit => PagedInv
<1> SUFFICES ASSUME PagedInit PROVE PagedInv
  OBVIOUS
<1>1. SP!SpacesInv
  BY SameInit, SP!SpacesInitInv, Assumptions
<1>2. /\ pc = KM("memset") /\ sp = Top(BOOT) /\ sscratch = NullSp /\ idle_proc = NULL
      /\ panic = "none" /\ made = 0 /\ satp = NULL /\ tlb = {} /\ asm = "sfence"
      /\ creation = "find"
      /\ spaces = [i \in Slots |-> [state |-> "PROC_UNUSED", page_table |-> NULL]]
  BY DEF PagedInit, TrapInit, Init
<1>3. KernelInv
  <2>1. TrapInv
    BY TrapInitInv DEF PagedInit
  <2> QED
    BY <1>2, <2>1 DEF KernelInv
<1>4. MemoryInv
  BY <1>1, MemoryFromInv
<1>5. OneTable /\ HardwareInv
  BY <1>2 DEF OneTable, HardwareInv
<1>7. ServingInv
  BY <1>2, LabelsApart DEF ServingInv, KernelLabels, YeildLabels
<1>6. BootInv
  <2>1. ~ Creating
    BY <1>2 DEF Creating, KM, CreateLabels
  <2> QED
    BY <1>2, <2>1, SchedulerAssumption DEF BootInv, Top, NullSp
<1> QED
  BY <1>3, <1>4, <1>5, <1>6, <1>7 DEF PagedInv

\* The inductive invariant of the whole: scheduler and traps, memory and page
\* tables, one table of processes, the hardware's tables, the boot stack.
THEOREM PagedInvariant == PagedSpec => []PagedInv
<1>1. PagedInv /\ [PagedNext]_pagedVars => PagedInv'
  BY KernelStep, MemoryStep, OneTableStep, ServingStep, HardwareStep, BootStep DEF PagedInv
<1> QED
  BY <1>1, PagedInitInv, PTL DEF PagedSpec

\* Whatever the TLB holds, whatever trap is taken, the hardware finds all of
\* the kernel at its own addresses, and nothing else.
THEOREM KernelStaysMapped == PagedSpec => []KernelAlwaysMapped
<1>1. PagedInv => KernelAlwaysMapped
  <2> SUFFICES ASSUME PagedInv, NEW i \in (tlb \cup {satp}) \ {NULL}, NEW page \in Spaces!Pages
               PROVE  Spaces!Walk(SatpTable(i), page) =
                        IF page \in Spaces!KernelPages
                          THEN [ppn |-> page, flags |-> RWX + Spaces!PAGE_V]
                          ELSE Spaces!Unmapped
    BY DEF KernelAlwaysMapped
  <2>1. i \in SP!InUse
    BY DEF PagedInv, HardwareInv
  <2>2. SatpTable(i) = spaces[i].page_table /\ Spaces!InUseHaveWholeSpace
    BY <2>1, SameProperties DEF PagedInv, MemoryInv
  <2> QED
    BY <2>1, <2>2, SameTables DEF Spaces!InUseHaveWholeSpace
<1> QED
  BY <1>1, PagedInvariant, PTL

\* A process in use has a whole space of its own at every moment, between the
\* stores of state and of page_table for another one too, and all those yeild
\* may choose are in use; while others are being created contexts stay intact,
\* exceptions in create_process included.
THEOREM CreatedComplete == PagedSpec => []CreatedStayComplete
<1>1. PagedInv => CreatedStayComplete
  <2> SUFFICES ASSUME PagedInv PROVE CreatedStayComplete
    OBVIOUS
  <2>1. Spaces!InUseHaveWholeSpace /\ Spaces!OwnTables
    BY SameProperties DEF PagedInv, MemoryInv
  <2>2. pc \in YeildLabels \cup BodyLabels => Spaces!InUse = 0 .. made
    BY SameTables DEF PagedInv, ServingInv
  <2>3. Creating => ContextsIntact
    BY DEF PagedInv, BootInv, Boot, Creating
  <2> QED
    BY <2>1, <2>2, <2>3 DEF CreatedStayComplete
<1> QED
  BY <1>1, PagedInvariant, PTL

\* Every variable has its type, and both halves of struct process agree.
THEOREM PagedTypes == PagedSpec => []PagedTypeOK
<1>1. PagedInv => PagedTypeOK
  <2> SUFFICES ASSUME PagedInv PROVE PagedTypeOK
    OBVIOUS
  <2>1. pc # KM("memset") => \A i \in Slots : spaces[i].state = procs[i].state
    BY DEF PagedInv, OneTable
  <2>2. TrapTypeOK
    BY DEF PagedInv, KernelInv, TrapInv
  <2>3. Switch!SwitchTypeOK
    BY DEF PagedInv, HardwareInv, OneTable, SP!InUse, SP!Runnable, Switch!SwitchTypeOK,
           Switch!Slots, Slots, Switch!NULL, NULL
  <2>4. panic \in SchedulerPanics \/ Spaces!SpacesTypeOK
    BY SameProperties DEF PagedInv, MemoryInv, SP!SpacesInv
  <2> QED
    BY <2>1, <2>2, <2>3, <2>4 DEF PagedTypeOK, SchedulerPanics
<1> QED
  BY <1>1, PagedInvariant, PTL

\* The traps of the page-tables kernel: handle_trap finds every register in
\* the frame, reports the cause of the exception itself and, if that was in a
\* process, finds the other processes resumable.
THEOREM PagedTraps ==
  PagedSpec => [](FrameHoldsRegisters /\ CauseReportedOnceScheduled /\ OthersStayResumable)
<1>1. PagedInv => FrameHoldsRegisters /\ CauseReportedOnceScheduled /\ OthersStayResumable
  <2> SUFFICES ASSUME PagedInv
               PROVE  FrameHoldsRegisters /\ CauseReportedOnceScheduled /\ OthersStayResumable
    OBVIOUS
  <2>1. CASE TrapInv
    BY <2>1, InvGivesFrame DEF TrapInv, EntryInv, CauseReportedOnceScheduled, OthersStayResumable
  <2>2. CASE pc = KM("halt") /\ entry = "idle" /\ report = "none"
    BY <2>2, LabelsApart
       DEF FrameHoldsRegisters, CauseReportedOnceScheduled, OthersStayResumable, KernelLabels
  <2> QED
    BY <2>1, <2>2 DEF PagedInv, KernelInv
<1> QED
  BY <1>1, PagedInvariant, PTL
=============================================================================
