--------------------------- MODULE Scheduler_proof ---------------------------
(***************************************************************************)
(* Proofs about the scheduler, for any number of processes, table entries, *)
(* callee-saved registers and stack words.                                 *)
(***************************************************************************)
EXTENDS Scheduler, ArithmeticLemmas

Memory == [1 .. STACK_WORDS -> Words]

\* A label tells whose statement comes next, and which of yeild's.
LEMMA LabelsApart ==
  /\ KernelLabels \cap BodyLabels = {}
  /\ \A l : Y(l) \notin KernelLabels \cup BodyLabels
  /\ Y("pick") \notin {Y("sscratch"), Y("curr_proc"), Y("save"), Y("restore")}
  /\ Y("sscratch") \notin {Y("curr_proc"), Y("save"), Y("restore")}
  /\ Y("curr_proc") \notin {Y("save"), Y("restore")} /\ Y("save") # Y("restore")
<1> USE DEF KM, Y, YEILD, KernelLabels, CreateLabels, IdleLabels, BodyLabels, Procs
<1>1. KernelLabels \cap BodyLabels = {}
  BY SchedulerAssumption
<1>2. \A l : Y(l) \notin KernelLabels
  OBVIOUS
<1>3. \A l : Y(l) \notin BodyLabels
  BY SchedulerAssumption
<1>4. /\ Y("pick") \notin {Y("sscratch"), Y("curr_proc"), Y("save"), Y("restore")}
      /\ Y("sscratch") \notin {Y("curr_proc"), Y("save"), Y("restore")}
      /\ Y("curr_proc") \notin {Y("save"), Y("restore")} /\ Y("save") # Y("restore")
  OBVIOUS
<1> QED
  BY <1>1, <1>2, <1>3, <1>4

\* What switch_context pushes is what it pops.
LEMMA PopAfterPush ==
  ASSUME NEW mem \in Memory, NEW d \in Nat, d + FRAME <= STACK_WORDS,
         NEW r \in Words, NEW s \in [SReg -> Vals]
  PROVE  LET m == PushContext(mem, d, r, s)
         IN  /\ m \in Memory
             /\ SavedRa(m, d + FRAME) = r
             /\ SavedSRegs(m, d + FRAME) = s
<1> DEFINE m == PushContext(mem, d, r, s)
           w == ContextWords(r, s)
<1> USE ContextAssumption DEF FRAME, SReg
<1>1. /\ w[0] = r
      /\ \A k \in SReg : w[k] = s[k] /\ k \in 0 .. NSREGS
      /\ \A off \in 0 .. NSREGS : w[off] \in Words
  <2>1. \A off \in 0 .. NSREGS : w[off] = IF off = 0 THEN r ELSE s[off]
    BY DEF ContextWords
  <2>2. \A off \in 0 .. NSREGS : off = 0 \/ off \in SReg
    OBVIOUS
  <2>3. 0 \in 0 .. NSREGS /\ \A k \in SReg : k \in 0 .. NSREGS /\ k # 0 /\ s[k] \in Words
    BY DEF Words
  <2> HIDE DEF w
  <2> QED
    BY <2>1, <2>2, <2>3
<1>2. m = [i \in 1 .. STACK_WORDS |->
             IF i \in d + 1 .. d + NSREGS + 1 THEN w[d + NSREGS + 1 - i] ELSE mem[i]]
  <2>1. d + FRAME = d + NSREGS + 1
    OBVIOUS
  <2> QED
    BY <2>1 DEF PushContext
<1>3. m \in Memory /\ \A off \in 0 .. NSREGS : m[d + NSREGS + 1 - off] = w[off]
  <2> HIDE DEF m, w
  <2> QED
    BY <1>1, <1>2, PushedWords DEF Memory
<1>4. m[d + FRAME] = r /\ \A k \in SReg : m[d + FRAME - k] = s[k]
  <2> HIDE DEF m, w
  <2>1. d + FRAME - 0 = d + FRAME /\ d + FRAME = d + NSREGS + 1 /\ 0 \in 0 .. NSREGS
    OBVIOUS
  <2>2. m[d + FRAME - 0] = w[0] /\ \A k \in SReg : m[d + FRAME - k] = w[k]
    BY <1>1, <1>3, <2>1
  <2> QED
    BY <1>1, <2>1, <2>2
<1>5. SavedSRegs(m, d + FRAME) = s
  <2> HIDE DEF m, w
  <2> QED
    BY <1>4 DEF SavedSRegs
<1> QED
  BY <1>3, <1>4, <1>5 DEF SavedRa

\* The frame of a new process pops as its entry point and cleared registers.
LEMMA PopInitialContext ==
  ASSUME NEW mem \in Memory, NEW entry \in Words, FRAME <= STACK_WORDS
  PROVE  LET m == InitialContext(mem, entry)
         IN  /\ m \in Memory
             /\ SavedRa(m, FRAME) = entry
             /\ SavedSRegs(m, FRAME) = [k \in SReg |-> Zero]
<1> DEFINE m == InitialContext(mem, entry)
<1> USE ContextAssumption DEF FRAME, SReg
<1>1. m \in Memory
  BY DEF InitialContext, Memory, Words
<1>2. m[FRAME] = entry
  BY DEF InitialContext
<1>3. \A k \in SReg : m[FRAME - k] = Zero
  BY DEF InitialContext
<1> QED
  BY <1>1, <1>2, <1>3 DEF SavedRa, SavedSRegs

\* With slots 0 .. made in use, the scan for an unused one finds made + 1.
LEMMA FirstFreeIsNext ==
  ASSUME NEW m \in Nat, \A i \in Slots : i \in Free <=> i > m, Free # {}
  PROVE  FirstFree = m + 1 /\ FirstFree \in Slots
<1> USE SchedulerAssumption
<1>1. Free \in SUBSET Nat /\ Free \subseteq Slots
  BY DEF Free, Slots
<1>2. FirstFree \in Free /\ \A i \in Free : FirstFree <= i
  BY <1>1, MinIsLeast DEF FirstFree
<1>3. FirstFree \in Slots /\ FirstFree > m
  BY <1>1, <1>2
<1>4. m + 1 \in Free
  BY <1>3 DEF Slots
<1> QED
  BY <1>2, <1>3, <1>4 DEF Slots
-----------------------------------------------------------------------------
(* The invariant holds initially and every action preserves it. *)

LEMMA InitEstablishesInv == Init => SchedulerInv
<1> SUFFICES ASSUME Init PROVE SchedulerInv
  OBVIOUS
<1> USE SchedulerAssumption, ContextAssumption
<1> USE DEF Init, KM, Body, Y, CreateLabels, IdleLabels
<1>1. TypeOK
  BY DEF TypeOK, Garbage, Pcb, StackPointers, NullSp, Top, Depth, Stacks, Slots,
         Words, Labels, KernelLabels
<1>2. TableInv
  BY DEF TableInv
<1>3. ControlInv
  BY DEF ControlInv, Labels, KernelLabels, BodyLabels, YeildLabels, Procs, YEILD
<1>4. OwnStack
  BY DEF OwnStack, Procs
<1>5. ContextsIntact
  BY DEF ContextsIntact, Suspended, Procs
<1>6. PanicsJustified
  BY DEF PanicsJustified
<1>7. FillingInv /\ IdleInv
  BY DEF FillingInv, IdleInv
<1> QED
  BY <1>1, <1>2, <1>3, <1>4, <1>5, <1>6, <1>7 DEF SchedulerInv

\* What the two say of create_process and its first return is nothing elsewhere.
LEMMA NotCreating ==
  ASSUME pc' \notin CreateLabels \cup IdleLabels
  PROVE  FillingInv' /\ IdleInv'
BY DEF FillingInv, IdleInv

LEMMA ClearBssPreservesInv ==
  ASSUME SchedulerInv, ClearBss
  PROVE  SchedulerInv'
<1> USE SchedulerAssumption, ContextAssumption
<1> USE DEF ClearBss, bss, cpu, csrs, local, KM, Body, Y, CreateLabels, IdleLabels
<1>0. /\ TypeOK
      /\ made = 0 /\ made' = 0
      /\ panic = "none" /\ panic' = "none"
      /\ sp = Top(BOOT)
  BY DEF SchedulerInv, TableInv, ControlInv
<1>1. TypeOK'
  <2>1. procs' \in [Slots -> Pcb]
    BY DEF Pcb, StackPointers, NullSp, Depth
  <2>2. stack' \in [Stacks -> [1 .. STACK_WORDS -> Words]]
    BY <1>0 DEF TypeOK, Stacks, Words
  <2> QED
    BY <1>0, <2>1, <2>2 DEF TypeOK, Words, Labels, KernelLabels
<1>2. TableInv'
  BY <1>0 DEF TableInv, Top
<1>3. ControlInv'
  BY <1>0 DEF ControlInv, Labels, KernelLabels, BodyLabels, YeildLabels, Procs, YEILD
<1>4. OwnStack'
  BY DEF OwnStack, Procs
<1>5. ContextsIntact'
  BY <1>0 DEF ContextsIntact, Suspended, Procs
<1>6. PanicsJustified'
  BY <1>0 DEF PanicsJustified
<1>f. FillingInv' /\ IdleInv'
  BY NotCreating DEF Procs, YEILD
<1> QED
  BY <1>1, <1>2, <1>3, <1>4, <1>5, <1>6, <1>f DEF SchedulerInv

LEMMA SetTrapVectorPreservesInv ==
  ASSUME SchedulerInv, SetTrapVector
  PROVE  SchedulerInv'
<1> USE SchedulerAssumption, ContextAssumption
<1> USE DEF SetTrapVector, bss, cpu, csrs, local, KM, Body, Y, CreateLabels, IdleLabels
<1>1. TypeOK'
  BY DEF SchedulerInv, TypeOK, Words, Labels, KernelLabels
<1>2. TableInv'
  BY DEF SchedulerInv, TableInv, Top
<1>3. ControlInv'
  BY DEF SchedulerInv, ControlInv, Labels, KernelLabels, BodyLabels, YeildLabels, Procs, YEILD
<1>4. OwnStack'
  BY DEF OwnStack, Procs
<1>5. ContextsIntact'
  BY DEF SchedulerInv, TableInv, ContextsIntact, Suspended, Procs
<1>6. PanicsJustified'
  BY DEF SchedulerInv, PanicsJustified
<1>f. FillingInv' /\ IdleInv'
  BY NotCreating DEF Procs, YEILD
<1> QED
  BY <1>1, <1>2, <1>3, <1>4, <1>5, <1>6, <1>f DEF SchedulerInv

\* The search and the stores of the context, whichever process it is for.
LEMMA CreateProcessPreservesInv ==
  ASSUME SchedulerInv, NEW entry \in Words, NEW slot \in Slots,
         pc \in {KM("create_idle"), KM("create")}, CreateProcess(entry),
         FirstFree = slot, panic = "none", sp = Top(BOOT),
         \/ slot = 0 /\ made = 0 /\ idle_proc = NULL
         \/ /\ slot = made + 1 /\ made < NumProcs /\ idle_proc = 0 /\ curr_proc = 0
            /\ entry = Body(slot, "start"),
         \A i \in Slots :
           /\ i < slot => /\ procs[i].state = "PROC_RUNNABLE"
                          /\ procs[i].pid = IF i = 0 THEN 0 ELSE i + 1
           /\ i >= slot => procs[i].state = "PROC_UNUSED"
  PROVE  SchedulerInv'
<1> USE SchedulerAssumption, ContextAssumption
<1> USE DEF KM, Body, Y, CreateLabels, IdleLabels
<1>a. /\ proc' = slot
      /\ stack' = [stack EXCEPT ![slot] = InitialContext(@, entry)]
      /\ pc' = KM("pid")
      /\ UNCHANGED <<procs, curr_proc, idle_proc, ra, sp, sregs, stvec, sscratch, next,
                     prev_proc, made, console, panic>>
  BY DEF CreateProcess, cpu, csrs
<1>b. TypeOK /\ made \in Nat /\ ContextsIntact /\ made < PROCS_MAX
  BY DEF SchedulerInv, TypeOK, TableInv
<1>c. /\ InitialContext(stack[slot], entry) \in Memory
      /\ SavedRa(InitialContext(stack[slot], entry), FRAME) = entry
      /\ SavedSRegs(InitialContext(stack[slot], entry), FRAME) = [k \in SReg |-> Zero]
  <2>1. stack[slot] \in Memory /\ FRAME <= STACK_WORDS
    BY <1>b DEF TypeOK, Stacks, Memory, FRAME
  <2> QED
    BY <2>1, PopInitialContext
<1>d. stack'[slot] = InitialContext(stack[slot], entry)
  BY <1>a, <1>b DEF TypeOK, Stacks
<1>1. TypeOK'
  <2>1. stack' \in [Stacks -> [1 .. STACK_WORDS -> Words]]
    BY <1>a, <1>b, <1>c DEF TypeOK, Memory
  <2>2. pc' \in Words
    BY <1>a DEF Words, Labels, KernelLabels
  <2> QED
    BY <1>a, <1>b, <2>1, <2>2 DEF TypeOK
<1>2. TableInv'
  BY <1>a, <1>b DEF TableInv
<1>3. FillingInv'
  <2>1. /\ proc' = slot
        /\ slot # 0 => SavedRa(stack'[slot], FRAME) = Body(slot, "start")
        /\ SavedSRegs(stack'[slot], FRAME) \in [SReg -> Vals]
    BY <1>a, <1>c, <1>d
  <2>2. \A i \in Slots : i < slot \/ i = slot \/ i > slot
    BY DEF Slots
  <2> QED
    BY <1>a, <2>1, <2>2 DEF FillingInv, Slots
<1>4. IdleInv'
  BY <1>a DEF IdleInv
<1>5. ControlInv'
  BY <1>a DEF ControlInv, Labels, KernelLabels, BodyLabels, YeildLabels, Procs, YEILD
<1>6. OwnStack'
  BY <1>a DEF OwnStack, Procs
<1>7. ContextsIntact'
  <2>1. Suspended' = Suspended
    BY <1>a DEF Suspended, OnCpu, Procs, YEILD
  <2>2. \A p \in Suspended : stack'[p] = stack[p]
    <3> TAKE p \in Suspended
    <3>1. p \in Nat /\ p # 0 /\ p <= made /\ p \in Stacks /\ p # slot
      BY <1>b DEF Suspended, Procs, Stacks, Slots
    <3> QED
      BY <1>a, <1>b, <3>1 DEF TypeOK
  <2> QED
    BY <1>a, <1>b, <2>1, <2>2 DEF ContextsIntact
<1>8. PanicsJustified'
  BY <1>a DEF PanicsJustified
<1> QED
  BY <1>1, <1>2, <1>3, <1>4, <1>5, <1>6, <1>7, <1>8 DEF SchedulerInv

LEMMA CreateIdlePreservesInv ==
  ASSUME SchedulerInv, CreateIdle
  PROVE  SchedulerInv'
<1> USE SchedulerAssumption, ContextAssumption
<1>1. /\ pc = KM("create_idle") /\ CreateProcess(Zero)
      /\ made = 0 /\ idle_proc = NULL /\ panic = "none" /\ sp = Top(BOOT)
      /\ \A i \in Slots : procs[i].state = "PROC_UNUSED"
  BY DEF CreateIdle, SchedulerInv, TableInv, ControlInv, KM, CreateLabels, IdleLabels
<1>2. FirstFree = 0 /\ 0 \in Slots
  <2>1. Free = Slots /\ Free \in SUBSET Nat /\ 0 \in Free
    BY <1>1 DEF Free, Slots
  <2>2. FirstFree \in Free /\ FirstFree <= 0
    BY <2>1, MinIsLeast DEF FirstFree
  <2> QED
    BY <2>1, <2>2 DEF Slots
<1>3. Zero \in Words
  BY DEF Words
<1>4. \A i \in Slots : ~ (i < 0)
  BY DEF Slots
<1> QED
  BY <1>1, <1>2, <1>3, <1>4, CreateProcessPreservesInv

LEMMA CreatePreservesInv ==
  ASSUME SchedulerInv, Create
  PROVE  SchedulerInv'
<1> USE SchedulerAssumption, ContextAssumption
<1>1. /\ pc = KM("create") /\ CreateProcess(Body(made + 1, "start")) /\ Free # {}
      /\ made \in Nat /\ made < NumProcs /\ idle_proc = 0 /\ curr_proc = 0
      /\ panic = "none" /\ sp = Top(BOOT)
      /\ \A i \in Slots :
           IF i <= made
             THEN /\ procs[i].state = "PROC_RUNNABLE"
                  /\ procs[i].pid = IF i = 0 THEN 0 ELSE i + 1
             ELSE procs[i].state = "PROC_UNUSED"
  BY DEF Create, CreateProcess, SchedulerInv, TypeOK, TableInv, ControlInv, KM,
         CreateLabels, IdleLabels
<1>2. \A i \in Slots : i \in Nat
  BY DEF Slots
<1>3. \A i \in Slots : i \in Free <=> i > made
  BY <1>1, <1>2 DEF Free
<1>4. FirstFree = made + 1 /\ made + 1 \in Slots
  BY <1>1, <1>3, FirstFreeIsNext
<1>5. Body(made + 1, "start") \in Words
  BY <1>1 DEF Words, Labels, BodyLabels, Body, Procs
<1>6. \A i \in Slots :
        /\ i < made + 1 => /\ procs[i].state = "PROC_RUNNABLE"
                           /\ procs[i].pid = IF i = 0 THEN 0 ELSE i + 1
        /\ i >= made + 1 => procs[i].state = "PROC_UNUSED"
  BY <1>1, <1>2
<1> QED
  BY <1>1, <1>4, <1>5, <1>6, CreateProcessPreservesInv

\* A store to the control block of a slot whose process does not yet exist, or
\* of idle's, on the way through create_process and kernel_main.
LEMMA StorePreserves ==
  ASSUME SchedulerInv, NEW slot \in Slots, NEW pcb \in Pcb,
         pc \in CreateLabels \cup IdleLabels, pc' \in CreateLabels \cup IdleLabels,
         slot > made \/ made = 0,
         procs' = [procs EXCEPT ![slot] = pcb],
         UNCHANGED <<curr_proc, idle_proc, stack, cpu, csrs, local, console, panic>>
  PROVE  /\ TypeOK' /\ TableInv' /\ ControlInv'
         /\ OwnStack' /\ ContextsIntact' /\ PanicsJustified'
<1> USE SchedulerAssumption, ContextAssumption
<1> USE DEF KM, Body, Y, CreateLabels, IdleLabels
<1>a. UNCHANGED <<curr_proc, idle_proc, stack, ra, sp, sregs, stvec, sscratch, next,
                  prev_proc, proc, made, console, panic>>
  BY DEF cpu, csrs, local
<1>b. TypeOK /\ TableInv /\ ControlInv /\ ContextsIntact /\ PanicsJustified /\ panic = "none"
  BY DEF SchedulerInv, ControlInv
<1>1. TypeOK'
  <2>1. procs' \in [Slots -> Pcb]
    BY <1>b DEF TypeOK
  <2>2. pc' \in Words
    BY DEF Words, Labels, KernelLabels
  <2> QED
    BY <1>a, <1>b, <2>1, <2>2 DEF TypeOK
<1>2. TableInv'
  BY <1>a, <1>b DEF TableInv
<1>3. ControlInv'
  BY <1>a, <1>b DEF ControlInv, Labels, KernelLabels, BodyLabels, YeildLabels, Procs, YEILD
<1>4. OwnStack'
  BY DEF OwnStack, Procs
<1>5. ContextsIntact'
  <2>1. Suspended' = Suspended
    BY <1>a DEF Suspended, OnCpu, Procs, YEILD
  <2>2. \A p \in Suspended : procs'[p] = procs[p]
    <3> TAKE p \in Suspended
    <3>1. p \in Slots /\ p # slot
      BY <1>b DEF Suspended, Procs, Slots, TypeOK, TableInv
    <3> QED
      BY <1>b, <3>1 DEF TypeOK
  <2> QED
    BY <1>a, <1>b, <2>1, <2>2 DEF ContextsIntact
<1>6. PanicsJustified'
  BY <1>a, <1>b DEF PanicsJustified
<1> QED
  BY <1>1, <1>2, <1>3, <1>4, <1>5, <1>6

LEMMA SetPidPreservesInv ==
  ASSUME SchedulerInv, SetPid
  PROVE  SchedulerInv'
<1> USE SchedulerAssumption, ContextAssumption
<1> USE DEF KM, CreateLabels, IdleLabels
<1> DEFINE pcb == [procs[proc] EXCEPT !.pid = NewPid]
<1>a. /\ pc = KM("pid") /\ pc' = KM("state")
      /\ procs' = [procs EXCEPT ![proc] = pcb]
      /\ UNCHANGED <<curr_proc, idle_proc, stack, cpu, csrs, local, console, panic>>
  BY DEF SetPid, Store
<1>b. TypeOK /\ FillingInv /\ proc \in Slots /\ made \in Nat /\ (proc > made \/ made = 0)
  <2>1. TypeOK /\ FillingInv /\ made \in Nat
    <3>1. TypeOK /\ FillingInv
      BY DEF SchedulerInv
    <3>2. made \in 0 .. NumProcs
      BY <3>1 DEF TypeOK
    <3> QED
      BY <3>1, <3>2
  <2>2. proc \in Slots /\ (proc = made + 1 \/ made = 0)
    BY <1>a, <2>1 DEF FillingInv
  <2> QED
    BY <2>1, <2>2
<1>c. /\ pcb \in Pcb /\ pcb.pid = proc + 1 /\ pcb.state = procs[proc].state
      /\ procs'[proc] = pcb /\ \A i \in Slots : i # proc => procs'[i] = procs[i]
  <2>0. NewPid = proc + 1 /\ NewPid \in Int
    BY ONLY <1>b DEF NewPid, Slots
  <2>1. procs[proc] \in Pcb /\ NewPid = proc + 1 /\ NewPid \in Int
    BY <1>b, <2>0 DEF TypeOK
  <2>2. /\ pcb \in Pcb /\ pcb.pid = proc + 1 /\ pcb.state = procs[proc].state
    BY <2>1 DEF Pcb
  <2> HIDE DEF pcb
  <2> QED
    BY <1>a, <1>b, <2>2 DEF TypeOK
<1>1. /\ TypeOK' /\ TableInv' /\ ControlInv'
      /\ OwnStack' /\ ContextsIntact' /\ PanicsJustified'
  BY <1>a, <1>b, <1>c, StorePreserves
<1>2. FillingInv'
  <2>1. UNCHANGED <<sp, proc, made, idle_proc, curr_proc, stack>>
    BY <1>a DEF cpu, local
  <2>2. \A i \in Slots : i < proc \/ i > proc => i # proc
    BY <1>b DEF Slots
  <2> HIDE DEF pcb
  <2> QED
    BY <1>a, <1>b, <1>c, <2>1, <2>2 DEF FillingInv
<1>3. IdleInv'
  BY <1>a DEF IdleInv
<1> QED
  BY <1>1, <1>2, <1>3 DEF SchedulerInv

LEMMA SetStatePreservesInv ==
  ASSUME SchedulerInv, SetState
  PROVE  SchedulerInv'
<1> USE SchedulerAssumption, ContextAssumption
<1> USE DEF KM, CreateLabels, IdleLabels
<1> DEFINE pcb == [procs[proc] EXCEPT !.state = "PROC_RUNNABLE"]
<1>a. /\ pc = KM("state") /\ pc' = KM("sp")
      /\ procs' = [procs EXCEPT ![proc] = pcb]
      /\ UNCHANGED <<curr_proc, idle_proc, stack, cpu, csrs, local, console, panic>>
  BY DEF SetState, Store
<1>b. TypeOK /\ FillingInv /\ proc \in Slots /\ made \in Nat /\ (proc > made \/ made = 0)
  <2>1. TypeOK /\ FillingInv /\ made \in Nat
    <3>1. TypeOK /\ FillingInv
      BY DEF SchedulerInv
    <3>2. made \in 0 .. NumProcs
      BY <3>1 DEF TypeOK
    <3> QED
      BY <3>1, <3>2
  <2>2. proc \in Slots /\ (proc = made + 1 \/ made = 0)
    BY <1>a, <2>1 DEF FillingInv
  <2> QED
    BY <2>1, <2>2
<1>c. /\ pcb \in Pcb /\ pcb.pid = procs[proc].pid /\ pcb.state = "PROC_RUNNABLE"
      /\ procs'[proc] = pcb /\ \A i \in Slots : i # proc => procs'[i] = procs[i]
  <2>1. procs[proc] \in Pcb
    BY <1>b DEF TypeOK
  <2>2. /\ pcb \in Pcb /\ pcb.pid = procs[proc].pid /\ pcb.state = "PROC_RUNNABLE"
    BY <2>1 DEF Pcb
  <2> HIDE DEF pcb
  <2> QED
    BY <1>a, <1>b, <2>2 DEF TypeOK
<1>1. /\ TypeOK' /\ TableInv' /\ ControlInv'
      /\ OwnStack' /\ ContextsIntact' /\ PanicsJustified'
  BY <1>a, <1>b, <1>c, StorePreserves
<1>2. FillingInv'
  <2>1. UNCHANGED <<sp, proc, made, idle_proc, curr_proc, stack>>
    BY <1>a DEF cpu, local
  <2>2. \A i \in Slots : i < proc \/ i > proc => i # proc
    BY <1>b DEF Slots
  <2> HIDE DEF pcb
  <2> QED
    BY <1>a, <1>b, <1>c, <2>1, <2>2 DEF FillingInv
<1>3. IdleInv'
  BY <1>a DEF IdleInv
<1> QED
  BY <1>1, <1>2, <1>3 DEF SchedulerInv

LEMMA SetSpPreservesInv ==
  ASSUME SchedulerInv, SetSp
  PROVE  SchedulerInv'
<1> USE SchedulerAssumption, ContextAssumption
<1> USE DEF KM, CreateLabels, IdleLabels
<1> DEFINE top == [base |-> proc, depth |-> FRAME]
           pcb == [procs[proc] EXCEPT !.sp = top]
<1>a. /\ pc = KM("sp") /\ pc' = KM("return")
      /\ procs' = [procs EXCEPT ![proc] = pcb]
      /\ UNCHANGED <<curr_proc, idle_proc, stack, cpu, csrs, local, console, panic>>
  BY DEF SetSp, Store
<1>b. TypeOK /\ FillingInv /\ proc \in Slots /\ made \in Nat /\ (proc > made \/ made = 0)
  <2>1. TypeOK /\ FillingInv /\ made \in Nat
    <3>1. TypeOK /\ FillingInv
      BY DEF SchedulerInv
    <3>2. made \in 0 .. NumProcs
      BY <3>1 DEF TypeOK
    <3> QED
      BY <3>1, <3>2
  <2>2. proc \in Slots /\ (proc = made + 1 \/ made = 0)
    BY <1>a, <2>1 DEF FillingInv
  <2> QED
    BY <2>1, <2>2
<1>c. /\ pcb \in Pcb /\ pcb.pid = procs[proc].pid /\ pcb.state = procs[proc].state
      /\ pcb.sp = top
      /\ procs'[proc] = pcb /\ \A i \in Slots : i # proc => procs'[i] = procs[i]
  <2>1. procs[proc] \in Pcb
    BY <1>b DEF TypeOK
  <2>2. top \in StackPointers
    BY <1>b DEF StackPointers, Stacks, Depth, FRAME
  <2>3. /\ pcb \in Pcb /\ pcb.pid = procs[proc].pid /\ pcb.state = procs[proc].state
        /\ pcb.sp = top
    <3> HIDE DEF top
    <3> QED
      BY <2>1, <2>2 DEF Pcb
  <2> HIDE DEF pcb
  <2> QED
    BY <1>a, <1>b, <2>3 DEF TypeOK
<1>1. /\ TypeOK' /\ TableInv' /\ ControlInv'
      /\ OwnStack' /\ ContextsIntact' /\ PanicsJustified'
  BY <1>a, <1>b, <1>c, StorePreserves
<1>2. FillingInv'
  <2>1. UNCHANGED <<sp, proc, made, idle_proc, curr_proc, stack>>
    BY <1>a DEF cpu, local
  <2>2. \A i \in Slots : i < proc \/ i > proc => i # proc
    BY <1>b DEF Slots
  <2> HIDE DEF pcb
  <2> QED
    BY <1>a, <1>b, <1>c, <2>1, <2>2 DEF FillingInv
<1>3. IdleInv'
  BY <1>a DEF IdleInv
<1> QED
  BY <1>1, <1>2, <1>3 DEF SchedulerInv

LEMMA ReturnIdlePreservesInv ==
  ASSUME SchedulerInv, ReturnIdle
  PROVE  SchedulerInv'
<1> USE SchedulerAssumption, ContextAssumption
<1> USE DEF KM, Body, Y, CreateLabels, IdleLabels
<1>a. /\ pc = KM("return") /\ pc' = KM("idle_pid")
      /\ idle_proc = NULL /\ idle_proc' = proc
      /\ UNCHANGED <<procs, curr_proc, stack, ra, sp, sregs, stvec, sscratch, next,
                     prev_proc, proc, made, console, panic>>
  BY DEF ReturnIdle, cpu, csrs, local
<1>b. /\ TypeOK /\ TableInv /\ ControlInv /\ FillingInv /\ ContextsIntact
      /\ PanicsJustified /\ panic = "none"
      /\ proc = 0 /\ made = 0 /\ proc \in Slots /\ sp = Top(BOOT)
      /\ procs[0].state = "PROC_RUNNABLE"
      /\ \A i \in Slots : i > 0 => procs[i].state = "PROC_UNUSED"
  BY <1>a DEF SchedulerInv, FillingInv, ControlInv, NULL
<1>1. TypeOK'
  BY <1>a, <1>b DEF TypeOK, Words, Labels, KernelLabels
<1>2. TableInv' /\ FillingInv'
  BY <1>a, <1>b DEF TableInv, FillingInv
<1>3. IdleInv'
  BY <1>a, <1>b DEF IdleInv, Slots
<1>4. ControlInv' /\ OwnStack'
  BY <1>a, <1>b DEF ControlInv, OwnStack, Labels, KernelLabels, BodyLabels, YeildLabels,
                    Procs, YEILD
<1>5. ContextsIntact'
  BY <1>a, <1>b DEF ContextsIntact, Suspended, Procs
<1>6. PanicsJustified'
  BY <1>a, <1>b DEF PanicsJustified
<1> QED
  BY <1>1, <1>2, <1>3, <1>4, <1>5, <1>6 DEF SchedulerInv

LEMMA SetIdlePidPreservesInv ==
  ASSUME SchedulerInv, SetIdlePid
  PROVE  SchedulerInv'
<1> USE SchedulerAssumption, ContextAssumption
<1> USE DEF KM, CreateLabels, IdleLabels
<1> DEFINE pcb == [procs[idle_proc] EXCEPT !.pid = 0]
<1>a. /\ pc = KM("idle_pid") /\ pc' = KM("idle_current")
      /\ procs' = [procs EXCEPT ![idle_proc] = pcb]
      /\ UNCHANGED <<curr_proc, idle_proc, stack, cpu, csrs, local, console, panic>>
  BY DEF SetIdlePid, Store
<1>b. TypeOK /\ IdleInv /\ made = 0 /\ idle_proc = 0 /\ 0 \in Slots
  BY <1>a DEF SchedulerInv, IdleInv, Slots
<1>c. /\ pcb \in Pcb /\ pcb.pid = 0 /\ pcb.state = procs[idle_proc].state
      /\ procs'[0] = pcb /\ \A i \in Slots : i # 0 => procs'[i] = procs[i]
  <2>1. procs[idle_proc] \in Pcb
    BY <1>b DEF TypeOK
  <2>2. /\ pcb \in Pcb /\ pcb.pid = 0 /\ pcb.state = procs[idle_proc].state
    BY <2>1 DEF Pcb
  <2> HIDE DEF pcb
  <2> QED
    BY <1>a, <1>b, <2>2 DEF TypeOK
<1>1. /\ TypeOK' /\ TableInv' /\ ControlInv'
      /\ OwnStack' /\ ContextsIntact' /\ PanicsJustified'
  BY <1>a, <1>b, <1>c, StorePreserves
<1>2. FillingInv'
  BY <1>a DEF FillingInv
<1>3. IdleInv'
  <2>1. UNCHANGED <<sp, made, idle_proc>>
    BY <1>a DEF cpu, local
  <2> HIDE DEF pcb
  <2> QED
    BY <1>a, <1>b, <1>c, <2>1 DEF IdleInv
<1> QED
  BY <1>1, <1>2, <1>3 DEF SchedulerInv

LEMMA SetIdleCurrentPreservesInv ==
  ASSUME SchedulerInv, SetIdleCurrent
  PROVE  SchedulerInv'
<1> USE SchedulerAssumption, ContextAssumption
<1> USE DEF KM, Body, Y, CreateLabels, IdleLabels
<1>a. /\ pc = KM("idle_current")
      /\ pc' = IF NumProcs = 0 THEN KM("yeild") ELSE KM("create")
      /\ curr_proc' = idle_proc
      /\ UNCHANGED <<procs, idle_proc, stack, ra, sp, sregs, stvec, sscratch, next,
                     prev_proc, proc, made, console, panic>>
  BY DEF SetIdleCurrent, cpu, csrs, local
<1>b. /\ TypeOK /\ TableInv /\ ControlInv /\ PanicsJustified /\ panic = "none"
      /\ made = 0 /\ idle_proc = 0 /\ 0 \in Slots /\ sp = Top(BOOT)
      /\ procs[0].pid = 0
      /\ \A i \in Slots :
           procs[i].state = IF i = 0 THEN "PROC_RUNNABLE" ELSE "PROC_UNUSED"
  BY <1>a DEF SchedulerInv, IdleInv, ControlInv, Slots
<1>1. TypeOK'
  BY <1>a, <1>b DEF TypeOK, Words, Labels, KernelLabels
<1>2. TableInv'
  BY <1>a, <1>b DEF TableInv, Slots
<1>3. FillingInv' /\ IdleInv'
  BY <1>a, NotCreating
<1>4. ControlInv' /\ OwnStack'
  BY <1>a, <1>b DEF ControlInv, OwnStack, Labels, KernelLabels, BodyLabels, YeildLabels,
                    Procs, YEILD
<1>5. ContextsIntact'
  BY <1>a, <1>b DEF ContextsIntact, Suspended, Procs
<1>6. PanicsJustified'
  BY <1>a, <1>b DEF PanicsJustified
<1> QED
  BY <1>1, <1>2, <1>3, <1>4, <1>5, <1>6 DEF SchedulerInv

LEMMA ReturnPreservesInv ==
  ASSUME SchedulerInv, Return
  PROVE  SchedulerInv'
<1> USE SchedulerAssumption, ContextAssumption
<1> USE DEF KM, Body, Y, CreateLabels, IdleLabels
<1>a. /\ pc = KM("return") /\ idle_proc # NULL
      /\ made' = made + 1
      /\ pc' = IF made + 1 = NumProcs THEN KM("yeild") ELSE KM("create")
      /\ UNCHANGED <<procs, curr_proc, idle_proc, stack, ra, sp, sregs, stvec, sscratch,
                     next, prev_proc, proc, console, panic>>
  BY DEF Return, bss, cpu, csrs
<1>b. /\ TypeOK /\ TableInv /\ ControlInv /\ ContextsIntact
      /\ PanicsJustified /\ panic = "none" /\ made \in Nat
      /\ proc = made + 1 /\ made < NumProcs /\ idle_proc = 0 /\ curr_proc = 0
      /\ proc \in Slots /\ sp = Top(BOOT)
      /\ \A i \in Slots :
           /\ i < proc => /\ procs[i].state = "PROC_RUNNABLE"
                          /\ procs[i].pid = IF i = 0 THEN 0 ELSE i + 1
           /\ i > proc => procs[i].state = "PROC_UNUSED"
      /\ procs[proc].state = "PROC_RUNNABLE" /\ procs[proc].pid = proc + 1
      /\ procs[proc].sp = [base |-> proc, depth |-> FRAME]
      /\ SavedRa(stack[proc], FRAME) = Body(proc, "start")
      /\ SavedSRegs(stack[proc], FRAME) \in [SReg -> Vals]
  BY <1>a DEF SchedulerInv, FillingInv, ControlInv, NULL, TypeOK
<1>1. TypeOK'
  <2>1. made' \in 0 .. NumProcs /\ pc' \in Words
    BY <1>a, <1>b DEF Words, Labels, KernelLabels
  <2> QED
    BY <1>a, <1>b, <2>1 DEF TypeOK
<1>2. TableInv'
  <2>1. made' < PROCS_MAX /\ idle_proc' = 0
    BY <1>a, <1>b DEF Slots
  <2>2. \A i \in Slots : i <= made' <=> i < proc \/ i = proc
    BY <1>a, <1>b DEF Slots
  <2>3. \A i \in Slots : ~ (i <= made') => i > proc
    BY <1>a, <1>b DEF Slots
  <2>4. \A i \in Slots :
          IF i <= made'
            THEN /\ procs'[i].state = "PROC_RUNNABLE"
                 /\ procs'[i].pid = IF i = 0 THEN 0 ELSE i + 1
            ELSE procs'[i].state = "PROC_UNUSED"
    BY <1>a, <1>b, <2>2, <2>3
  <2> QED
    BY <1>a, <2>1, <2>4 DEF TableInv
<1>3. FillingInv' /\ IdleInv'
  BY <1>a, NotCreating
<1>4. ControlInv' /\ OwnStack'
  BY <1>a, <1>b DEF ControlInv, OwnStack, Labels, KernelLabels, BodyLabels, YeildLabels,
                    Procs, YEILD
<1>5. ContextsIntact'
  <2> SUFFICES ASSUME NEW p \in Procs, p <= proc
               PROVE  /\ procs[p].sp.base = p
                      /\ \/ /\ SavedRa(stack[p], procs[p].sp.depth) = Body(p, "start")
                            /\ procs[p].sp.depth = FRAME
                         \/ /\ SavedRa(stack[p], procs[p].sp.depth) = Body(p, "delay")
                            /\ procs[p].sp.depth = LOCALS + FRAME
                      /\ SavedSRegs(stack[p], procs[p].sp.depth) \in [SReg -> Vals]
    BY <1>a, <1>b DEF ContextsIntact, Suspended
  <2>1. CASE p = proc
    BY <1>b, <2>1
  <2>2. CASE p # proc
    <3>1. p \in Suspended
      BY <1>a, <1>b, <2>2 DEF Suspended, OnCpu, Procs, YEILD
    <3> QED
      BY <1>b, <3>1 DEF ContextsIntact
  <2> QED
    BY <2>1, <2>2
<1>6. PanicsJustified'
  BY <1>a, <1>b DEF PanicsJustified
<1> QED
  BY <1>1, <1>2, <1>3, <1>4, <1>5, <1>6 DEF SchedulerInv

LEMMA NoFreeSlotPreservesInv ==
  ASSUME SchedulerInv, NoFreeSlot
  PROVE  SchedulerInv'
<1> USE SchedulerAssumption, ContextAssumption
<1> USE DEF KM, Body, Y, CreateLabels, IdleLabels
<1>a. /\ pc = KM("create_idle") \/ pc = KM("create")
      /\ Free = {}
      /\ panic' = "no free process slots"
      /\ pc' = KM("halt")
      /\ UNCHANGED <<procs, curr_proc, idle_proc, stack, ra, sp, sregs, stvec, sscratch,
                     next, prev_proc, proc, made, console>>
  BY DEF NoFreeSlot, bss, cpu, csrs, local
<1>0. /\ pc = KM("create")
      /\ made \in Nat /\ made < NumProcs /\ made < PROCS_MAX
      /\ \A i \in Slots : procs[i].state = "PROC_UNUSED" <=> i > made
  <2>1. made \in Nat /\ 0 \in Slots
    <3>1. made \in 0 .. NumProcs
      BY DEF SchedulerInv, TypeOK
    <3> QED
      BY <3>1 DEF Slots
  <2>2. pc # KM("create_idle")
    BY <1>a, <2>1 DEF SchedulerInv, TableInv, Free
  <2> QED
    <3>1. pc = KM("create") /\ made < NumProcs /\ made < PROCS_MAX
      BY <1>a, <2>2 DEF SchedulerInv, TableInv, ControlInv
    <3>2. \A i \in Slots : procs[i].state = "PROC_UNUSED" <=> ~ (i <= made)
      BY <3>1 DEF SchedulerInv, TableInv
    <3>3. \A i \in Slots : i \in Int
      BY DEF Slots
    <3> QED
      BY <2>1, <3>1, <3>2, <3>3
<1>1. made = PROCS_MAX - 1 /\ \A i \in Slots : procs[i].state = "PROC_RUNNABLE"
  <2>1. \A i \in Slots : procs[i].state = "PROC_RUNNABLE" /\ i <= made
    <3>1. \A i \in Slots : procs[i].state \in {"PROC_UNUSED", "PROC_RUNNABLE"}
      BY DEF SchedulerInv, TypeOK, Pcb
    <3>2. \A i \in Slots : procs[i].state # "PROC_UNUSED"
      BY <1>a DEF Free
    <3>3. \A i \in Slots : i \in Int
      BY DEF Slots
    <3> QED
      BY <1>0, <3>1, <3>2, <3>3
  <2>2. PROCS_MAX - 1 \in Slots
    BY DEF Slots
  <2> QED
    BY <1>0, <2>1, <2>2
<1>2. TypeOK'
  BY <1>a DEF SchedulerInv, TypeOK, Words, Labels, KernelLabels
<1>3. TableInv'
  BY <1>a, <1>0 DEF SchedulerInv, TableInv, Top
<1>4. ControlInv'
  BY <1>a, <1>0 DEF SchedulerInv, ControlInv, Labels, KernelLabels, BodyLabels, YeildLabels, Procs, YEILD
<1>5. OwnStack'
  BY <1>a DEF OwnStack, Procs
<1>6. ContextsIntact'
  BY <1>a, <1>0 DEF SchedulerInv, ContextsIntact, Suspended, OnCpu, Procs, YEILD
<1>7. PanicsJustified'
  <2>1. NumProcs >= PROCS_MAX
    BY <1>0, <1>1
  <2> QED
    BY <1>a, <1>1, <2>1 DEF PanicsJustified
<1>f. FillingInv' /\ IdleInv'
  BY <1>a, NotCreating
<1> QED
  BY <1>2, <1>3, <1>4, <1>5, <1>6, <1>7, <1>f DEF SchedulerInv

LEMMA StartSchedulingPreservesInv ==
  ASSUME SchedulerInv, StartScheduling
  PROVE  SchedulerInv'
<1> USE SchedulerAssumption, ContextAssumption
<1> USE DEF StartScheduling, bss, csrs, local, KM, Body, Y, CreateLabels, IdleLabels
<1>1. TypeOK'
  BY DEF SchedulerInv, TypeOK, Words, Labels, KernelLabels, YeildLabels
<1>2. TableInv'
  BY DEF SchedulerInv, TableInv, Top, YEILD
<1>3. ControlInv'
  BY DEF SchedulerInv, ControlInv, Labels, KernelLabels, BodyLabels, YeildLabels,
         Procs, YEILD, CalledYeild, Top
<1>4. OwnStack'
  BY DEF OwnStack, Procs, YEILD
<1>5. ContextsIntact'
  BY DEF SchedulerInv, ContextsIntact, Suspended, OnCpu, Procs, YEILD
<1>6. PanicsJustified'
  BY DEF SchedulerInv, PanicsJustified
<1>f. FillingInv' /\ IdleInv'
  BY NotCreating DEF Procs, YEILD
<1> QED
  BY <1>1, <1>2, <1>3, <1>4, <1>5, <1>6, <1>f DEF SchedulerInv

LEMMA UnreachablePreservesInv ==
  ASSUME SchedulerInv, Unreachable
  PROVE  SchedulerInv'
<1> USE SchedulerAssumption, ContextAssumption
<1> USE DEF Unreachable, bss, cpu, csrs, local, KM, Body, Y, CreateLabels, IdleLabels
<1>1. TypeOK'
  BY DEF SchedulerInv, TypeOK, Words, Labels, KernelLabels
<1>2. TableInv'
  BY DEF SchedulerInv, TableInv, Top
<1>3. ControlInv'
  BY DEF SchedulerInv, ControlInv, Labels, KernelLabels, BodyLabels, YeildLabels, Procs, YEILD
<1>4. OwnStack'
  BY DEF OwnStack, Procs
<1>5. ContextsIntact'
  BY DEF SchedulerInv, ContextsIntact, Suspended, OnCpu, Procs, YEILD
<1>6. PanicsJustified'
  BY DEF SchedulerInv, ControlInv, PanicsJustified
<1>f. FillingInv' /\ IdleInv'
  BY NotCreating DEF Procs, YEILD
<1> QED
  BY <1>1, <1>2, <1>3, <1>4, <1>5, <1>6, <1>f DEF SchedulerInv

\* With a process in the table, the scan of yeild finds one, whoever calls:
\* from idle, slot 1; from process c, at the latest c itself in the last round.
LEMMA ScanFindsProcess ==
  ASSUME SchedulerInv, made = NumProcs, NumProcs > 0,
         curr_proc \in Slots, curr_proc <= NumProcs,
         \A i \in Slots : /\ Eligible(i) <=> i \in Procs
                          /\ i <= NumProcs =>
                               procs[i].pid = IF i = 0 THEN 0 ELSE i + 1
  PROVE  Hits # {} /\ Candidate(FirstHit) \in Procs
<1> USE SchedulerAssumption
<1>1. NumProcs < PROCS_MAX
  BY DEF SchedulerInv, TableInv
<1>2. \A i \in Slots : Candidate(i) \in Slots
  <2> SUFFICES ASSUME NEW i \in Slots PROVE Candidate(i) \in Slots
    OBVIOUS
  <2>1. procs[curr_proc].pid + i \in Int
    BY DEF Slots
  <2> QED
    BY <2>1, ModRange DEF Candidate, Slots
<1>3. \E i \in Slots : Eligible(Candidate(i))
  <2>1. CASE curr_proc = 0
    <3>1. 1 \in Slots /\ 1 \in Procs /\ 1 \in 0 .. PROCS_MAX - 1
      BY <1>1 DEF Slots, Procs
    <3>2. procs[curr_proc].pid + 1 = 1
      BY <2>1
    <3>3. Candidate(1) = 1
      BY <3>1, <3>2, ModIdentity DEF Candidate
    <3> QED
      BY <3>1, <3>3
  <2>2. CASE curr_proc # 0
    <3>1. curr_proc \in Procs /\ curr_proc \in 0 .. PROCS_MAX - 1
      BY <2>2 DEF Slots, Procs
    <3>2. PROCS_MAX - 1 \in Slots
      BY DEF Slots
    <3>3. procs[curr_proc].pid + (PROCS_MAX - 1) = PROCS_MAX + curr_proc
      BY <2>2, <3>1
    <3>4. Candidate(PROCS_MAX - 1) = curr_proc
      BY <3>1, <3>3, ModWrap DEF Candidate
    <3> QED
      BY <3>1, <3>2, <3>4
  <2> QED
    BY <2>1, <2>2
<1>4. Hits \in SUBSET Nat /\ Hits # {}
  BY <1>3 DEF Hits, Slots
<1>5. FirstHit \in Hits
  BY <1>4, MinIsLeast DEF FirstHit
<1> QED
  BY <1>2, <1>4, <1>5 DEF Hits

LEMMA PickPreservesInv ==
  ASSUME SchedulerInv, Pick
  PROVE  SchedulerInv'
<1> USE SchedulerAssumption, ContextAssumption
<1> USE DEF KM, Body, Y, CreateLabels, IdleLabels
<1>a. /\ pc = Y("pick")
      /\ next' = IF Hits = {} THEN idle_proc ELSE Candidate(FirstHit)
      /\ pc' = IF next' = curr_proc THEN ra ELSE Y("sscratch")
      /\ UNCHANGED <<procs, curr_proc, idle_proc, stack, ra, sp, sregs, stvec, sscratch,
                     prev_proc, proc, made, console, panic>>
  BY DEF Pick, bss, cpu, csrs
<1>b. /\ made = NumProcs /\ NumProcs < PROCS_MAX /\ panic = "none" /\ idle_proc = 0
      /\ CalledYeild(curr_proc)
      /\ curr_proc = 0 \/ sscratch = Top(curr_proc)
      /\ \A i \in Slots :
           IF i <= made
             THEN /\ procs[i].state = "PROC_RUNNABLE"
                  /\ procs[i].pid = IF i = 0 THEN 0 ELSE i + 1
             ELSE procs[i].state = "PROC_UNUSED"
  BY <1>a DEF SchedulerInv, TableInv, ControlInv, YeildLabels, YEILD
<1>c. curr_proc \in Slots /\ curr_proc <= NumProcs /\ Procs \subseteq Slots
  BY <1>b DEF CalledYeild, Slots, Procs
<1>d. \A i \in Slots : /\ Eligible(i) <=> i \in Procs
                       /\ i <= NumProcs =>
                            procs[i].pid = IF i = 0 THEN 0 ELSE i + 1
  BY <1>b DEF Eligible, Procs, Slots
<1>1. \/ NumProcs > 0 /\ next' \in Procs
      \/ NumProcs = 0 /\ curr_proc = 0 /\ next' = 0
  <2>1. CASE NumProcs > 0
    BY <1>a, <1>b, <1>c, <1>d, <2>1, ScanFindsProcess
  <2>2. CASE NumProcs = 0
    <3>1. \A i \in Slots : Candidate(i) \in Slots
      <4> SUFFICES ASSUME NEW i \in Slots PROVE Candidate(i) \in Slots
        OBVIOUS
      <4>1. procs[curr_proc].pid + i \in Int
        BY <1>c, <1>d DEF Slots
      <4> QED
        BY <4>1, ModRange DEF Candidate, Slots
    <3>2. Hits = {}
      BY <1>d, <2>2, <3>1 DEF Hits, Procs
    <3> QED
      BY <1>a, <1>b, <2>2, <3>2 DEF CalledYeild, Procs
  <2> QED
    BY <2>1, <2>2
<1>2. next' \in Slots
  BY <1>1, <1>c
<1>3. \/ /\ pc' = KM("unreachable") /\ NumProcs = 0
      \/ /\ pc' = Y("sscratch") /\ next' \in Procs /\ next' # curr_proc
      \/ /\ pc' = Body(curr_proc, "delay")
         /\ curr_proc \in Procs
         /\ sp = [base |-> curr_proc, depth |-> LOCALS]
         /\ sscratch = Top(curr_proc)
  BY <1>a, <1>b, <1>1 DEF CalledYeild, Procs
<1>4. TypeOK'
  <2>1. pc' \in Words
    BY <1>3 DEF Words, Labels, KernelLabels, BodyLabels, YeildLabels
  <2> QED
    BY <1>a, <1>2, <2>1 DEF SchedulerInv, TypeOK
<1>5. TableInv'
  BY <1>a, <1>3 DEF SchedulerInv, TableInv, YEILD, Procs
<1>6. ControlInv'
  BY <1>a, <1>b, <1>3 DEF ControlInv, CalledYeild, Labels, KernelLabels, BodyLabels,
                          YeildLabels, Procs, YEILD
<1>7. OwnStack'
  BY <1>a, <1>3 DEF OwnStack, Procs, YEILD, Top
<1>8. ContextsIntact'
  <2>1. Suspended' = Suspended
    BY <1>a, <1>3 DEF Suspended, OnCpu, Procs, YEILD
  <2> QED
    BY <1>a, <2>1 DEF SchedulerInv, ContextsIntact
<1>9. PanicsJustified'
  BY <1>a DEF SchedulerInv, PanicsJustified
<1>f. FillingInv' /\ IdleInv'
  BY <1>a, <1>3, NotCreating DEF Procs, YEILD
<1> QED
  BY <1>4, <1>5, <1>6, <1>7, <1>8, <1>9, <1>f DEF SchedulerInv

LEMMA SetSscratchPreservesInv ==
  ASSUME SchedulerInv, SetSscratch
  PROVE  SchedulerInv'
<1> USE SchedulerAssumption, ContextAssumption
<1> USE DEF SetSscratch, TrapStack, bss, cpu, local, KM, Body, Y, CreateLabels, IdleLabels
<1>0. next \in Procs /\ Procs \subseteq Slots
  BY DEF SchedulerInv, TableInv, ControlInv, Procs, Slots, YeildLabels, YEILD
<1>1. TypeOK'
  <2>1. sscratch' \in StackPointers
    BY <1>0 DEF Top, StackPointers, Stacks, Depth
  <2> QED
    BY <2>1 DEF SchedulerInv, TypeOK, Words, Labels, YeildLabels
<1>2. TableInv'
  BY DEF SchedulerInv, TableInv, Top, YEILD
<1>3. ControlInv'
  BY DEF SchedulerInv, ControlInv, Labels, KernelLabels, BodyLabels, YeildLabels,
         Procs, YEILD, CalledYeild, Top
<1>4. OwnStack'
  BY DEF OwnStack, Procs, YEILD
<1>5. ContextsIntact'
  BY DEF SchedulerInv, ContextsIntact, Suspended, OnCpu, Procs, YEILD
<1>6. PanicsJustified'
  BY DEF SchedulerInv, PanicsJustified
<1>f. FillingInv' /\ IdleInv'
  BY NotCreating DEF Procs, YEILD
<1> QED
  BY <1>1, <1>2, <1>3, <1>4, <1>5, <1>6, <1>f DEF SchedulerInv

LEMMA SetCurrProcPreservesInv ==
  ASSUME SchedulerInv, SetCurrProc
  PROVE  SchedulerInv'
<1> USE SchedulerAssumption, ContextAssumption
<1> USE DEF SetCurrProc, cpu, csrs, KM, Body, Y, CreateLabels, IdleLabels
<1>1. TypeOK'
  BY DEF SchedulerInv, TypeOK, Words, Labels, YeildLabels
<1>2. TableInv'
  BY DEF SchedulerInv, TableInv, Top, YEILD
<1>3. ControlInv'
  BY DEF SchedulerInv, ControlInv, Labels, KernelLabels, BodyLabels, YeildLabels,
         Procs, YEILD, CalledYeild, Top
<1>4. OwnStack'
  BY DEF OwnStack, Procs, YEILD
<1>5. ContextsIntact'
  BY DEF SchedulerInv, ContextsIntact, Suspended, OnCpu, Procs, YEILD
<1>6. PanicsJustified'
  BY DEF SchedulerInv, PanicsJustified
<1>f. FillingInv' /\ IdleInv'
  BY NotCreating DEF Procs, YEILD
<1> QED
  BY <1>1, <1>2, <1>3, <1>4, <1>5, <1>6, <1>f DEF SchedulerInv

LEMMA SaveContextPreservesInv ==
  ASSUME SchedulerInv, SaveContext
  PROVE  SchedulerInv'
<1> USE SchedulerAssumption, ContextAssumption
<1> USE DEF KM, Body, Y, CreateLabels, IdleLabels
<1> DEFINE saved == PushContext(stack[sp.base], sp.depth, ra, sregs)
<1>a. /\ pc = Y("save")
      /\ stack' = [stack EXCEPT ![sp.base] = saved]
      /\ sp' = [sp EXCEPT !.depth = @ + FRAME]
      /\ procs' = [procs EXCEPT ![prev_proc].sp = sp']
      /\ pc' = Y("restore")
      /\ UNCHANGED <<curr_proc, idle_proc, ra, sregs, stvec, sscratch, next, prev_proc, proc,
                     made, console, panic>>
  BY DEF SaveContext, SwitchedOut, csrs, local
<1>b. /\ TypeOK /\ TableInv /\ ControlInv /\ ContextsIntact /\ PanicsJustified
      /\ CalledYeild(prev_proc) /\ next \in Procs /\ prev_proc # next
      /\ made = NumProcs
  BY <1>a DEF SchedulerInv, ControlInv, YeildLabels
<1>c. /\ procs \in [Slots -> Pcb]
      /\ stack \in [Stacks -> Memory]
      /\ ra \in Words /\ sregs \in [SReg -> Vals]
      /\ Procs \subseteq Slots /\ 0 \in Slots
  <2>1. Procs \subseteq Slots /\ 0 \in Slots
    BY <1>b DEF TableInv, Procs, Slots
  <2> QED
    BY <1>b, <2>1 DEF TypeOK, Memory
<1>d. /\ sp.base \in Stacks
      /\ sp.depth \in Nat /\ sp.depth + FRAME <= STACK_WORDS
      /\ sp.depth + FRAME \in Depth
      /\ prev_proc \in Slots
      /\ sp' = [base |-> sp.base, depth |-> sp.depth + FRAME]
  <2>1. /\ sp = [base |-> sp.base, depth |-> sp.depth]
        /\ \/ prev_proc = 0 /\ sp.base = BOOT /\ sp.depth = 0
           \/ prev_proc \in Procs /\ sp.base = prev_proc /\ sp.depth = LOCALS
    BY <1>b DEF CalledYeild, Top
  <2>2. sp' = [base |-> sp.base, depth |-> sp.depth + FRAME]
    BY <1>a, <2>1
  <2>3. sp.depth \in Nat /\ sp.depth + FRAME <= STACK_WORDS /\ sp.depth + FRAME \in Depth
    BY <2>1 DEF FRAME, Depth
  <2> QED
    BY <1>c, <2>1, <2>2, <2>3 DEF Stacks
<1>1. /\ saved \in Memory
      /\ SavedRa(saved, sp.depth + FRAME) = ra
      /\ SavedSRegs(saved, sp.depth + FRAME) = sregs
  BY <1>c, <1>d, PopAfterPush
<1>2. TypeOK'
  <2>1. stack' \in [Stacks -> [1 .. STACK_WORDS -> Words]]
    BY <1>a, <1>c, <1>d, <1>1 DEF Memory
  <2>2. sp' \in StackPointers
    BY <1>d DEF StackPointers
  <2>3. procs' \in [Slots -> Pcb]
    BY <1>a, <1>c, <1>d, <2>2 DEF Pcb
  <2>4. pc' \in Words
    BY <1>a DEF Words, Labels, YeildLabels
  <2> QED
    BY <1>a, <1>b, <2>1, <2>2, <2>3, <2>4 DEF TypeOK
<1>3. TableInv'
  <2>1. \A i \in Slots : procs'[i].state = procs[i].state /\ procs'[i].pid = procs[i].pid
    BY <1>a, <1>c, <1>d DEF Pcb
  <2> QED
    BY <1>a, <1>b, <2>1 DEF TableInv, YEILD
<1>4. ControlInv'
  BY <1>a, <1>b DEF ControlInv, Labels, KernelLabels, BodyLabels, YeildLabels, Procs, YEILD
<1>5. OwnStack'
  BY <1>a DEF OwnStack, Procs, YEILD
<1>6. ContextsIntact'
  <2> SUFFICES ASSUME NEW p \in Procs
               PROVE  /\ procs'[p].sp.base = p
                      /\ \/ /\ SavedRa(stack'[p], procs'[p].sp.depth) = Body(p, "start")
                            /\ procs'[p].sp.depth = FRAME
                         \/ /\ SavedRa(stack'[p], procs'[p].sp.depth) = Body(p, "delay")
                            /\ procs'[p].sp.depth = LOCALS + FRAME
                      /\ SavedSRegs(stack'[p], procs'[p].sp.depth) \in [SReg -> Vals]
    BY DEF ContextsIntact, Suspended
  <2>1. CASE p = prev_proc
    <3>1. sp.base = p /\ sp.depth = LOCALS /\ ra = Body(p, "delay")
      BY <1>b, <2>1 DEF CalledYeild, Procs
    <3>2. procs'[p].sp = sp' /\ stack'[p] = saved
      BY <1>a, <1>c, <1>d, <2>1, <3>1 DEF Pcb, Stacks
    <3> QED
      BY <1>c, <1>d, <1>1, <3>1, <3>2
  <2>2. CASE p # prev_proc
    <3>1. sp.base # p
      BY <1>b, <2>2 DEF CalledYeild, Top, BOOT, Procs
    <3>2. procs'[p] = procs[p] /\ stack'[p] = stack[p]
      BY <1>a, <1>c, <2>2, <3>1 DEF Stacks
    <3>3. p \in Suspended
      BY <1>a, <1>b, <2>2 DEF Suspended, OnCpu, Procs
    <3> QED
      BY <1>b, <3>2, <3>3 DEF ContextsIntact
  <2> QED
    BY <2>1, <2>2
<1>7. PanicsJustified'
  BY <1>a, <1>b DEF PanicsJustified, ControlInv, YEILD
<1>f. FillingInv' /\ IdleInv'
  BY <1>a, NotCreating DEF Procs, YEILD
<1> QED
  BY <1>2, <1>3, <1>4, <1>5, <1>6, <1>7, <1>f DEF SchedulerInv

LEMMA RestoreContextPreservesInv ==
  ASSUME SchedulerInv, RestoreContext
  PROVE  SchedulerInv'
<1> USE SchedulerAssumption, ContextAssumption
<1> USE DEF KM, Body, Y, CreateLabels, IdleLabels
<1> DEFINE saved == procs[next].sp
<1>a. /\ pc = Y("restore")
      /\ ra' = SavedRa(stack[saved.base], saved.depth)
      /\ sregs' = SavedSRegs(stack[saved.base], saved.depth)
      /\ sp' = [saved EXCEPT !.depth = @ - FRAME]
      /\ pc' = ra'
      /\ UNCHANGED <<procs, curr_proc, idle_proc, stack, stvec, sscratch, next, prev_proc, proc,
                     made, console, panic>>
  BY DEF RestoreContext, bss, csrs, local
<1>b. /\ TypeOK /\ TableInv /\ ControlInv /\ ContextsIntact /\ PanicsJustified
      /\ next \in Procs /\ curr_proc = next /\ sscratch = Top(next)
      /\ made = NumProcs /\ panic = "none" /\ Procs \subseteq Slots
  BY <1>a DEF SchedulerInv, TableInv, ControlInv, YeildLabels, Procs, Slots, YEILD
<1>c. next \in Suspended
  BY <1>a, <1>b DEF Suspended, OnCpu, Procs, NULL, YEILD
<1>d. /\ saved.base = next
      /\ \/ ra' = Body(next, "start") /\ saved.depth = FRAME
         \/ ra' = Body(next, "delay") /\ saved.depth = LOCALS + FRAME
      /\ sregs' \in [SReg -> Vals]
  BY <1>a, <1>b, <1>c DEF ContextsIntact
<1>e. sp' = [base |-> next, depth |-> IF ra' = Body(next, "start") THEN 0 ELSE LOCALS]
  <2>1. saved \in StackPointers
    BY <1>b DEF TypeOK, Pcb
  <2>2. sp' = [base |-> saved.base, depth |-> saved.depth - FRAME]
    <3>1. sp' = [saved EXCEPT !.depth = @ - FRAME]
      BY <1>a
    <3>2. /\ DOMAIN saved = {"base", "depth"}
          /\ saved = [base |-> saved.base, depth |-> saved.depth]
      BY ONLY <2>1 DEF StackPointers
    <3> HIDE DEF saved
    <3> QED
      BY ONLY <3>1, <3>2
  <2>3. FRAME - FRAME = 0 /\ LOCALS + FRAME - FRAME = LOCALS
    BY DEF FRAME
  <2>4. CASE ra' = Body(next, "start") /\ saved.depth = FRAME
    BY <1>d, <2>2, <2>3, <2>4
  <2>5. CASE ra' = Body(next, "delay") /\ saved.depth = LOCALS + FRAME
    <3>1. ra' # Body(next, "start")
      BY <2>5
    <3>2. saved.depth - FRAME = LOCALS
      BY <2>5 DEF FRAME
    <3>3. saved.base = next
      BY <1>d
    <3> HIDE DEF saved, Body
    <3> QED
      BY ONLY <2>2, <3>1, <3>2, <3>3
  <2> QED
    BY <1>d, <2>4, <2>5
<1>1. TypeOK'
  <2>1. ra' \in Words /\ pc' \in Words
    BY <1>a, <1>b, <1>d DEF Words, Labels, BodyLabels
  <2>2. sp' \in StackPointers
    BY <1>b, <1>e DEF StackPointers, Stacks, Depth, FRAME
  <2> QED
    BY <1>a, <1>b, <1>d, <2>1, <2>2 DEF TypeOK
<1>2. TableInv'
  BY <1>a, <1>b, <1>d DEF TableInv, Procs, YEILD
<1>3. ControlInv'
  BY <1>a, <1>b, <1>d DEF ControlInv, Labels, KernelLabels, BodyLabels, YeildLabels,
                          Procs, YEILD
<1>4. OwnStack'
  BY <1>a, <1>b, <1>d, <1>e DEF OwnStack, Procs, Top
<1>5. ContextsIntact'
  <2>1. Suspended' \subseteq Suspended
    BY <1>a, <1>b, <1>d DEF Suspended, OnCpu, Procs, NULL, YEILD
  <2> QED
    BY <1>a, <1>b, <2>1 DEF ContextsIntact
<1>6. PanicsJustified'
  BY <1>a, <1>b DEF PanicsJustified
<1>f. FillingInv' /\ IdleInv'
  BY <1>a, <1>b, <1>d, NotCreating DEF Procs, YEILD
<1> QED
  BY <1>1, <1>2, <1>3, <1>4, <1>5, <1>6, <1>f DEF SchedulerInv

LEMMA PutcharPreservesInv ==
  ASSUME SchedulerInv, NEW p \in Procs, Putchar(p)
  PROVE  SchedulerInv'
<1> USE SchedulerAssumption, ContextAssumption
<1> USE DEF Putchar, bss, cpu, csrs, local, KM, Body, Y, CreateLabels, IdleLabels
<1>0. SchedulerInv
  OBVIOUS
<1>1. TypeOK'
  BY DEF SchedulerInv, TypeOK, Words, Labels, BodyLabels
<1>2. TableInv'
  BY DEF SchedulerInv, TableInv, Procs
<1>3. ControlInv'
  BY DEF SchedulerInv, ControlInv, Labels, BodyLabels, YeildLabels, Procs, YEILD, CalledYeild
<1>4. OwnStack'
  BY DEF SchedulerInv, OwnStack, Procs
<1>5. ContextsIntact'
  BY DEF SchedulerInv, ContextsIntact, Suspended, OnCpu, Procs, YEILD
<1>6. PanicsJustified'
  BY DEF SchedulerInv, PanicsJustified
<1>f. FillingInv' /\ IdleInv'
  BY NotCreating DEF Procs, YEILD
<1> QED
  BY <1>1, <1>2, <1>3, <1>4, <1>5, <1>6, <1>f DEF SchedulerInv

\* What the compiled body of a process does to its own registers and frame.
LEMMA ComputeType ==
  ASSUME TypeOK, NEW d \in Int, Compute(d), sp.base \in Stacks
  PROVE  /\ sregs' \in [SReg -> Vals]
         /\ stack' \in [Stacks -> [1 .. STACK_WORDS -> Words]]
         /\ \A b \in Stacks : b # sp.base => stack'[b] = stack[b]
<1> USE SchedulerAssumption
<1>1. PICK w \in [1 .. LOCALS -> Vals] :
        stack' = [stack EXCEPT ![sp.base] =
                    [i \in 1 .. STACK_WORDS |->
                       IF i \in d + 1 .. d + LOCALS THEN w[i - d] ELSE @[i]]]
  BY DEF Compute
<1>2. \A i \in d + 1 .. d + LOCALS : i - d \in 1 .. LOCALS
  OBVIOUS
<1>3. stack[sp.base] \in [1 .. STACK_WORDS -> Words]
  BY DEF TypeOK
<1>4. [i \in 1 .. STACK_WORDS |->
        IF i \in d + 1 .. d + LOCALS THEN w[i - d] ELSE stack[sp.base][i]]
        \in [1 .. STACK_WORDS -> Words]
  BY <1>2, <1>3 DEF Words
<1>5. stack \in [Stacks -> [1 .. STACK_WORDS -> Words]]
  BY DEF TypeOK
<1>6. sregs' \in [SReg -> Vals]
  BY DEF Compute
<1> QED
  BY <1>1, <1>4, <1>5, <1>6

LEMMA StartPreservesInv ==
  ASSUME SchedulerInv, NEW p \in Procs, Start(p)
  PROVE  SchedulerInv'
<1> USE SchedulerAssumption, ContextAssumption
<1> USE DEF KM, Body, Y, CreateLabels, IdleLabels
<1>a. /\ pc = Body(p, "start")
      /\ Compute(sp.depth)
      /\ sp' = [sp EXCEPT !.depth = @ + LOCALS]
      /\ console' = <<p, "start">>
      /\ pc' = Body(p, "putchar")
      /\ UNCHANGED <<procs, curr_proc, idle_proc, ra, stvec, sscratch, next, prev_proc, proc,
                     made, panic>>
  BY DEF Start, csrs, local
<1>b. /\ TypeOK /\ TableInv /\ ControlInv /\ ContextsIntact /\ PanicsJustified
      /\ curr_proc = p /\ sscratch = Top(p)
      /\ sp = [base |-> p, depth |-> 0]
      /\ made = NumProcs /\ panic = "none" /\ Procs \subseteq Slots
  BY <1>a DEF SchedulerInv, TableInv, ControlInv, OwnStack, BodyLabels, Procs, Slots
<1>c. sp' = [base |-> p, depth |-> LOCALS] /\ sp.depth \in Int /\ sp.base = p /\ p \in Stacks
  BY <1>a, <1>b DEF Stacks
<1>d. /\ sregs' \in [SReg -> Vals]
      /\ stack' \in [Stacks -> [1 .. STACK_WORDS -> Words]]
      /\ \A b \in Stacks : b # p => stack'[b] = stack[b]
  BY <1>a, <1>b, <1>c, ComputeType
<1>1. TypeOK'
  <2>1. sp' \in StackPointers
    BY <1>b, <1>c DEF StackPointers, Stacks, Depth, FRAME
  <2>2. pc' \in Words
    BY <1>a DEF Words, Labels, BodyLabels
  <2>3. console' \in {<<0, "nothing">>} \cup (Procs \X {"start", "char"})
    BY <1>a
  <2> QED
    BY <1>a, <1>b, <1>d, <2>1, <2>2, <2>3 DEF TypeOK
<1>2. TableInv'
  BY <1>a, <1>b DEF TableInv, Procs
<1>3. ControlInv'
  BY <1>a, <1>b DEF ControlInv, Labels, KernelLabels, BodyLabels, YeildLabels, Procs, YEILD
<1>4. OwnStack'
  BY <1>a, <1>b, <1>c DEF OwnStack, Procs, Top
<1>5. ContextsIntact'
  <2>1. Suspended' = Suspended /\ p \notin Suspended
    BY <1>a, <1>b DEF Suspended, OnCpu, Procs, YEILD
  <2>2. \A q \in Suspended : q \in Stacks /\ q # p /\ stack'[q] = stack[q]
    BY <1>b, <1>d, <2>1 DEF Suspended, Stacks
  <2> QED
    BY <1>a, <1>b, <2>1, <2>2 DEF ContextsIntact
<1>6. PanicsJustified'
  BY <1>a, <1>b DEF PanicsJustified
<1>f. FillingInv' /\ IdleInv'
  BY <1>a, NotCreating DEF Procs, YEILD
<1> QED
  BY <1>1, <1>2, <1>3, <1>4, <1>5, <1>6, <1>f DEF SchedulerInv

LEMMA DelayPreservesInv ==
  ASSUME SchedulerInv, NEW p \in Procs, Delay(p)
  PROVE  SchedulerInv'
<1> USE SchedulerAssumption, ContextAssumption
<1> USE DEF KM, Body, Y, CreateLabels, IdleLabels
<1>a. /\ pc = Body(p, "delay")
      /\ Compute(sp.depth - LOCALS)
      /\ pc' = Body(p, "putchar")
      /\ UNCHANGED <<procs, curr_proc, idle_proc, ra, sp, stvec, sscratch, next,
                     prev_proc, proc, made, console, panic>>
  BY DEF Delay, csrs, local
<1>b. /\ TypeOK /\ TableInv /\ ControlInv /\ ContextsIntact /\ PanicsJustified
      /\ curr_proc = p /\ sscratch = Top(p)
      /\ sp = [base |-> p, depth |-> LOCALS]
      /\ made = NumProcs /\ panic = "none" /\ Procs \subseteq Slots
  BY <1>a DEF SchedulerInv, TableInv, ControlInv, OwnStack, BodyLabels, Procs, Slots
<1>c. sp.depth - LOCALS \in Int /\ sp.base = p /\ p \in Stacks
  BY <1>a, <1>b DEF Stacks
<1>d. /\ sregs' \in [SReg -> Vals]
      /\ stack' \in [Stacks -> [1 .. STACK_WORDS -> Words]]
      /\ \A b \in Stacks : b # p => stack'[b] = stack[b]
  BY <1>a, <1>b, <1>c, ComputeType
<1>1. TypeOK'
  <2>1. pc' \in Words
    BY <1>a DEF Words, Labels, BodyLabels
  <2> QED
    BY <1>a, <1>b, <1>d, <2>1 DEF TypeOK
<1>2. TableInv'
  BY <1>a, <1>b DEF TableInv, Procs
<1>3. ControlInv'
  BY <1>a, <1>b DEF ControlInv, Labels, KernelLabels, BodyLabels, YeildLabels, Procs, YEILD
<1>4. OwnStack'
  BY <1>a, <1>b DEF OwnStack, Procs
<1>5. ContextsIntact'
  <2>1. Suspended' = Suspended /\ p \notin Suspended
    BY <1>a, <1>b DEF Suspended, OnCpu, Procs, YEILD
  <2>2. \A q \in Suspended : q \in Stacks /\ q # p /\ stack'[q] = stack[q]
    BY <1>b, <1>d, <2>1 DEF Suspended, Stacks
  <2> QED
    BY <1>a, <1>b, <2>1, <2>2 DEF ContextsIntact
<1>6. PanicsJustified'
  BY <1>a, <1>b DEF PanicsJustified
<1>f. FillingInv' /\ IdleInv'
  BY <1>a, NotCreating DEF Procs, YEILD
<1> QED
  BY <1>1, <1>2, <1>3, <1>4, <1>5, <1>6, <1>f DEF SchedulerInv

LEMMA CallYeildPreservesInv ==
  ASSUME SchedulerInv, NEW p \in Procs, CallYeild(p)
  PROVE  SchedulerInv'
<1> USE SchedulerAssumption, ContextAssumption
<1> USE DEF CallYeild, bss, csrs, local, KM, Body, Y, CreateLabels, IdleLabels
<1>0. /\ curr_proc = p /\ sscratch = Top(p)
      /\ sp = [base |-> p, depth |-> LOCALS]
      /\ made = NumProcs /\ panic = "none"
  BY DEF SchedulerInv, ControlInv, OwnStack, BodyLabels, Procs
<1>1. TypeOK'
  BY DEF SchedulerInv, TypeOK, Words, Labels, BodyLabels, YeildLabels
<1>2. TableInv'
  BY DEF SchedulerInv, TableInv, Procs, YEILD
<1>3. ControlInv'
  BY <1>0 DEF SchedulerInv, ControlInv, Labels, KernelLabels, BodyLabels, YeildLabels,
              Procs, YEILD, CalledYeild
<1>4. OwnStack'
  BY DEF OwnStack, Procs, YEILD
<1>5. ContextsIntact'
  BY DEF SchedulerInv, ContextsIntact, Suspended, OnCpu, Procs, YEILD
<1>6. PanicsJustified'
  BY DEF SchedulerInv, PanicsJustified
<1>f. FillingInv' /\ IdleInv'
  BY NotCreating DEF Procs, YEILD
<1> QED
  BY <1>1, <1>2, <1>3, <1>4, <1>5, <1>6, <1>f DEF SchedulerInv

LEMMA StutterPreservesInv == SchedulerInv /\ UNCHANGED vars => SchedulerInv'
<1> SUFFICES ASSUME SchedulerInv, UNCHANGED vars PROVE SchedulerInv'
  OBVIOUS
<1> USE DEF vars, bss, cpu, csrs, local
<1>1. TypeOK'
  BY DEF SchedulerInv, TypeOK
<1>4. TableInv' /\ FillingInv' /\ IdleInv' /\ PanicsJustified'
  BY DEF SchedulerInv, TableInv, FillingInv, IdleInv, PanicsJustified
<1>2. ControlInv'
  BY DEF SchedulerInv, ControlInv, CalledYeild
<1>3. OwnStack' /\ ContextsIntact'
  BY DEF SchedulerInv, OwnStack, ContextsIntact, Suspended, OnCpu
<1> QED
  BY <1>1, <1>2, <1>3, <1>4 DEF SchedulerInv
-----------------------------------------------------------------------------
(* The theorems. *)

LEMMA NextPreservesInv == SchedulerInv /\ [Next]_vars => SchedulerInv'
<1> SUFFICES ASSUME SchedulerInv, [Next]_vars PROVE SchedulerInv'
  OBVIOUS
<1>1. CASE KernelMain
  BY <1>1, ClearBssPreservesInv, SetTrapVectorPreservesInv, CreateIdlePreservesInv,
     CreatePreservesInv, NoFreeSlotPreservesInv, SetPidPreservesInv, SetStatePreservesInv,
     SetSpPreservesInv, ReturnIdlePreservesInv, ReturnPreservesInv,
     SetIdlePidPreservesInv, SetIdleCurrentPreservesInv, StartSchedulingPreservesInv,
     UnreachablePreservesInv DEF KernelMain, create_process
<1>2. CASE Yeild
  BY <1>2, PickPreservesInv, SetSscratchPreservesInv, SetCurrProcPreservesInv,
     SaveContextPreservesInv, RestoreContextPreservesInv DEF Yeild
<1>3. ASSUME NEW p \in Procs, Entry(p)
      PROVE  SchedulerInv'
  BY <1>3, StartPreservesInv, PutcharPreservesInv, CallYeildPreservesInv,
     DelayPreservesInv DEF Entry
<1>4. CASE UNCHANGED vars
  BY <1>4, StutterPreservesInv
<1> QED
  BY <1>1, <1>2, <1>3, <1>4 DEF Next

\* The invariant every other theorem is read off from.
THEOREM SchedulerInvariant == Spec => []SchedulerInv
<1>1. Init => SchedulerInv
  BY InitEstablishesInv
<1>2. SchedulerInv /\ [Next]_vars => SchedulerInv'
  BY NextPreservesInv
<1> QED
  BY <1>1, <1>2, PTL DEF Spec

\* Type correctness.  RestoreContext jumps to a word read from a stack, so
\* even this needs the saved contexts to be intact.
THEOREM TypeCorrect == Spec => []TypeOK
<1>1. SchedulerInv => TypeOK
  BY DEF SchedulerInv
<1> QED
  BY <1>1, SchedulerInvariant, PTL

\* A process only ever runs on its own stack, with curr_proc and sscratch its own.
THEOREM RunsOnOwnStack == Spec => []OwnStack
<1>1. SchedulerInv => OwnStack
  BY DEF SchedulerInv
<1> QED
  BY <1>1, SchedulerInvariant, PTL

\* A process that does not have the hart has a complete context on its own stack.
THEOREM ContextsStayIntact == Spec => []ContextsIntact
<1>1. SchedulerInv => ContextsIntact
  BY DEF SchedulerInv
<1> QED
  BY <1>1, SchedulerInvariant, PTL

\* kernel_main panics only when the table is full or there is nothing to run.
THEOREM PanicsAreJustified == Spec => []PanicsJustified
<1>1. SchedulerInv => PanicsJustified
  BY DEF SchedulerInv
<1> QED
  BY <1>1, SchedulerInvariant, PTL
=============================================================================
