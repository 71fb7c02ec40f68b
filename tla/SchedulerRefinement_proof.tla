---------------------- MODULE SchedulerRefinement_proof ----------------------
(***************************************************************************)
(* The scheduler implements RoundRobin, step by step: most of its steps    *)
(* are invisible there, and the one that loads a saved context is the      *)
(* moment the turn passes on.  It does so with address spaces to switch,   *)
(* too, and the two fences of yeild's asm block keep translations apart.   *)
(***************************************************************************)
EXTENDS SchedulerRefinement, AddressSwitch, Scheduler_proof

\* Whose turn is next, and what the caller of yeild has left on its stack
\* when the hart no longer holds it for sure.  In kernel_main it is nobody's.
TurnsInv ==
  /\ pc \in KernelLabels => curr_proc \notin Procs
  /\ pc \in {Y("sscratch"), Y("curr_proc")} => next = RR!After(curr_proc)
  /\ pc \in {Y("save"), Y("restore")} => next = RR!After(prev_proc)
  /\ pc = Y("restore") =>
       /\ prev_proc \in 0 .. NumProcs /\ prev_proc # next
       /\ prev_proc \in Procs =>
            SavedAt(prev_proc) = Body(prev_proc, "delay") /\ SavedRegs(prev_proc) = sregs

\* kernel_main stays in kernel_main and create_process, until it calls yeild.
LEMMA KernelMainPlaces ==
  ASSUME KernelMain
  PROVE  pc \in KernelLabels /\ pc' \in KernelLabels \cup {Y("pick")}
BY DEF KernelMain, ClearBss, SetTrapVector, create_process, CreateIdle, Create,
   CreateProcess, NoFreeSlot, SetPid, SetState, SetSp, ReturnIdle, Return, SetIdlePid,
   SetIdleCurrent, Store, StartScheduling, Unreachable, KernelLabels, CreateLabels,
   IdleLabels

\* The scan of yeild finds the process after the caller in the table, the
\* first one after the last.
LEMMA ScanInOrder ==
  ASSUME SchedulerInv, Pick, NumProcs > 0
  PROVE  next' = RR!After(curr_proc) /\ curr_proc \in 0 .. NumProcs
<1> USE SchedulerAssumption
<1>1. /\ made = NumProcs /\ NumProcs < PROCS_MAX
      /\ CalledYeild(curr_proc)
      /\ \A i \in Slots :
           IF i <= made
             THEN /\ procs[i].state = "PROC_RUNNABLE"
                  /\ procs[i].pid = IF i = 0 THEN 0 ELSE i + 1
             ELSE procs[i].state = "PROC_UNUSED"
  BY DEF Pick, SchedulerInv, TableInv, ControlInv, YeildLabels, Y, YEILD, KM,
         CreateLabels, IdleLabels
<1>2. curr_proc \in Slots /\ curr_proc \in 0 .. NumProcs /\ Procs \subseteq Slots
  BY <1>1 DEF CalledYeild, Slots, Procs
<1>3. \A i \in Slots : /\ Eligible(i) <=> i \in Procs
                       /\ i <= NumProcs =>
                            procs[i].pid = IF i = 0 THEN 0 ELSE i + 1
  BY <1>1 DEF Eligible, Procs, Slots
<1>4. Hits # {} /\ Candidate(FirstHit) \in Procs
  BY <1>1, <1>2, <1>3, ScanFindsProcess
<1>5. FirstHit \in Hits /\ \A i \in Hits : FirstHit <= i
  <2>1. Hits \in SUBSET Nat
    BY DEF Hits, Slots
  <2> QED
    BY <1>4, <2>1, MinIsLeast DEF FirstHit
<1>6. FirstHit \in Slots /\ FirstHit \in Nat
  BY <1>5 DEF Hits, Slots
<1>7. next' = Candidate(FirstHit)
  BY <1>4 DEF Pick
<1>8. \A i \in Slots : Candidate(i) \in Procs => FirstHit <= i
  <2>1. \A i \in Slots : Candidate(i) \in Procs => i \in Hits
    BY <1>2, <1>3 DEF Hits
  <2> QED
    BY <1>5, <2>1
<1>9. Candidate(FirstHit) = IF curr_proc = NumProcs THEN 1 ELSE curr_proc + 1
  <2>1. CASE curr_proc = 0
    <3>1. \A i \in Slots : Candidate(i) = i
      BY <1>2, <1>3, <2>1, ModIdentity DEF Candidate, Slots
    <3>2. 1 \in Slots /\ 1 \in Procs
      BY <1>1 DEF Slots, Procs
    <3>3. FirstHit <= 1
      BY <1>8, <3>1, <3>2
    <3>4. FirstHit # 0
      BY <1>4, <1>6, <3>1 DEF Procs
    <3> QED
      BY <1>6, <2>1, <3>1, <3>3, <3>4
  <2>2. CASE curr_proc # 0 /\ curr_proc # NumProcs
    <3>1. procs[curr_proc].pid + 0 = curr_proc + 1 /\ 0 \in Slots
      BY <1>2, <1>3, <2>2 DEF Slots
    <3>2. curr_proc + 1 \in 0 .. PROCS_MAX - 1 /\ curr_proc + 1 \in Procs
      BY <1>1, <1>2, <2>2 DEF Procs
    <3>3. Candidate(0) = curr_proc + 1
      BY <3>1, <3>2, ModIdentity DEF Candidate
    <3>4. FirstHit <= 0
      BY <1>8, <3>1, <3>2, <3>3
    <3> QED
      BY <1>6, <2>2, <3>3, <3>4
  <2>3. CASE curr_proc # 0 /\ curr_proc = NumProcs
    <3>1. procs[curr_proc].pid = NumProcs + 1
      BY <1>2, <1>3, <2>3
    <3>2. \A i \in Slots : i < PROCS_MAX - NumProcs - 1 => Candidate(i) = NumProcs + 1 + i
      <4> SUFFICES ASSUME NEW i \in Slots, i < PROCS_MAX - NumProcs - 1
                   PROVE  Candidate(i) = NumProcs + 1 + i
        OBVIOUS
      <4>1. NumProcs + 1 + i \in 0 .. PROCS_MAX - 1
        BY DEF Slots
      <4> QED
        BY <3>1, <4>1, ModIdentity DEF Candidate
    <3>3. \A i \in Slots : i >= PROCS_MAX - NumProcs - 1 =>
            Candidate(i) = i - (PROCS_MAX - NumProcs - 1)
      <4> SUFFICES ASSUME NEW i \in Slots, i >= PROCS_MAX - NumProcs - 1
                   PROVE  Candidate(i) = i - (PROCS_MAX - NumProcs - 1)
        OBVIOUS
      <4>1. i - (PROCS_MAX - NumProcs - 1) \in 0 .. PROCS_MAX - 1
        BY <1>1 DEF Slots
      <4>2. NumProcs + 1 + i = PROCS_MAX + (i - (PROCS_MAX - NumProcs - 1))
        BY DEF Slots
      <4> QED
        BY <3>1, <4>1, <4>2, ModWrap DEF Candidate
    <3>4. PROCS_MAX - NumProcs \in Slots /\ 1 \in Procs
      BY <1>1, <2>3 DEF Slots, Procs
    <3>5. Candidate(PROCS_MAX - NumProcs) = 1
      BY <3>3, <3>4
    <3>6. FirstHit <= PROCS_MAX - NumProcs
      BY <1>8, <3>4, <3>5
    <3>7. FirstHit >= PROCS_MAX - NumProcs
      BY <1>4, <1>6, <3>2, <3>3 DEF Procs, Slots
    <3> QED
      BY <1>6, <2>3, <3>5, <3>6, <3>7
  <2> QED
    BY <2>1, <2>2, <2>3
<1> QED
  BY <1>2, <1>7, <1>9 DEF RR!After

\* switch_context returns into the body of the next process, after its call
\* of yeild or at its entry point.
LEMMA RestoreToBody ==
  ASSUME SchedulerInv, RestoreContext
  PROVE  /\ next \in Procs /\ curr_proc = next /\ made = NumProcs
         /\ procs[next].sp.base = next
         /\ pc' = SavedAt(next) /\ sregs' = SavedRegs(next)
         /\ pc' \in {Body(next, "start"), Body(next, "delay")}
         /\ pc' \in BodyLabels
<1>1. SchedulerInv' /\ pc = Y("restore")
  BY RestoreContextPreservesInv DEF RestoreContext
<1>2. next \in Procs /\ curr_proc = next /\ made = NumProcs
  BY <1>1 DEF SchedulerInv, ControlInv, YeildLabels, Y
<1>3. next \in Suspended
  BY <1>1, <1>2, SchedulerAssumption DEF Suspended, OnCpu, Y, Procs, NULL
<1>4. /\ procs[next].sp.base = next
      /\ SavedRa(stack[next], procs[next].sp.depth)
           \in {Body(next, "start"), Body(next, "delay")}
  BY <1>2, <1>3 DEF SchedulerInv, ContextsIntact
<1>5. pc' = SavedAt(next) /\ sregs' = SavedRegs(next)
  BY DEF RestoreContext, SavedAt, SavedRegs, savedMem, savedDepth
<1>6. SavedAt(next) \in {Body(next, "start"), Body(next, "delay")}
  BY <1>4 DEF SavedAt, savedMem, savedDepth
<1>7. {Body(next, "start"), Body(next, "delay")} \subseteq BodyLabels
  BY <1>2 DEF Body, BodyLabels
<1> QED
  BY <1>2, <1>4, <1>5, <1>6, <1>7

\* Only yeild changes whose turn is next.
LEMMA NextPreservesTurns ==
  ASSUME SchedulerInv, TurnsInv, Next
  PROVE  TurnsInv'
<1> USE SchedulerAssumption
<1>1. CASE Pick
  <2>1. CASE pc' = Y("sscratch")
    <3>1. SchedulerInv'
      BY <1>1, PickPreservesInv
    <3>2. next' \in Procs /\ curr_proc' = curr_proc
      BY <1>1, <2>1, <3>1 DEF SchedulerInv, ControlInv, Pick, bss
    <3>3. NumProcs > 0
      BY <3>2 DEF Procs
    <3> QED
      BY <1>1, <2>1, <3>2, <3>3, ScanInOrder, LabelsApart DEF TurnsInv, RR!After
  <2>2. CASE pc' = ra
    <3>1. CalledYeild(curr_proc) /\ curr_proc' = curr_proc
      BY <1>1 DEF Pick, SchedulerInv, ControlInv, bss
    <3>2. /\ pc' \in KernelLabels \cup BodyLabels
          /\ curr_proc # 0 => pc' \in BodyLabels
      BY <2>2, <3>1 DEF CalledYeild, KernelLabels, BodyLabels, KM, Body
    <3> QED
      BY <3>1, <3>2, LabelsApart DEF TurnsInv, Procs
  <2> QED
    BY <1>1, <2>1, <2>2 DEF Pick
<1>0. \A l : Y(l) \notin KernelLabels
  BY LabelsApart
<1>2. CASE SetSscratch
  BY <1>0, <1>2, LabelsApart DEF SetSscratch, TurnsInv, bss, local, RR!After, Y
<1>3. CASE SetCurrProc
  BY <1>0, <1>3, LabelsApart DEF SetCurrProc, TurnsInv, RR!After, Y
<1>4. CASE SaveContext
  <2> DEFINE saved == PushContext(stack[sp.base], sp.depth, ra, sregs)
  <2>1. /\ pc = Y("save") /\ pc' = Y("restore")
        /\ stack' = [stack EXCEPT ![sp.base] = saved]
        /\ sp' = [sp EXCEPT !.depth = @ + FRAME]
        /\ procs' = [procs EXCEPT ![prev_proc].sp = sp']
        /\ UNCHANGED <<sregs, next, prev_proc>>
    BY <1>4 DEF SaveContext, SwitchedOut, local
  <2>2. /\ TypeOK /\ CalledYeild(prev_proc) /\ prev_proc # next
        /\ made = NumProcs /\ Procs \subseteq Slots
    BY <2>1 DEF SchedulerInv, ControlInv, TableInv, YeildLabels, Procs, Slots, KM, Y, YEILD
  <2>3. prev_proc \in 0 .. NumProcs /\ next' = RR!After(prev_proc)
    BY <2>1, <2>2 DEF CalledYeild, Procs, TurnsInv
  <2>4. ASSUME prev_proc \in Procs
        PROVE  SavedAt(prev_proc)' = Body(prev_proc, "delay")
               /\ SavedRegs(prev_proc)' = sregs
    <3>1. /\ ra = Body(prev_proc, "delay") /\ sp = [base |-> prev_proc, depth |-> LOCALS]
          /\ prev_proc \in Slots /\ prev_proc \in Stacks
      BY <2>2, <2>4 DEF CalledYeild, Procs, Stacks
    <3>2. sp' = [base |-> prev_proc, depth |-> LOCALS + FRAME]
      BY <2>1, <3>1
    <3>3. procs'[prev_proc].sp = sp' /\ stack'[prev_proc] = saved
      BY <2>1, <2>2, <3>1 DEF TypeOK, Pcb
    <3>4. stack[prev_proc] \in Memory /\ ra \in Words /\ sregs \in [SReg -> Vals]
      BY <2>2, <3>1 DEF TypeOK, Memory
    <3>5. SavedRa(saved, LOCALS + FRAME) = ra /\ SavedSRegs(saved, LOCALS + FRAME) = sregs
      BY <3>1, <3>4, PopAfterPush
    <3> HIDE DEF saved
    <3>6. savedMem(prev_proc)' = saved /\ savedDepth(prev_proc)' = LOCALS + FRAME
      <4>1. procs'[prev_proc].sp = [base |-> prev_proc, depth |-> LOCALS + FRAME]
        BY <3>2, <3>3
      <4> QED
        BY <2>1, <3>3, <4>1 DEF savedMem, savedDepth
    <3> QED
      BY <3>1, <3>5, <3>6 DEF SavedAt, SavedRegs
  <2>5. /\ prev_proc' \in 0 .. NumProcs /\ prev_proc' # next'
        /\ next' = RR!After(prev_proc')
    BY <2>1, <2>2, <2>3
  <2>6. prev_proc' \in Procs =>
          SavedAt(prev_proc)' = Body(prev_proc', "delay") /\ SavedRegs(prev_proc)' = sregs'
    BY <2>1, <2>4
  <2>7. pc' \notin {Y("sscratch"), Y("curr_proc")} \cup KernelLabels
    BY <2>1, LabelsApart
  <2> QED
    BY <2>5, <2>6, <2>7 DEF TurnsInv, RR!After
<1>5. CASE RestoreContext \/ KernelMain \/ \E p \in Procs : Entry(p)
  <2>2. pc' \in KernelLabels => KernelMain
    <3>1. CASE RestoreContext
      BY <3>1, RestoreToBody, LabelsApart
    <3>2. CASE \E p \in Procs : Entry(p)
      <4>1. pc' \in BodyLabels \cup {Y("pick")}
        BY <3>2 DEF Entry, Start, Putchar, CallYeild, Delay, Body, BodyLabels
      <4> QED
        BY <4>1, LabelsApart
    <3> QED
      BY <1>5, <3>1, <3>2
  <2>3. ASSUME KernelMain, pc' \in KernelLabels
        PROVE  curr_proc' \notin Procs
    <3>1. pc \in KernelLabels
      BY <2>3, KernelMainPlaces
    <3>2. CASE ClearBss
      BY <3>2 DEF ClearBss, Procs, NULL
    <3>3. CASE SetIdleCurrent
      BY <3>3 DEF SetIdleCurrent, SchedulerInv, IdleInv, IdleLabels, Procs
    <3>4. CASE ~ClearBss /\ ~SetIdleCurrent
      <4>1. curr_proc' = curr_proc
        BY <2>3, <3>4 DEF KernelMain, SetTrapVector, create_process, CreateIdle, Create,
           CreateProcess, NoFreeSlot, SetPid, SetState, SetSp, ReturnIdle, Return,
           SetIdlePid, Store, StartScheduling, Unreachable, bss
      <4> QED
        BY <3>1, <4>1 DEF TurnsInv
    <3> QED
      BY <3>2, <3>3, <3>4
  <2>1. pc' \notin {Y("sscratch"), Y("curr_proc"), Y("save"), Y("restore")}
    <3>1. CASE RestoreContext
      BY <3>1, RestoreToBody, LabelsApart
    <3>2. CASE KernelMain
      <4>1. pc' \in KernelLabels \cup {Y("pick")}
        BY <3>2, KernelMainPlaces
      <4> QED
        BY <4>1, LabelsApart
    <3>3. CASE \E p \in Procs : Entry(p)
      <4>1. pc' \in BodyLabels \cup {Y("pick")}
        BY <3>3 DEF Entry, Start, Putchar, CallYeild, Delay, Body, BodyLabels
      <4> QED
        BY <4>1, LabelsApart
    <3> QED
      BY <1>5, <3>1, <3>2, <3>3
  <2> QED
    BY <2>1, <2>2, <2>3, LabelsApart DEF TurnsInv
<1> QED
  BY <1>1, <1>2, <1>3, <1>4, <1>5 DEF Next, Yeild
-----------------------------------------------------------------------------
(* The refinement mapping, one process at a time. *)

\* Nobody else's position and data change.
Others(S) ==
  \A p \in Procs \ S : PositionOf(p)' = PositionOf(p) /\ DataOf(p)' = DataOf(p)

LEMMA NobodyMoves ==
  ASSUME runningBar' = runningBar, console' = console, Others({})
  PROVE  UNCHANGED RR!rrVars
BY DEF Others, RR!rrVars

\* The memory a process's position and data are read from stays as it is.
Untouched(p) ==
  p <= made =>
    /\ SavedAt(p)' = SavedAt(p) /\ SavedRegs(p)' = SavedRegs(p)
    /\ Frame(p)' = Frame(p)

LEMMA OthersStay ==
  ASSUME TypeOK, made' = made, NEW S,
         \A p \in Procs \ S : /\ Untouched(p)
                              /\ p # runningBar /\ p # runningBar'
  PROVE  Others(S)
<1> SUFFICES ASSUME NEW p \in Procs \ S
             PROVE  PositionOf(p)' = PositionOf(p) /\ DataOf(p)' = DataOf(p)
  BY DEF Others
<1>1. made \in Int /\ p \in Int
  <2>1. made \in 0 .. NumProcs
    BY DEF TypeOK
  <2> QED
    BY <2>1, SchedulerAssumption DEF Procs
<1>2. PositionOf(p)' = PositionOf(p)
  <2>1. CASE p > made
    BY <2>1 DEF PositionOf
  <2>2. CASE p <= made
    BY <1>1, <2>2 DEF PositionOf, Untouched
  <2> QED
    BY <1>1, <2>1, <2>2
<1>3. p > made => PositionOf(p) = "start"
  BY DEF PositionOf
<1>4. DataOf(p)' = DataOf(p)
  BY <1>1, <1>2, <1>3 DEF DataOf, Untouched
<1> QED
  BY <1>2, <1>4

\* A step that leaves the running process where it is cannot be seen.
LEMMA InvisibleStep ==
  ASSUME TypeOK, made' = made, console' = console, runningBar' = runningBar,
         \A p \in Procs \ {runningBar} : Untouched(p),
         runningBar \in Procs =>
           Here' = Here /\ sregs' = sregs /\ Frame(runningBar)' = Frame(runningBar)
  PROVE  UNCHANGED RR!rrVars
<1>1. Others({runningBar})
  BY OthersStay
<1>2. ASSUME runningBar \in Procs
      PROVE  /\ PositionOf(runningBar)' = PositionOf(runningBar)
             /\ DataOf(runningBar)' = DataOf(runningBar)
  <2>1. PositionOf(runningBar)' = PositionOf(runningBar)
    BY <1>2 DEF PositionOf
  <2> QED
    BY <1>2, <2>1 DEF DataOf
<1>3. Others({})
  BY <1>1, <1>2 DEF Others
<1> QED
  BY <1>3, NobodyMoves
-----------------------------------------------------------------------------
(* The steps RoundRobin does not see. *)

LEMMA MemoryStays ==
  ASSUME NEW p, procs'[p] = procs[p], stack'[p] = stack[p],
         p <= made => procs[p].sp.base = p
  PROVE  Untouched(p)
BY DEF Untouched, SavedAt, SavedRegs, savedMem, savedDepth, Frame

\* While kernel_main runs it is nobody's turn.
LEMMA NobodyRuns ==
  ASSUME TurnsInv, pc \in KernelLabels
  PROVE  runningBar = 0 /\ 0 \notin Procs
BY LabelsApart DEF TurnsInv, runningBar, Caller, Procs

LEMMA NobodyRunsNext ==
  ASSUME TurnsInv', pc' \in KernelLabels
  PROVE  runningBar' = 0
<1>1. (TurnsInv /\ pc \in KernelLabels => runningBar = 0)'
  BY NobodyRuns, PTL
<1> QED
  BY <1>1

LEMMA SetupInvisible ==
  ASSUME SchedulerInv, TurnsInv, TurnsInv', KernelMain,
         ClearBss \/ SetTrapVector \/ CreateIdle \/ SetIdlePid \/ SetIdleCurrent
  PROVE  UNCHANGED RR!rrVars
<1>1. /\ pc \in {KM("memset"), KM("stvec"), KM("create_idle")} \cup IdleLabels
      /\ pc' \in KernelLabels
      /\ made' = made /\ console' = console
  BY DEF ClearBss, SetTrapVector, CreateIdle, CreateProcess, SetIdlePid, SetIdleCurrent,
         Store, KernelLabels, CreateLabels, IdleLabels, local
<1>2. runningBar = 0 /\ runningBar' = 0 /\ 0 \notin Procs
  BY <1>1, KernelMainPlaces, NobodyRuns, NobodyRunsNext
<1>3. made = 0 /\ TypeOK
  BY <1>1 DEF SchedulerInv, TableInv, IdleInv
<1>4. \A p \in Procs : Untouched(p)
  BY <1>3, SchedulerAssumption DEF Untouched, Procs
<1> QED
  BY <1>1, <1>2, <1>3, <1>4, InvisibleStep

LEMMA KernelMainInvisible ==
  ASSUME SchedulerInv, TurnsInv, TurnsInv',
         NoFreeSlot \/ StartScheduling \/ Unreachable \/ ReturnIdle
  PROVE  UNCHANGED RR!rrVars
<1>1. /\ pc \in KernelLabels
      /\ UNCHANGED <<procs, stack, curr_proc, prev_proc, made, console>>
      /\ pc' \in KernelLabels \cup {Y("pick")}
  BY DEF NoFreeSlot, StartScheduling, Unreachable, ReturnIdle, KernelLabels, CreateLabels,
         IdleLabels, bss, local
<1>2. runningBar = 0 /\ 0 \notin Procs
  BY <1>1, NobodyRuns
<1>3. runningBar' = 0
  BY <1>1, <1>2, LabelsApart DEF runningBar, Caller
<1>4. \A p \in Procs : Untouched(p)
  BY <1>1 DEF Untouched, SavedAt, SavedRegs, savedMem, savedDepth, Frame
<1> QED
  BY <1>1, <1>2, <1>3, <1>4, InvisibleStep DEF SchedulerInv

\* What create_process writes belongs to a slot beyond those of the processes
\* that kernel_main has been given.
LEMMA FillingInvisible ==
  ASSUME SchedulerInv, TurnsInv, TurnsInv', Create \/ SetPid \/ SetState \/ SetSp
  PROVE  UNCHANGED RR!rrVars
<1> USE SchedulerAssumption
<1>1. PICK new \in Slots :
        /\ new > made \/ made = 0
        /\ \A i \in Slots : i # new => procs'[i] = procs[i] /\ stack'[i] = stack[i]
  <2>1. CASE Create
    <3>1. SchedulerInv' /\ pc' = KM("pid") /\ idle_proc' = idle_proc /\ idle_proc = 0
      <4>1. SchedulerInv' /\ pc = KM("create")
        BY <2>1, CreatePreservesInv DEF Create
      <4>2. pc' = KM("pid") /\ idle_proc' = idle_proc
        BY <2>1 DEF Create, CreateProcess
      <4> QED
        BY <4>1, <4>2 DEF SchedulerInv, TableInv, KM, CreateLabels, IdleLabels
    <3>2. proc' = FirstFree /\ made' = made /\ procs' = procs
          /\ stack' = [stack EXCEPT ![FirstFree] = InitialContext(@, Body(made + 1, "start"))]
      BY <2>1 DEF Create, CreateProcess
    <3>3. proc' \in Slots /\ proc' = made + 1
      BY <3>1, <3>2 DEF SchedulerInv, FillingInv, CreateLabels, NULL
    <3>4. made \in Nat /\ stack \in [Stacks -> Memory]
      <4>1. made \in 0 .. NumProcs /\ stack \in [Stacks -> Memory]
        BY DEF SchedulerInv, TypeOK, Memory
      <4> QED
        BY <4>1
    <3>5. \A i \in Slots : i # FirstFree => stack'[i] = stack[i]
      BY <3>2, <3>4 DEF Stacks
    <3> QED
      BY <3>2, <3>3, <3>4, <3>5
  <2>2. CASE SetPid \/ SetState \/ SetSp
    <3>1. pc \in CreateLabels /\ stack' = stack
      BY <2>2 DEF SetPid, SetState, SetSp, Store, CreateLabels
    <3>2. proc \in Slots /\ made \in 0 .. NumProcs /\ (made = 0 \/ proc = made + 1)
          /\ procs \in [Slots -> Pcb]
      BY <3>1 DEF SchedulerInv, TypeOK, FillingInv
    <3>3. \A i \in Slots : i # proc => procs'[i] = procs[i]
      BY <2>2, <3>2 DEF SetPid, SetState, SetSp, Store
    <3>4. made = 0 \/ proc > made
      BY <3>2
    <3> QED
      BY <3>1, <3>2, <3>3, <3>4
  <2> QED
    BY <2>1, <2>2
<1>2. /\ pc \in {KM("create")} \cup CreateLabels /\ pc \in KernelLabels
      /\ pc' \in KernelLabels
      /\ made' = made /\ console' = console
  BY DEF Create, CreateProcess, SetPid, SetState, SetSp, Store, KernelLabels,
         CreateLabels, local
<1>3. runningBar = 0 /\ runningBar' = 0 /\ 0 \notin Procs /\ TypeOK
  BY <1>2, NobodyRuns, NobodyRunsNext DEF SchedulerInv
<1>4. \A p \in Procs : Untouched(p)
  <2> SUFFICES ASSUME NEW p \in Procs, p <= made PROVE Untouched(p)
    BY DEF Untouched
  <2>1. made \in Nat /\ p \in Nat /\ p # 0 /\ made < PROCS_MAX
    <3>1. made \in 0 .. NumProcs /\ made < PROCS_MAX
      BY <1>3 DEF SchedulerInv, TypeOK, TableInv
    <3> QED
      BY <3>1 DEF Procs
  <2>2. p \in Slots /\ p # new
    BY <1>1, <2>1 DEF Slots
  <2>3. p \in Suspended
    BY <1>2, <2>1, LabelsApart DEF Suspended, OnCpu, TurnsInv
  <2>4. procs[p].sp.base = p
    BY <2>3 DEF SchedulerInv, ContextsIntact
  <2> QED
    BY <1>1, <2>2, <2>4, MemoryStays
<1> QED
  BY <1>2, <1>3, <1>4, InvisibleStep

\* A process that kernel_main is given has not run: its context is the one
\* create_process laid out.
LEMMA ReturnInvisible ==
  ASSUME SchedulerInv, TurnsInv, TurnsInv', Return
  PROVE  UNCHANGED RR!rrVars
<1> USE SchedulerAssumption
<1>1. /\ pc = KM("return") /\ {pc, pc'} \subseteq KernelLabels /\ idle_proc # NULL
      /\ made' = made + 1 /\ console' = console
      /\ procs' = procs /\ stack' = stack
  BY DEF Return, KernelLabels, CreateLabels, bss
<1>2. /\ TypeOK /\ made \in Nat /\ proc = made + 1
      /\ procs[proc].sp = [base |-> proc, depth |-> FRAME]
      /\ SavedRa(stack[proc], FRAME) = Body(proc, "start")
  <2>1. TypeOK /\ made \in 0 .. NumProcs
    BY DEF SchedulerInv, TypeOK
  <2>2. proc = made + 1
    BY <1>1 DEF SchedulerInv, FillingInv, CreateLabels
  <2>3. proc # 0
    BY <2>1, <2>2
  <2> QED
    BY <1>1, <2>1, <2>2, <2>3 DEF SchedulerInv, FillingInv, CreateLabels
<1>3. runningBar = 0 /\ runningBar' = 0 /\ 0 \notin Procs
  BY <1>1, NobodyRuns, NobodyRunsNext
<1>4. SavedAt(proc) = Body(proc, "start")
  BY <1>2 DEF SavedAt, savedMem, savedDepth
<1>5. ASSUME NEW p \in Procs
      PROVE  PositionOf(p)' = PositionOf(p) /\ DataOf(p)' = DataOf(p)
  <2>1. p \in Int /\ p # 0
    BY <1>5 DEF Procs
  <2>a. Untouched(p) /\ SavedAt(p)' = SavedAt(p)
    BY <1>1 DEF Untouched, SavedAt, SavedRegs, savedMem, savedDepth, Frame
  <2>2. CASE p > made
    <3>1. PositionOf(p) = "start"
      BY <2>2 DEF PositionOf
    <3>2. PositionOf(p)' = "start"
      <4>1. CASE p > made'
        BY <4>1 DEF PositionOf
      <4>2. CASE ~ (p > made')
        <5>1. p = proc /\ p # runningBar'
          BY <1>1, <1>2, <1>3, <2>1, <2>2, <4>2
        <5>2. SavedAt(p)'[2] = "start"
          BY <1>4, <2>a, <5>1 DEF Body
        <5> QED
          BY <4>2, <5>1, <5>2 DEF PositionOf
      <4> QED
        BY <4>1, <4>2
    <3> QED
      BY <3>1, <3>2 DEF DataOf
  <2>3. CASE p <= made
    <3>1. ~ (p > made) /\ ~ (p > made')
      BY <1>1, <1>2, <2>1, <2>3
    <3>2. PositionOf(p)' = PositionOf(p)
      BY <1>3, <2>1, <2>a, <3>1 DEF PositionOf
    <3> QED
      BY <1>3, <2>1, <2>3, <2>a, <3>2 DEF DataOf, Untouched
  <2> QED
    BY <1>2, <2>1, <2>2, <2>3
<1> QED
  BY <1>1, <1>3, <1>5, NobodyMoves DEF Others

\* In yeild it is the caller's turn until switch_context has loaded the next
\* process's context.
LEMMA YeildInvisible ==
  ASSUME SchedulerInv, TurnsInv,
         \/ Pick /\ (pc' = Y("sscratch") \/ curr_proc \notin Procs)
         \/ SetSscratch \/ SetCurrProc
         \/ \E p \in Procs : CallYeild(p)
  PROVE  UNCHANGED RR!rrVars
<1> USE SchedulerAssumption
<1>1. UNCHANGED <<procs, stack, sregs, made, console>>
  BY DEF Pick, SetSscratch, SetCurrProc, CallYeild, bss, cpu, local
<1>2. /\ runningBar' = runningBar
      /\ runningBar \in Procs => Here' = Here
  <2>1. CASE (Pick /\ pc' = Y("sscratch")) \/ SetSscratch \/ SetCurrProc
    <3>1. Caller' = Caller
      BY <2>1, LabelsApart DEF Caller, Pick, SetSscratch, SetCurrProc, bss, local
    <3>2. {pc, pc'} \subseteq YeildLabels
      BY <2>1 DEF Pick, SetSscratch, SetCurrProc, YeildLabels
    <3> QED
      BY <3>1, <3>2 DEF runningBar, Here
  <2>2. CASE Pick /\ pc' = ra /\ curr_proc \notin Procs
    <3>1. CalledYeild(curr_proc) /\ curr_proc' = curr_proc /\ pc = Y("pick")
      BY <2>2 DEF Pick, SchedulerInv, ControlInv, bss
    <3>2. pc' \in KernelLabels
      BY <2>2, <3>1 DEF CalledYeild, KernelLabels
    <3> QED
      BY <2>2, <3>1, <3>2, LabelsApart DEF runningBar, Caller, Procs
  <2>3. ASSUME NEW p \in Procs, CallYeild(p)
        PROVE  runningBar' = runningBar /\ Here' = Here
    <3>1. /\ pc = Body(p, "yeild") /\ pc' = Y("pick") /\ curr_proc' = curr_proc
      BY <2>3 DEF CallYeild, bss
    <3>2. pc \in BodyLabels /\ pc' \in YeildLabels
      BY <3>1 DEF BodyLabels, Body, YeildLabels
    <3>3. Caller' = Caller
      BY <3>1, <3>2, LabelsApart DEF Caller
    <3>4. pc[2] = "yeild" /\ pc \notin YeildLabels
      BY <3>1, <3>2, LabelsApart DEF Body, YeildLabels
    <3> QED
      BY <3>2, <3>3, <3>4 DEF runningBar, Here
  <2> QED
    BY <2>1, <2>2, <2>3 DEF Pick
<1>3. \A p \in Procs : Untouched(p) /\ Frame(p)' = Frame(p)
  BY <1>1 DEF Untouched, SavedAt, SavedRegs, savedMem, savedDepth, Frame
<1>4. runningBar \in Procs => Frame(runningBar)' = Frame(runningBar)
  BY <1>1, <1>2 DEF Frame
<1> QED
  BY <1>1, <1>2, <1>3, <1>4, InvisibleStep DEF SchedulerInv

\* switch_context pushes its context below the frames of the caller, on the
\* caller's stack.
LEMMA SaveContextInvisible ==
  ASSUME SchedulerInv, TurnsInv, SaveContext
  PROVE  UNCHANGED RR!rrVars
<1> USE SchedulerAssumption
<1>1. /\ pc = Y("save") /\ pc' = Y("restore")
      /\ stack' = [stack EXCEPT ![sp.base] = PushContext(@, sp.depth, ra, sregs)]
      /\ procs' = [procs EXCEPT ![prev_proc].sp = sp']
      /\ UNCHANGED <<sregs, prev_proc, made, console>>
  BY DEF SaveContext, SwitchedOut, local
<1>2. /\ TypeOK /\ ContextsIntact /\ CalledYeild(prev_proc)
      /\ made = NumProcs /\ Procs \subseteq Slots
  BY <1>1 DEF SchedulerInv, ControlInv, TableInv, YeildLabels, Procs, Slots, KM, Y, YEILD
<1>3. /\ runningBar' = runningBar /\ Here' = Here
      /\ runningBar = IF prev_proc \in Procs THEN prev_proc ELSE 0
  <2>1. Caller = prev_proc /\ Caller' = prev_proc
    BY <1>1 DEF Caller
  <2>2. {pc, pc'} \subseteq YeildLabels
    BY <1>1 DEF YeildLabels
  <2> QED
    BY <2>1, <2>2 DEF runningBar, Here
<1>4. ASSUME NEW p \in Procs, p # runningBar
      PROVE  Untouched(p)
  <2>1. /\ p # prev_proc /\ p # sp.base /\ p \in Slots /\ p \in Stacks
    BY <1>2, <1>3, <1>4 DEF CalledYeild, Top, BOOT, Procs, Stacks
  <2>2. procs'[p] = procs[p] /\ stack'[p] = stack[p]
    BY <1>1, <1>2, <2>1 DEF TypeOK
  <2>3. p \in Suspended
    BY <1>1, <1>2, <2>1 DEF Suspended, OnCpu, Procs
  <2> QED
    BY <1>2, <2>2, <2>3, MemoryStays DEF ContextsIntact
<1>5. ASSUME runningBar \in Procs
      PROVE  Frame(runningBar)' = Frame(runningBar)
  <2>1. /\ prev_proc = runningBar /\ prev_proc \in Stacks
        /\ sp.base = prev_proc /\ sp.depth = LOCALS
    BY <1>2, <1>3, <1>5 DEF CalledYeild, Procs, Stacks
  <2>2. stack'[prev_proc] = PushContext(stack[prev_proc], LOCALS, ra, sregs)
    BY <1>1, <1>2, <2>1 DEF TypeOK
  <2>3. \A i \in 1 .. LOCALS : /\ i \in 1 .. STACK_WORDS
                               /\ i \notin LOCALS + 1 .. LOCALS + FRAME
    BY ContextAssumption DEF FRAME
  <2>4. \A i \in 1 .. LOCALS : stack'[prev_proc][i] = stack[prev_proc][i]
    BY <2>2, <2>3 DEF PushContext
  <2>5. \A i \in 1 .. LOCALS : stack'[runningBar'][i] = stack[runningBar][i]
    BY <1>3, <2>1, <2>4
  <2> QED
    BY <2>5 DEF Frame
<1> QED
  BY <1>1, <1>2, <1>3, <1>4, <1>5, InvisibleStep
-----------------------------------------------------------------------------
(* The steps RoundRobin sees. *)

\* A process in its own code has the turn, and is where the program counter is.
TurnOfBody ==
  \A p \in Procs : \A l \in {"start", "putchar", "yeild", "delay"} :
    pc = Body(p, l) =>
      /\ runningBar = p /\ p <= made
      /\ PositionOf(p) = l
      /\ DataOf(p) = IF l = "start" THEN Zero
                     ELSE [regs |-> sregs, frame |-> Frame(p)]

LEMMA InBody == SchedulerInv => TurnOfBody
<1> SUFFICES ASSUME SchedulerInv, NEW p \in Procs,
                    NEW l \in {"start", "putchar", "yeild", "delay"}, pc = Body(p, l)
             PROVE  /\ runningBar = p /\ p <= made
                    /\ PositionOf(p) = l
                    /\ DataOf(p) = IF l = "start" THEN Zero
                                   ELSE [regs |-> sregs, frame |-> Frame(p)]
  BY DEF TurnOfBody
<1>1. pc \in BodyLabels /\ pc[2] = l
  BY DEF Body, BodyLabels
<1>2. pc \notin YeildLabels
  BY <1>1, LabelsApart DEF YeildLabels
<1>3. runningBar = p
  <2>1. curr_proc = p
    BY DEF SchedulerInv, OwnStack
  <2> QED
    BY <1>1, <2>1, LabelsApart DEF runningBar, Caller
<1>4. made = NumProcs
  BY <1>1 DEF SchedulerInv, ControlInv
<1>5. ~(p > made) /\ p <= made
  BY <1>4, SchedulerAssumption DEF Procs
<1>6. PositionOf(p) = l
  BY <1>1, <1>2, <1>3, <1>5 DEF PositionOf, Here
<1> QED
  BY <1>3, <1>5, <1>6 DEF DataOf

LEMMA InBodyNext ==
  ASSUME SchedulerInv', NEW p \in Procs,
         NEW l \in {"start", "putchar", "yeild", "delay"}, pc' = Body(p, l)
  PROVE  /\ runningBar' = p /\ p <= made'
         /\ PositionOf(p)' = l
         /\ DataOf(p)' = IF l = "start" THEN Zero
                         ELSE [regs |-> sregs', frame |-> Frame(p)']
<1>1. (SchedulerInv => TurnOfBody)'
  BY InBody, PTL
<1> QED
  BY <1>1 DEF TurnOfBody

\* What the body of a process computes stays in its registers and its frames.
LEMMA ComputeData ==
  ASSUME TypeOK, NEW p \in Stacks, sp.base = p, Compute(0)
  PROVE  [regs |-> sregs', frame |-> Frame(p)']
           \in [regs : [SReg -> Vals], frame : [1 .. LOCALS -> Vals]]
<1> USE SchedulerAssumption
<1>1. PICK w \in [1 .. LOCALS -> Vals] :
        stack' = [stack EXCEPT ![p] =
                    [i \in 1 .. STACK_WORDS |->
                       IF i \in 0 + 1 .. 0 + LOCALS THEN w[i - 0] ELSE @[i]]]
  BY DEF Compute
<1>2. stack'[p] = [i \in 1 .. STACK_WORDS |->
                     IF i \in 0 + 1 .. 0 + LOCALS THEN w[i - 0] ELSE stack[p][i]]
  BY <1>1 DEF TypeOK
<1>3. \A i \in 1 .. LOCALS : /\ i \in 1 .. STACK_WORDS
                             /\ i \in 0 + 1 .. 0 + LOCALS /\ i - 0 = i
  BY ContextAssumption DEF FRAME
<1>4. \A i \in 1 .. LOCALS : stack'[p][i] \in Vals
  BY <1>2, <1>3
<1>5. Frame(p)' \in [1 .. LOCALS -> Vals]
  BY <1>4 DEF Frame
<1>6. sregs' \in [SReg -> Vals]
  BY DEF Compute
<1> QED
  BY <1>5, <1>6

LEMMA OthersUntouched ==
  ASSUME SchedulerInv, NEW p \in Procs, runningBar = p, runningBar' = p, pc \in BodyLabels,
         made' = made, procs' = procs,
         \A b \in Stacks : b # p => stack'[b] = stack[b]
  PROVE  Others({p})
<1>1. TypeOK /\ ContextsIntact /\ made = NumProcs /\ made < PROCS_MAX
  BY DEF SchedulerInv, ControlInv, TableInv
<1>3. Procs \subseteq Slots
  BY <1>1, SchedulerAssumption DEF Procs, Slots
<1>4. curr_proc = p
  <2>1. pc \notin {Y("save"), Y("restore")} /\ p # 0
    BY LabelsApart, SchedulerAssumption DEF Procs
  <2> QED
    BY <2>1 DEF runningBar, Caller
<1>2. ASSUME NEW q \in Procs, q # p
      PROVE  Untouched(q)
  <2>1. q \in Suspended /\ q \in Stacks
    BY <1>1, <1>2, <1>3, <1>4, LabelsApart, SchedulerAssumption
    DEF Suspended, OnCpu, Procs, Stacks
  <2>2. procs[q].sp.base = q
    BY <1>1, <2>1 DEF ContextsIntact
  <2> QED
    BY <1>2, <2>1, <2>2, MemoryStays
<1> QED
  BY <1>1, <1>2, OthersStay

LEMMA BodyImplements ==
  ASSUME SchedulerInv, SchedulerInv', NEW p \in Procs,
         Start(p) \/ Putchar(p) \/ Delay(p)
  PROVE  RR!Announce(p) \/ RR!PutChar(p) \/ RR!Work(p)
<1>1. /\ TypeOK /\ pc \in BodyLabels /\ p \in Slots
      /\ UNCHANGED <<procs, made>>
  <2>1. pc \in BodyLabels /\ UNCHANGED <<procs, made>>
    BY DEF Start, Putchar, Delay, Body, BodyLabels, bss, local
  <2>2. TypeOK /\ made = NumProcs /\ made < PROCS_MAX
    BY <2>1 DEF SchedulerInv, ControlInv, TableInv
  <2> QED
    BY <2>1, <2>2, SchedulerAssumption DEF Procs, Slots
<1>2. CASE Putchar(p)
  <2>1. /\ pc = Body(p, "putchar") /\ pc' = Body(p, "yeild")
        /\ console' = <<p, "char">> /\ UNCHANGED <<sregs, stack>>
    BY <1>2 DEF Putchar, bss, cpu
  <2>2. /\ runningBar = p /\ PositionOf(p) = "putchar"
        /\ DataOf(p) = [regs |-> sregs, frame |-> Frame(p)]
    BY <2>1, InBody DEF TurnOfBody
  <2>3. /\ runningBar' = p /\ PositionOf(p)' = "yeild"
        /\ DataOf(p)' = [regs |-> sregs', frame |-> Frame(p)']
    BY <2>1, InBodyNext
  <2>4. DataOf(p)' = DataOf(p)
    BY <2>1, <2>2, <2>3 DEF Frame
  <2>5. Others({p})
    BY <1>1, <2>1, <2>2, <2>3, OthersUntouched
  <2>6. RR!PutChar(p)
    BY <2>1, <2>2, <2>3, <2>4, <2>5 DEF RR!PutChar, RR!Procs, Procs, Others
  <2> QED
    BY <2>6
<1>3. ASSUME Start(p) \/ Delay(p)
      PROVE  /\ Compute(0) /\ sp.base = p /\ p \in Stacks
             /\ pc' = Body(p, "putchar")
             /\ IF pc = Body(p, "start") THEN console' = <<p, "start">>
                ELSE pc = Body(p, "delay") /\ console' = console
  <2>1. CASE Start(p)
    <3>1. sp = [base |-> p, depth |-> 0]
      BY <2>1 DEF Start, SchedulerInv, OwnStack
    <3> QED
      BY <1>1, <2>1, <3>1 DEF Start, Stacks
  <2>2. CASE Delay(p)
    <3>1. sp = [base |-> p, depth |-> LOCALS]
      BY <2>2 DEF Delay, SchedulerInv, OwnStack
    <3>2. sp.depth - LOCALS = 0 /\ sp.base = p
      BY <3>1, SchedulerAssumption
    <3> QED
      BY <1>1, <2>2, <3>2 DEF Delay, Stacks, Body
  <2> QED
    BY <1>3, <2>1, <2>2
<1>4. CASE Start(p) \/ Delay(p)
  <2> DEFINE d == [regs |-> sregs', frame |-> Frame(p)']
             Data == [regs : [SReg -> Vals], frame : [1 .. LOCALS -> Vals]]
  <2>1. /\ Compute(0) /\ sp.base = p /\ p \in Stacks
        /\ pc' = Body(p, "putchar")
        /\ IF pc = Body(p, "start") THEN console' = <<p, "start">>
           ELSE pc = Body(p, "delay") /\ console' = console
    BY <1>3, <1>4
  <2>2. d \in Data
    BY <1>1, <2>1, ComputeData
  <2>3. /\ runningBar' = p /\ PositionOf(p)' = "putchar" /\ DataOf(p)' = d
    BY <2>1, InBodyNext
  <2>4. runningBar = p
    BY <2>1, InBody DEF TurnOfBody
  <2>5. \A b \in Stacks : b # p => stack'[b] = stack[b]
    BY <1>1, <2>1, ComputeType
  <2>6. Others({p})
    BY <1>1, <2>3, <2>4, <2>5, OthersUntouched
  <2> HIDE DEF d
  <2>7. CASE pc = Body(p, "start")
    <3>1. PositionOf(p) = "start" /\ console' = <<p, "start">>
      BY <2>1, <2>7, InBody DEF TurnOfBody
    <3>2. RR!Announce(p)
      BY <2>2, <2>3, <2>4, <2>6, <3>1 DEF RR!Announce, RR!Procs, Procs, Others
    <3> QED
      BY <3>2
  <2>8. CASE pc # Body(p, "start")
    <3>1. PositionOf(p) = "delay" /\ console' = console
      BY <2>1, <2>8, InBody DEF TurnOfBody
    <3>2. RR!Work(p)
      BY <2>2, <2>3, <2>4, <2>6, <3>1 DEF RR!Work, RR!Procs, Procs, Others
    <3> QED
      BY <3>2
  <2> QED
    BY <2>7, <2>8
<1> QED
  BY <1>2, <1>4

\* A process that yields to itself: yeild returns to the only one there is.
LEMMA PickImplements ==
  ASSUME SchedulerInv, SchedulerInv', TurnsInv, Pick, pc' = ra, curr_proc \in Procs
  PROVE  \E p \in Procs : RR!Yield(p)
<1> USE SchedulerAssumption
<1>0. PICK c \in Procs : c = curr_proc
  OBVIOUS
<1>1. /\ pc = Y("pick") /\ CalledYeild(c) /\ TypeOK /\ made = NumProcs /\ c # 0
      /\ UNCHANGED <<procs, curr_proc, stack, sregs, made, console>>
  BY <1>0 DEF Pick, SchedulerInv, ControlInv, YeildLabels, bss, cpu, Procs
<1>2. pc' = Body(c, "delay")
  BY <1>1 DEF CalledYeild
<1>3. next' = RR!After(c) /\ NumProcs > 0
  BY <1>0, ScanInOrder DEF Procs
<1>4. pc' # Y("sscratch")
  <2>1. pc' \in BodyLabels
    BY <1>2 DEF Body, BodyLabels
  <2> QED
    BY <2>1, LabelsApart
<1>5. RR!After(c) = c
  BY <1>0, <1>3, <1>4 DEF Pick
<1>6. runningBar = c /\ PositionOf(c) = "yeild"
  <2>1. runningBar = c
    BY <1>0, <1>1, LabelsApart DEF runningBar, Caller
  <2>2. pc \in YeildLabels /\ ~(c > made)
    BY <1>1 DEF YeildLabels, Procs
  <2> QED
    BY <2>1, <2>2 DEF PositionOf, Here
<1>7. /\ runningBar' = c /\ PositionOf(c)' = "delay"
      /\ DataOf(c)' = [regs |-> sregs', frame |-> Frame(c)']
  BY <1>2, InBodyNext
<1>8. DataOf(c)' = DataOf(c)
  BY <1>1, <1>6, <1>7 DEF DataOf, Frame
<1>9. Others({c})
  <2>1. \A p \in Procs : Untouched(p)
    BY <1>1 DEF Untouched, SavedAt, SavedRegs, savedMem, savedDepth, Frame
  <2> QED
    BY <1>1, <1>6, <1>7, <2>1, OthersStay
<1>10. RR!Yield(c)
  BY <1>1, <1>5, <1>6, <1>7, <1>8, <1>9 DEF RR!Yield, RR!Procs, Procs, Others
<1> QED
  BY <1>10

\* The context switch is where the turn passes on: kernel_main's call of yeild
\* is the first dispatch, a process's call is its Yield.
LEMMA RestoreImplements ==
  ASSUME SchedulerInv, SchedulerInv', TurnsInv, RestoreContext
  PROVE  RR!Dispatch \/ \E p \in Procs : RR!Yield(p)
<1> USE SchedulerAssumption
<1>0. PICK n \in Procs, prev \in 0 .. NumProcs : n = next /\ prev = prev_proc
  BY RestoreToBody DEF RestoreContext, TurnsInv
<1>1. /\ pc = Y("restore") /\ TypeOK /\ made = NumProcs /\ prev # n
      /\ n = RR!After(prev) /\ pc \in YeildLabels /\ n # 0
      /\ pc' = SavedAt(n) /\ sregs' = SavedRegs(n)
      /\ UNCHANGED <<procs, prev_proc, stack, made, console>>
  BY <1>0, RestoreToBody DEF RestoreContext, TurnsInv, SchedulerInv, YeildLabels,
                             bss, local, Procs
<1>2. PICK l \in {"start", "delay"} : pc' = Body(n, l)
  BY <1>0, RestoreToBody
<1>3. \A p \in Procs : ~(p > made) /\ p \in Nat /\ p # 0
  BY <1>1 DEF Procs
<1>4. runningBar = prev
  BY <1>0, <1>1 DEF runningBar, Caller, Procs
<1>5. runningBar' = n
  BY <1>2, InBodyNext
<1>6. \A p \in Procs : Untouched(p) /\ Frame(p)' = Frame(p)
  BY <1>1 DEF Untouched, SavedAt, SavedRegs, savedMem, savedDepth, Frame
<1>7. PositionOf(n)' = PositionOf(n) /\ DataOf(n)' = DataOf(n)
  <2>1. /\ PositionOf(n)' = l
        /\ DataOf(n)' = IF l = "start" THEN Zero
                        ELSE [regs |-> sregs', frame |-> Frame(n)']
    BY <1>2, InBodyNext
  <2>2. PositionOf(n) = l
    <3>1. SavedAt(n)[2] = l
      BY <1>1, <1>2 DEF Body
    <3> QED
      BY <1>0, <1>1, <1>3, <1>4, <3>1 DEF PositionOf
  <2>3. DataOf(n) = IF l = "start" THEN Zero
                    ELSE [regs |-> SavedRegs(n), frame |-> Frame(n)]
    BY <1>0, <1>1, <1>4, <2>2 DEF DataOf
  <2> QED
    BY <1>0, <1>1, <1>6, <2>1, <2>2, <2>3
<1>8. Others({n, prev})
  BY <1>1, <1>4, <1>5, <1>6, OthersStay
<1>9. CASE prev = 0
  <2>1. NumProcs > 0 /\ n = 1
    BY <1>0, <1>1, <1>9 DEF RR!After, Procs
  <2>2. \A p \in Procs : PositionOf(p)' = PositionOf(p) /\ DataOf(p)' = DataOf(p)
    BY <1>3, <1>7, <1>8, <1>9 DEF Others
  <2>3. RR!Dispatch
    BY <1>1, <1>4, <1>5, <1>9, <2>1, <2>2 DEF RR!Dispatch, RR!Procs, Procs
  <2> QED
    BY <2>3
<1>10. CASE prev # 0
  <2>1. prev \in Procs /\ SavedAt(prev) = Body(prev, "delay") /\ SavedRegs(prev) = sregs
    BY <1>0, <1>1, <1>10 DEF TurnsInv, Procs
  <2>2. PositionOf(prev) = "yeild" /\ DataOf(prev) = [regs |-> sregs, frame |-> Frame(prev)]
    <3>1. PositionOf(prev) = "yeild"
      BY <1>1, <1>3, <1>4, <2>1 DEF PositionOf, Here
    <3> QED
      BY <1>4, <2>1, <3>1 DEF DataOf
  <2>3. PositionOf(prev)' = "delay"
    <3>1. SavedAt(prev)'[2] = "delay"
      <4>1. SavedAt(prev)' = Body(prev, "delay")
        BY <1>3, <1>6, <1>1, <2>1 DEF Untouched, Procs
      <4> QED
        BY <4>1 DEF Body
    <3> QED
      BY <1>1, <1>3, <1>5, <2>1, <3>1 DEF PositionOf
  <2>4. DataOf(prev)' = [regs |-> SavedRegs(prev)', frame |-> Frame(prev)']
    BY <1>1, <1>5, <2>3 DEF DataOf
  <2>5. SavedRegs(prev)' = SavedRegs(prev)
    BY <1>1, <1>6, <2>1 DEF Untouched, Procs
  <2>6. DataOf(prev)' = DataOf(prev)
    BY <1>6, <2>1, <2>2, <2>4, <2>5
  <2>7. RR!Yield(prev)
    BY <1>1, <1>4, <1>5, <1>7, <1>8, <2>1, <2>2, <2>3, <2>6
    DEF RR!Yield, RR!Procs, Procs, Others
  <2> QED
    BY <2>1, <2>7
<1> QED
  BY <1>9, <1>10
-----------------------------------------------------------------------------
(* The theorem. *)

LEMMA InitImplements == Init => RR!Init
<1> SUFFICES ASSUME Init PROVE RR!Init
  OBVIOUS
<1>1. runningBar = 0
  BY SchedulerAssumption DEF Init, runningBar, Caller, KM, Y, YEILD, NULL, Procs
<1>2. \A p \in Procs : PositionOf(p) = "start" /\ DataOf(p) = Zero
  BY SchedulerAssumption DEF Init, PositionOf, DataOf, Procs
<1> QED
  BY <1>1, <1>2 DEF Init, RR!Init, RR!Procs, Procs

LEMMA InitTurns == Init => TurnsInv
BY LabelsApart, SchedulerAssumption DEF Init, TurnsInv, KernelLabels, Procs, NULL

LEMMA StutterTurns == TurnsInv /\ UNCHANGED vars => TurnsInv'
BY DEF TurnsInv, vars, bss, cpu, local, SavedAt, SavedRegs, savedMem, savedDepth, RR!After

LEMMA StutterImplements == UNCHANGED vars => UNCHANGED RR!rrVars
BY DEF vars, bss, cpu, local, RR!rrVars, runningBar, Caller, PositionOf, DataOf, Here,
       SavedAt, SavedRegs, savedMem, savedDepth, Frame

\* Every step of the kernel is a step of RoundRobin or cannot be seen in it.
LEMMA NextImplements ==
  ASSUME SchedulerInv, SchedulerInv', TurnsInv, TurnsInv', Next
  PROVE  [RR!Next]_RR!rrVars
<1>1. CASE KernelMain
  BY <1>1, SetupInvisible, KernelMainInvisible, FillingInvisible, ReturnInvisible
  DEF KernelMain, create_process
<1>2. CASE Yeild
  <2>1. CASE Pick \/ SetSscratch \/ SetCurrProc \/ SaveContext
    <3>1. UNCHANGED RR!rrVars \/ \E p \in Procs : RR!Yield(p)
      BY <2>1, YeildInvisible, SaveContextInvisible, PickImplements DEF Pick
    <3> QED
      BY <3>1 DEF RR!Next, RR!Procs, Procs
  <2>2. CASE RestoreContext
    BY <2>2, RestoreImplements DEF RR!Next, RR!Procs, Procs
  <2> QED
    BY <1>2, <2>1, <2>2 DEF Yeild
<1>3. ASSUME NEW p \in Procs, Entry(p)
      PROVE  [RR!Next]_RR!rrVars
  <2>1. CASE CallYeild(p)
    BY <2>1, YeildInvisible
  <2>2. CASE ~CallYeild(p)
    <3>1. RR!Announce(p) \/ RR!PutChar(p) \/ RR!Work(p)
      BY <1>3, <2>2, BodyImplements DEF Entry
    <3> QED
      BY <3>1 DEF RR!Next, RR!Procs, Procs
  <2> QED
    BY <2>1, <2>2
<1> QED
  BY <1>1, <1>2, <1>3 DEF Next

\* Whose turn is next is decided by the order of the process table, and is
\* not lost while yeild changes sscratch, curr_proc and the stack one by one.
THEOREM TurnsInOrder == Spec => []TurnsInv
<1>1. Init => TurnsInv
  BY InitTurns
<1>2. SchedulerInv /\ TurnsInv /\ [Next]_vars => TurnsInv'
  BY NextPreservesTurns, StutterTurns
<1> QED
  BY <1>1, <1>2, SchedulerInvariant, PTL DEF Spec

\* The kernel implements processes that take turns in the order of the table,
\* each with data nobody else changes.  That no turn is skipped or repeated
\* and that nothing is lost across a context switch are both part of it.
THEOREM SchedulerImplementsRoundRobin == Spec => RR!Spec
<1>1. Init => RR!Init
  BY InitImplements
<1>2. SchedulerInv /\ SchedulerInv' /\ TurnsInv /\ TurnsInv' /\ [Next]_vars
        => [RR!Next]_RR!rrVars
  BY NextImplements, StutterImplements
<1> QED
  BY <1>1, <1>2, SchedulerInvariant, TurnsInOrder, PTL DEF Spec, RR!Spec
-----------------------------------------------------------------------------
(* Address spaces, from the invariant of the scheduler underneath.         *)

\* What holds between the instructions of the asm block, and when a process
\* has called yeild and yeild may return to it at once.
AsmInv ==
  /\ pc # Y("sscratch") => asm = "sfence"
  /\ pc = Y("sscratch") /\ asm \in {"sfence again", "sscratch"} => satp = next
  /\ pc = Y("sscratch") /\ asm = "sscratch" => tlb \subseteq {next}
  /\ pc = Y("pick") /\ curr_proc # 0 => satp = curr_proc /\ tlb \subseteq {curr_proc}

SwitchInv == SchedulerInv /\ SwitchTypeOK /\ AsmInv /\ TranslationsAreOwn

\* The steps of the scheduler as the address space sees them: which of them
\* change next or curr_proc, and where control goes.
LEMMA SchedulerSteps ==
  ASSUME SchedulerInv, Next
  PROVE  \/ /\ pc \in KernelLabels
            /\ pc' \in KernelLabels \/ (pc' = Y("pick") /\ curr_proc' = 0)
         \/ /\ pc \in BodyLabels
            /\ pc' \in BodyLabels \cup {Y("pick")} /\ curr_proc' = curr_proc
         \/ /\ pc = Y("pick")
            /\ \/ pc' = Y("sscratch") /\ next' \in Slots
               \/ pc' \in KernelLabels
               \/ pc' \in BodyLabels /\ curr_proc # 0 /\ curr_proc' = curr_proc
         \/ pc = Y("sscratch") /\ pc' = Y("curr_proc") /\ next' = next
         \/ pc = Y("curr_proc") /\ pc' = Y("save") /\ next' = next
         \/ pc = Y("save") /\ pc' = Y("restore") /\ next' = next
         \/ /\ pc = Y("restore") /\ curr_proc = next
            /\ pc' \in BodyLabels /\ curr_proc' = curr_proc
<1> USE SchedulerAssumption, ContextAssumption
<1> USE DEF KM, Body, Y, KernelLabels, CreateLabels, IdleLabels, BodyLabels
<1>1. CASE \/ ClearBss \/ SetTrapVector \/ create_process \/ SetIdlePid
           \/ SetIdleCurrent \/ Unreachable
  BY <1>1 DEF ClearBss, SetTrapVector, create_process, CreateIdle, Create, CreateProcess,
     NoFreeSlot, SetPid, SetState, SetSp, ReturnIdle, Return, SetIdlePid, SetIdleCurrent,
     Store, Unreachable
<1>2. CASE StartScheduling
  BY <1>2 DEF StartScheduling, SchedulerInv, ControlInv, bss
<1>3. CASE Pick
  <2>1. SchedulerInv'
    BY <1>3, PickPreservesInv
  <2>2. CalledYeild(curr_proc) /\ curr_proc' = curr_proc
    BY <1>3 DEF Pick, SchedulerInv, ControlInv, bss
  <2>3. CASE pc' = ra
    BY <1>3, <2>2, <2>3 DEF Pick, CalledYeild, Procs
  <2>4. CASE pc' = Y("sscratch")
    <3>1. next' \in Procs /\ Procs \subseteq Slots
      BY <2>1, <2>4 DEF SchedulerInv, ControlInv, TableInv, YEILD, Procs, Slots, YeildLabels
    <3> QED
      BY <1>3, <2>4, <3>1 DEF Pick
  <2> QED
    BY <1>3, <2>3, <2>4 DEF Pick
<1>4. CASE SetSscratch \/ SetCurrProc \/ SaveContext
  BY <1>4 DEF SetSscratch, SetCurrProc, SaveContext, local
<1>5. CASE RestoreContext
  <2>1. pc = Y("restore") /\ curr_proc' = curr_proc /\ pc' = ra'
    BY <1>5 DEF RestoreContext, bss
  <2>2. next \in Procs /\ curr_proc = next /\ next <= made
    BY <2>1 DEF SchedulerInv, ControlInv, YeildLabels, Procs
  <2>3. next \in Suspended
    BY <2>1, <2>2 DEF Suspended, OnCpu, YEILD, Procs, NULL
  <2>4. SavedRa(stack[next], procs[next].sp.depth) \in BodyLabels
        /\ procs[next].sp.base = next
    BY <2>2, <2>3 DEF SchedulerInv, ContextsIntact
  <2> QED
    BY <1>5, <2>1, <2>2, <2>4 DEF RestoreContext
<1>6. ASSUME NEW p \in Procs, Entry(p) PROVE
        /\ pc \in BodyLabels
        /\ pc' \in BodyLabels \cup {Y("pick")} /\ curr_proc' = curr_proc
  BY <1>6 DEF Entry, Start, Putchar, CallYeild, Delay, bss
<1> QED
  BY <1>1, <1>2, <1>3, <1>4, <1>5, <1>6 DEF Next, KernelMain, Yeild

\* The kernel's own statements keep the invariant.
LEMMA ExecutePreservesInv ==
  ASSUME SwitchInv, Execute
  PROVE  SwitchInv'
<1>1. /\ SchedulerInv /\ Next
      /\ pc = Y("sscratch") => asm = "sscratch"
      /\ asm' = IF pc = Y("sscratch") THEN "sfence" ELSE asm
      /\ satp' = satp /\ tlb' = tlb
  BY DEF SwitchInv, Execute
<1>2. SchedulerInv'
  BY <1>1, NextPreservesInv
<1>3. SwitchTypeOK'
  BY <1>1 DEF SwitchInv, SwitchTypeOK
<1>4. AsmInv' /\ TranslationsAreOwn'
  <2> USE LabelsApart
  <2> USE DEF SwitchInv, AsmInv, TranslationsAreOwn
  <2>1. CASE /\ pc \in KernelLabels
             /\ pc' \in KernelLabels \/ (pc' = Y("pick") /\ curr_proc' = 0)
    <3>1. asm' = "sfence" /\ pc' # Y("sscratch") /\ pc' \notin BodyLabels
      BY <1>1, <2>1
    <3>2. pc' \notin {Y("curr_proc"), Y("save"), Y("restore")}
      BY <2>1
    <3> QED
      BY <2>1, <3>1, <3>2
  <2>2. CASE /\ pc \in BodyLabels
             /\ pc' \in BodyLabels \cup {Y("pick")} /\ curr_proc' = curr_proc
    <3>1. asm' = "sfence" /\ pc' # Y("sscratch")
      BY <1>1, <2>2
    <3>2. pc' \notin {Y("curr_proc"), Y("save"), Y("restore")}
      BY <2>2
    <3>3. satp' = curr_proc' /\ tlb' \subseteq {curr_proc'}
      BY <1>1, <2>2
    <3> QED
      BY <3>1, <3>2, <3>3
  <2>3. CASE /\ pc = Y("pick")
             /\ \/ pc' = Y("sscratch") /\ next' \in Slots
                \/ pc' \in KernelLabels
                \/ pc' \in BodyLabels /\ curr_proc # 0 /\ curr_proc' = curr_proc
    <3>1. asm' = "sfence"
      BY <1>1, <2>3
    <3>2. pc' \notin {Y("curr_proc"), Y("save"), Y("restore")} /\ pc' # Y("pick")
      BY <2>3
    <3>3. pc' \in BodyLabels => satp' = curr_proc' /\ tlb' \subseteq {curr_proc'}
      BY <1>1, <2>3
    <3> QED
      BY <3>1, <3>2, <3>3
  <2>4. CASE \/ pc = Y("sscratch") /\ pc' = Y("curr_proc") /\ next' = next
             \/ pc = Y("curr_proc") /\ pc' = Y("save") /\ next' = next
             \/ pc = Y("save") /\ pc' = Y("restore") /\ next' = next
    <3>1. /\ asm' = "sfence" /\ pc' # Y("sscratch") /\ pc' # Y("pick")
          /\ pc' \notin BodyLabels
      BY <1>1, <2>4
    <3>2. satp = next /\ tlb \subseteq {next}
      BY <1>1, <2>4
    <3> QED
      BY <1>1, <2>4, <3>1, <3>2
  <2>5. CASE /\ pc = Y("restore") /\ curr_proc = next
             /\ pc' \in BodyLabels /\ curr_proc' = curr_proc
    <3>1. /\ asm' = "sfence" /\ pc' # Y("sscratch") /\ pc' # Y("pick")
          /\ pc' \notin {Y("curr_proc"), Y("save"), Y("restore")}
      BY <1>1, <2>5
    <3>2. satp' = curr_proc' /\ tlb' \subseteq {curr_proc'}
      BY <1>1, <2>5
    <3> QED
      BY <3>1, <3>2
  <2> QED
    BY <1>1, <2>1, <2>2, <2>3, <2>4, <2>5, SchedulerSteps
<1> QED
  BY <1>2, <1>3, <1>4 DEF SwitchInv

\* The hardware and the asm block: only satp, tlb and asm change.
LEMMA SwitchPreservesInv ==
  ASSUME SwitchInv, [SwitchNext]_switchVars
  PROVE  SwitchInv'
<1> USE LabelsApart
<1>1. CASE Execute
  BY <1>1, ExecutePreservesInv
<1>2. ASSUME UNCHANGED vars PROVE SchedulerInv' /\ UNCHANGED <<pc, next, curr_proc>>
  BY <1>2, StutterPreservesInv DEF SwitchInv, vars, bss, local
<1>3. CASE Sfence
  BY <1>2, <1>3 DEF Sfence, SwitchInv, SwitchTypeOK, AsmInv, TranslationsAreOwn
<1>4. CASE SetSatp
  <2>1. /\ SchedulerInv' /\ pc' = pc /\ next' = next /\ curr_proc' = curr_proc
        /\ pc = Y("sscratch") /\ asm' = "sfence again" /\ satp' = next /\ tlb' = tlb
    BY <1>2, <1>4 DEF SetSatp
  <2>2. next \in Slots
    <3>1. SchedulerInv
      BY DEF SwitchInv
    <3>2. next \in Procs /\ made = NumProcs /\ made < PROCS_MAX
      BY <2>1, <3>1 DEF SchedulerInv, ControlInv, TableInv, YeildLabels, Y
    <3> QED
      BY <3>2, SchedulerAssumption DEF Procs, Slots
  <2>3. SwitchTypeOK'
    BY <2>1, <2>2 DEF SwitchInv, SwitchTypeOK
  <2>4. AsmInv' /\ TranslationsAreOwn'
    BY <2>1 DEF AsmInv, TranslationsAreOwn
  <2> QED
    BY <2>1, <2>3, <2>4 DEF SwitchInv
<1>5. CASE SfenceAgain
  <2>1. /\ SchedulerInv' /\ pc' = pc /\ next' = next /\ curr_proc' = curr_proc
        /\ pc = Y("sscratch") /\ asm = "sfence again" /\ asm' = "sscratch"
        /\ tlb' = {} /\ satp' = satp
    BY <1>2, <1>5 DEF SfenceAgain, Flushed
  <2>2. SwitchTypeOK' /\ AsmInv'
    BY <2>1 DEF SwitchInv, SwitchTypeOK, AsmInv
  <2>3. TranslationsAreOwn'
    BY <2>1 DEF TranslationsAreOwn
  <2> QED
    BY <2>1, <2>2, <2>3 DEF SwitchInv
<1>6. CASE CacheTranslation
  <2>1. /\ SchedulerInv' /\ pc' = pc /\ next' = next /\ curr_proc' = curr_proc
        /\ satp # NULL /\ tlb' = tlb \cup {satp} /\ satp' = satp /\ asm' = asm
    BY <1>2, <1>6 DEF CacheTranslation
  <2>2. SwitchTypeOK'
    BY <2>1 DEF SwitchInv, SwitchTypeOK
  <2>3. AsmInv'
    BY <2>1 DEF SwitchInv, AsmInv
  <2>4. TranslationsAreOwn'
    BY <2>1 DEF SwitchInv, TranslationsAreOwn
  <2> QED
    BY <2>1, <2>2, <2>3, <2>4 DEF SwitchInv
<1>7. CASE UNCHANGED switchVars
  <2>1. UNCHANGED vars /\ satp' = satp /\ tlb' = tlb /\ asm' = asm
    BY <1>7 DEF switchVars
  <2> QED
    BY <1>2, <2>1 DEF SwitchInv, SwitchTypeOK, AsmInv, TranslationsAreOwn
<1> QED
  BY <1>1, <1>3, <1>4, <1>5, <1>6, <1>7 DEF SwitchNext

\* The address spaces change with the processes: in every statement of a
\* process, satp is its own page table and the TLB holds nothing of another.
THEOREM TranslationsStayOwn == SwitchSpec => []TranslationsAreOwn
<1>1. SwitchInit => SwitchInv
  <2> SUFFICES ASSUME SwitchInit PROVE SwitchInv
    OBVIOUS
  <2>1. SchedulerInv /\ pc = KM("memset")
    BY InitEstablishesInv DEF SwitchInit, Init
  <2> QED
    BY <2>1 DEF SwitchInit, SwitchInv, SwitchTypeOK, AsmInv, TranslationsAreOwn,
                KM, Y, YEILD, Body, BodyLabels, Procs
<1>2. SwitchInv /\ [SwitchNext]_switchVars => SwitchInv'
  BY SwitchPreservesInv
<1>3. SwitchInv => TranslationsAreOwn
  BY DEF SwitchInv
<1> QED
  BY <1>1, <1>2, <1>3, PTL DEF SwitchSpec

\* Switching address spaces with the processes changes nothing about the turns.
THEOREM SwitchingImplementsRoundRobin == SwitchSpec => RR!Spec
<1>1. SwitchInit => Init
  BY DEF SwitchInit
<1>2. [SwitchNext]_switchVars => [Next]_vars
  BY DEF SwitchNext, Execute, Sfence, SetSatp, SfenceAgain, CacheTranslation, switchVars
<1> QED
  BY <1>1, <1>2, SchedulerImplementsRoundRobin, PTL DEF SwitchSpec, Spec
=============================================================================
