--------------------------- MODULE TrapEntry_proof ---------------------------
(***************************************************************************)
(* kernel_entry in the kernel with a scheduler: proofs that, at whatever   *)
(* step an exception comes, handle_trap gets all registers and the         *)
(* other processes keep their contexts.                                    *)
(***************************************************************************)
EXTENDS TrapEntry, Scheduler_proof

\* From the first SetCurrProc on, sscratch names the top of a process's stack.
ScratchInv ==
  curr_proc \in Procs =>
    Procs \subseteq Stacks /\ \E b \in Procs : sscratch = Top(b)

\* A register used as a stack pointer, by code that may point it anywhere.
Pointers == [base : Stacks \cup {NULL}, depth : Nat]

FrameWord(off) == stack[sp.base][sp.depth - off]

\* What kernel_entry has done so far, for an exception taken while a process
\* is chosen; sscratch then named the top of the stack of process b.
EntryInv ==
  LET b == interrupted.sscratch.base
  IN  /\ b \in Procs /\ Procs \subseteq Stacks
      /\ interrupted.sscratch = Top(b)
      /\ pc \in BodyLabels => b = curr_proc
      /\ scause = interrupted.cause
      /\ interrupted.ra = ra /\ interrupted.sregs = sregs
      /\ IF entry = "switch"
           THEN sscratch = Top(b) /\ sp = interrupted.sp
           ELSE sp = [base |-> b, depth |-> TRAP_FRAME]
      /\ entry \in {"save", "save_sp"} => sscratch = interrupted.sp
      /\ entry \in {"save_sp", "handler", "panic"} =>
           FrameWord(0) = ra /\ \A r \in SReg : FrameWord(r) = sregs[r]
      /\ entry \in {"handler", "panic"} =>
           FrameWord(TRAP_FRAME - 1) = interrupted.sp /\ sscratch = Top(b)

TrapInv ==
  /\ TrapTypeOK
  /\ entry = "idle" => SchedulerInv /\ ScratchInv
  /\ sp \in Pointers
  /\ entry \in {"switch", "save", "save_sp"} => sscratch \in Pointers
  /\ DOMAIN stack = Stacks
  /\ entry # "idle" /\ curr_proc \in Procs => EntryInv
  /\ pc \in BodyLabels => curr_proc \in Procs /\ ContextsIntact
  /\ report # "none" => entry = "panic" /\ report = scause

LEMMA StackPointersArePointers == StackPointers \subseteq Pointers
<1>1. Depth \subseteq Nat
  BY ContextAssumption DEF Depth
<1> QED
  BY <1>1 DEF StackPointers, Pointers

\* Until an exception is raised the trap state is as it was at the start.
Idle ==
  /\ entry = "idle" /\ report = "none" /\ interrupted = NoTrap
  /\ scause \in Causes \cup {"none", "store_fault"}
  /\ SchedulerInv /\ ScratchInv

LEMMA IdleTrapInv == Idle => TrapInv
<1> SUFFICES ASSUME Idle PROVE TrapInv
  OBVIOUS
<1>1. TypeOK /\ OwnStack /\ ContextsIntact
  BY DEF Idle, SchedulerInv
<1>2. sp \in Pointers
  BY <1>1, StackPointersArePointers DEF TypeOK
<1>3. DOMAIN stack = Stacks
  BY <1>1 DEF TypeOK
<1>4. pc \in BodyLabels => curr_proc \in Procs
  BY <1>1 DEF OwnStack, BodyLabels, Body
<1>5. TrapTypeOK
  BY <1>2 DEF Idle, TrapTypeOK, NoTrap, Pointers
<1> QED
  BY <1>1, <1>2, <1>3, <1>4, <1>5 DEF Idle, TrapInv

\* sscratch is written before curr_proc, for the same process.
LEMMA NextPreservesScratch ==
  ASSUME SchedulerInv, ScratchInv, Next
  PROVE  ScratchInv'
<1> USE SchedulerAssumption
<1>1. CASE UNCHANGED <<curr_proc, sscratch>>
  BY <1>1 DEF ScratchInv, Top
<1>2. CASE ClearBss
  BY <1>2 DEF ClearBss, ScratchInv, Procs, NULL
<1>3. CASE SetIdleCurrent
  <2>1. curr_proc' = 0
    BY <1>3 DEF SetIdleCurrent, SchedulerInv, IdleInv, IdleLabels
  <2> QED
    BY <2>1 DEF ScratchInv, Procs
<1>4. ASSUME pc \in {Y("sscratch"), Y("curr_proc")}
      PROVE  next \in Procs /\ Procs \subseteq Stacks
             /\ (pc = Y("curr_proc") => sscratch = Top(next))
  BY <1>4 DEF SchedulerInv, TableInv, ControlInv, YeildLabels, Procs, Slots, Stacks, Y, YEILD
<1>5. CASE SetSscratch
  BY <1>4, <1>5 DEF SetSscratch, TrapStack, ScratchInv, bss, Top
<1>6. CASE SetCurrProc
  BY <1>4, <1>6 DEF SetCurrProc, ScratchInv, csrs, Top
<1>7. ASSUME \/ SetTrapVector \/ create_process \/ SetIdlePid \/ StartScheduling
             \/ Unreachable \/ Pick \/ SaveContext \/ RestoreContext
      PROVE  UNCHANGED <<curr_proc, sscratch>>
  BY <1>7 DEF SetTrapVector, create_process, CreateIdle, Create, CreateProcess,
     NoFreeSlot, SetPid, SetState, SetSp, ReturnIdle, Return, SetIdlePid, Store,
     StartScheduling, Unreachable, Pick, SaveContext, RestoreContext, bss, csrs
<1>8. ASSUME NEW p \in Procs, Entry(p) PROVE UNCHANGED <<curr_proc, sscratch>>
  BY <1>8 DEF Entry, Start, Putchar, CallYeild, Delay, bss, csrs
<1> QED
  BY <1>1, <1>2, <1>3, <1>5, <1>6, <1>7, <1>8 DEF Next, KernelMain, Yeild

\* A store into the frame at sp is read back, and does not touch other words.
LEMMA PutFrameWords ==
  ASSUME NEW mem, NEW d \in Nat, NEW words, NEW off \in Int,
         d - off \in 1 .. STACK_WORDS
  PROVE  PutFrame(mem, d, words)[d - off] =
           IF off \in DOMAIN words THEN words[off] ELSE mem[d - off]
<1>1. d - (d - off) = off
  OBVIOUS
<1> QED
  BY <1>1 DEF PutFrame

\* An instruction of the kernel completes.
LEMMA ExecutePreservesTrapInv ==
  ASSUME TrapInv, Execute
  PROVE  TrapInv'
<1>1. /\ entry' = "idle" /\ scause' = scause /\ report' = report
      /\ interrupted' = interrupted /\ entry = "idle" /\ Next
  BY DEF Execute, trapVars
<1>2. SchedulerInv' /\ ScratchInv'
  BY <1>1, NextPreservesInv, NextPreservesScratch DEF TrapInv
<1>3. Idle'
  BY <1>1, <1>2 DEF TrapInv, TrapTypeOK, Idle
<1>4. (Idle => TrapInv)'
  BY IdleTrapInv, PTL
<1> QED
  BY <1>3, <1>4

LEMMA RaisePreservesTrapInv ==
  ASSUME TrapInv, NEW cause \in Causes, Raise(cause)
  PROVE  TrapInv'
<1> USE SchedulerAssumption
<1>1. /\ entry = "idle" /\ entry' = "switch" /\ scause' = cause
      /\ interrupted' = [cause |-> cause, ra |-> ra, sregs |-> sregs, sp |-> sp,
                         sscratch |-> sscratch, stack |-> stack]
      /\ report' = report
      /\ UNCHANGED <<procs, curr_proc, idle_proc, stack, pc, ra, sp, sregs, stvec,
                     sscratch, next, prev_proc, proc, made, console, panic>>
  BY DEF Raise, vars, bss, cpu, csrs, local
<1>2. SchedulerInv /\ ScratchInv /\ TrapTypeOK
  BY <1>1 DEF TrapInv
<1>3. sscratch \in Pointers /\ sp \in Pointers
  <2>1. sscratch \in Pointers
    BY <1>2, StackPointersArePointers DEF SchedulerInv, TypeOK
  <2> QED
    BY <2>1 DEF TrapInv
<1>4. TrapTypeOK'
  <2>1. interrupted' # NoTrap
    BY <1>1 DEF NoTrap
  <2>2. interrupted'.cause = cause
    BY <1>1
  <2> QED
    BY <1>1, <1>2, <2>1, <2>2 DEF TrapTypeOK, NoTrap
<1>5. curr_proc \in Procs => EntryInv'
  <2> SUFFICES ASSUME curr_proc \in Procs PROVE EntryInv'
    OBVIOUS
  <2>1. PICK b \in Procs : sscratch = Top(b)
    BY <1>2 DEF ScratchInv
  <2>2. Procs \subseteq Stacks
    BY <1>2 DEF ScratchInv
  <2>3. interrupted'.sscratch = Top(b) /\ interrupted'.sscratch.base = b
    BY <1>1, <2>1 DEF Top
  <2>4. /\ interrupted'.cause = cause /\ interrupted'.ra = ra
        /\ interrupted'.sregs = sregs /\ interrupted'.sp = sp
    BY <1>1
  <2>5. pc \in BodyLabels => b = curr_proc
    <3>1. pc \in BodyLabels => sscratch = Top(curr_proc)
      BY <1>2 DEF SchedulerInv, OwnStack, BodyLabels, Body
    <3> QED
      BY <2>1, <3>1 DEF Top
  <2> QED
    BY <1>1, <2>1, <2>2, <2>3, <2>4, <2>5 DEF EntryInv, Top
<1>6. pc' \in BodyLabels => curr_proc' \in Procs /\ ContextsIntact'
  BY <1>1 DEF TrapInv, ContextsIntact, Suspended, OnCpu
<1>7. report' = "none" /\ DOMAIN stack' = Stacks
  BY <1>1 DEF TrapInv
<1> QED
  BY <1>1, <1>3, <1>4, <1>5, <1>6, <1>7 DEF TrapInv

LEMMA SwitchStackPreservesTrapInv ==
  ASSUME TrapInv, SwitchStack
  PROVE  TrapInv'
<1>1. /\ entry = "switch" /\ entry' = "save"
      /\ sp' = [sscratch EXCEPT !.depth = @ + TRAP_FRAME] /\ sscratch' = sp
      /\ UNCHANGED <<procs, curr_proc, idle_proc, stack, pc, ra, sregs, stvec,
                     next, prev_proc, proc, made, console, panic, scause, report, interrupted>>
  BY DEF SwitchStack, FrameBelow, Exchanged, bss, local
<1>2. sscratch \in Pointers /\ sp \in Pointers /\ TrapTypeOK /\ TRAP_FRAME \in Nat
  BY <1>1, ContextAssumption DEF TrapInv, TRAP_FRAME
<1>3. sp' = [base |-> sscratch.base, depth |-> sscratch.depth + TRAP_FRAME]
  BY <1>1, <1>2 DEF Pointers
<1>4. sp' \in Pointers
  BY <1>2, <1>3 DEF Pointers
<1>5. TrapTypeOK'
  BY <1>1, <1>2, <1>4 DEF TrapTypeOK, Pointers
<1>6. curr_proc \in Procs => EntryInv'
  <2> SUFFICES ASSUME curr_proc \in Procs PROVE EntryInv'
    OBVIOUS
  <2>1. EntryInv
    BY <1>1 DEF TrapInv
  <2>2. sp' = [base |-> interrupted.sscratch.base, depth |-> TRAP_FRAME]
    BY <1>1, <1>2, <1>3, <2>1 DEF EntryInv, Top
  <2> QED
    BY <1>1, <2>1, <2>2 DEF EntryInv
<1>7. pc' \in BodyLabels => curr_proc' \in Procs /\ ContextsIntact'
  BY <1>1 DEF TrapInv, ContextsIntact, Suspended, OnCpu
<1>8. report' = "none" /\ DOMAIN stack' = Stacks
  BY <1>1 DEF TrapInv
<1> QED
  BY <1>1, <1>2, <1>4, <1>5, <1>6, <1>7, <1>8 DEF TrapInv

LEMMA SaveFaultsPreservesTrapInv ==
  ASSUME TrapInv, SaveFaults
  PROVE  TrapInv'
<1>1. /\ entry = "save" /\ entry' = "switch" /\ sp.base = NULL /\ scause' = "store_fault"
      /\ UNCHANGED <<procs, curr_proc, idle_proc, stack, pc, ra, sp, sregs, stvec, sscratch,
                     next, prev_proc, proc, made, console, panic, report, interrupted>>
  BY DEF SaveFaults, vars, bss, cpu, csrs, local
<1>2. sscratch \in Pointers /\ sp \in Pointers /\ TrapTypeOK /\ report = "none"
  BY <1>1 DEF TrapInv
<1>3. curr_proc \notin Procs
  <2> SUFFICES ASSUME curr_proc \in Procs PROVE FALSE
    OBVIOUS
  <2>1. EntryInv
    BY <1>1 DEF TrapInv
  <2>2. sp.base \in Procs
    BY <1>1, <2>1 DEF EntryInv
  <2> QED
    BY <1>1, <2>2, SchedulerAssumption DEF Procs, NULL
<1>4. TrapTypeOK'
  BY <1>1, <1>2 DEF TrapTypeOK
<1>5. pc' \notin BodyLabels
  BY <1>1, <1>3 DEF TrapInv
<1> QED
  BY <1>1, <1>2, <1>3, <1>4, <1>5 DEF TrapInv

\* A store into the frame disturbs no suspended process.
LEMMA FrameOnOwnStack ==
  ASSUME TrapInv, entry \in {"save", "save_sp"}, entry' # "idle",
         NEW words, stack' = [stack EXCEPT ![sp.base] = PutFrame(@, sp.depth, words)],
         UNCHANGED <<procs, curr_proc, pc, made>>, pc' \in BodyLabels
  PROVE  curr_proc' \in Procs /\ ContextsIntact'
<1>1. curr_proc \in Procs /\ ContextsIntact
  BY DEF TrapInv
<1>2. sp.base = curr_proc /\ Procs \subseteq Stacks /\ DOMAIN stack = Stacks
  BY <1>1 DEF TrapInv, EntryInv
<1>3. OnCpu = curr_proc /\ OnCpu' = curr_proc
  BY LabelsApart DEF OnCpu
<1>4. Suspended' = Suspended
  BY <1>3 DEF Suspended
<1>5. \A q \in Suspended : stack'[q] = stack[q]
  BY <1>2, <1>3 DEF Suspended
<1> QED
  BY <1>1, <1>4, <1>5 DEF ContextsIntact

LEMMA SaveRegistersPreservesTrapInv ==
  ASSUME TrapInv, SaveRegisters
  PROVE  TrapInv'
<1>1. /\ entry = "save" /\ entry' = "save_sp" /\ sp.base # NULL
      /\ stack' = [stack EXCEPT ![sp.base] =
                     PutFrame(@, sp.depth, ContextWords(ra, sregs))]
      /\ UNCHANGED <<procs, curr_proc, idle_proc, pc, ra, sp, sregs, stvec, sscratch,
                     next, prev_proc, proc, made, console, panic, scause, report, interrupted>>
  BY DEF SaveRegisters, cpu, csrs, local
<1>2. TrapTypeOK'
  BY <1>1 DEF TrapInv, TrapTypeOK
<1>3. curr_proc \in Procs => EntryInv'
  <2> SUFFICES ASSUME curr_proc \in Procs PROVE EntryInv'
    OBVIOUS
  <2> DEFINE b == interrupted.sscratch.base
             words == ContextWords(ra, sregs)
  <2>1. EntryInv /\ DOMAIN stack = Stacks
    BY <1>1 DEF TrapInv
  <2>2. sp.base = b /\ b \in Stacks /\ sp.depth = TRAP_FRAME
    BY <1>1, <2>1 DEF EntryInv
  <2>3. stack'[b] = PutFrame(stack[b], TRAP_FRAME, words)
    BY <1>1, <2>1, <2>2
  <2>4. DOMAIN words = 0 .. NSREGS /\ words[0] = ra /\ \A r \in SReg : words[r] = sregs[r]
    <3>1. /\ DOMAIN words = 0 .. NSREGS
          /\ \A off \in 0 .. NSREGS : words[off] = IF off = 0 THEN ra ELSE sregs[off]
      BY DEF ContextWords
    <3>2. 0 \in 0 .. NSREGS /\ \A r \in SReg : r \in 0 .. NSREGS /\ r # 0
      BY ContextAssumption DEF SReg
    <3> HIDE DEF words
    <3> QED
      BY <3>1, <3>2
  <2>5. \A off \in 0 .. NSREGS : stack'[b][TRAP_FRAME - off] = words[off]
    <3> SUFFICES ASSUME NEW off \in 0 .. NSREGS
                 PROVE  stack'[b][TRAP_FRAME - off] = words[off]
      OBVIOUS
    <3>1. TRAP_FRAME \in Nat /\ TRAP_FRAME - off \in 1 .. STACK_WORDS
      BY ContextAssumption, TrapAssumption DEF TRAP_FRAME
    <3>2. PutFrame(stack[b], TRAP_FRAME, words)[TRAP_FRAME - off] =
            IF off \in DOMAIN words THEN words[off] ELSE stack[b][TRAP_FRAME - off]
      <4>1. off \in Int
        OBVIOUS
      <4> HIDE DEF words
      <4> QED
        BY <3>1, <4>1, PutFrameWords
    <3> HIDE DEF words
    <3> QED
      BY <2>3, <2>4, <3>2
  <2>6. FrameWord(0)' = ra /\ \A r \in SReg : FrameWord(r)' = sregs[r]
    <3>1. 0 \in 0 .. NSREGS /\ SReg \subseteq 0 .. NSREGS
      BY ContextAssumption DEF SReg
    <3>2. \A off \in 0 .. NSREGS : FrameWord(off)' = words[off]
      BY <1>1, <2>2, <2>5 DEF FrameWord
    <3> HIDE DEF words
    <3> QED
      BY <2>4, <3>1, <3>2
  <2> QED
    BY <1>1, <2>1, <2>6 DEF EntryInv
<1>4. pc' \in BodyLabels => curr_proc' \in Procs /\ ContextsIntact'
  BY <1>1, FrameOnOwnStack
<1>5. DOMAIN stack' = Stacks /\ report' = "none"
  BY <1>1 DEF TrapInv
<1> QED
  BY <1>1, <1>2, <1>3, <1>4, <1>5 DEF TrapInv

LEMMA SaveSpPreservesTrapInv ==
  ASSUME TrapInv, SaveSp
  PROVE  TrapInv'
<1> DEFINE words == [o \in {TRAP_FRAME - 1} |-> sscratch]
<1>1. /\ entry = "save_sp" /\ entry' = "handler"
      /\ stack' = [stack EXCEPT ![sp.base] = PutFrame(@, sp.depth, words)]
      /\ sscratch' = [sp EXCEPT !.depth = @ - TRAP_FRAME]
      /\ UNCHANGED <<procs, curr_proc, idle_proc, pc, ra, sp, sregs, stvec,
                     next, prev_proc, proc, made, console, panic, scause, report, interrupted>>
  BY DEF SaveSp, NextTrapStack, cpu, local
<1>2. TrapTypeOK'
  BY <1>1 DEF TrapInv, TrapTypeOK
<1>3. curr_proc \in Procs => EntryInv'
  <2> SUFFICES ASSUME curr_proc \in Procs PROVE EntryInv'
    OBVIOUS
  <2> DEFINE b == interrupted.sscratch.base
  <2>1. EntryInv /\ DOMAIN stack = Stacks
    BY <1>1 DEF TrapInv
  <2>2. /\ b \in Stacks /\ TRAP_FRAME \in Nat
        /\ sp = [base |-> b, depth |-> TRAP_FRAME]
    BY <1>1, <2>1, ContextAssumption DEF EntryInv, TRAP_FRAME
  <2>3. sscratch' = Top(b)
    BY <1>1, <2>2 DEF Top
  <2>4. stack'[b] = PutFrame(stack[b], TRAP_FRAME, words)
    BY <1>1, <2>1, <2>2
  <2>5. \A off \in 0 .. TRAP_FRAME - 1 :
          stack'[b][TRAP_FRAME - off] =
            IF off = TRAP_FRAME - 1 THEN sscratch ELSE stack[b][TRAP_FRAME - off]
    <3> SUFFICES ASSUME NEW off \in 0 .. TRAP_FRAME - 1
                 PROVE  stack'[b][TRAP_FRAME - off] =
                          IF off = TRAP_FRAME - 1 THEN sscratch
                                                  ELSE stack[b][TRAP_FRAME - off]
      OBVIOUS
    <3>1. TRAP_FRAME - off \in 1 .. STACK_WORDS
      BY <2>2, ContextAssumption, TrapAssumption DEF TRAP_FRAME
    <3>2. DOMAIN words = {TRAP_FRAME - 1}
          /\ (off = TRAP_FRAME - 1 => words[off] = sscratch)
      OBVIOUS
    <3>3. PutFrame(stack[b], TRAP_FRAME, words)[TRAP_FRAME - off] =
            IF off \in DOMAIN words THEN words[off] ELSE stack[b][TRAP_FRAME - off]
      <4>1. off \in Int /\ TRAP_FRAME \in Nat
        BY <2>2
      <4> HIDE DEF words
      <4> QED
        BY <3>1, <4>1, PutFrameWords
    <3> HIDE DEF words
    <3> QED
      BY <2>4, <3>2, <3>3
  <2>6. \A off \in 0 .. TRAP_FRAME - 1 :
          FrameWord(off)' = IF off = TRAP_FRAME - 1 THEN sscratch ELSE FrameWord(off)
    BY <1>1, <2>2, <2>5 DEF FrameWord
  <2>7. /\ TRAP_FRAME - 1 \in 0 .. TRAP_FRAME - 1
        /\ 0 \in 0 .. TRAP_FRAME - 1 /\ 0 # TRAP_FRAME - 1
        /\ \A r \in SReg : r \in 0 .. TRAP_FRAME - 1 /\ r # TRAP_FRAME - 1
    BY ContextAssumption DEF TRAP_FRAME, SReg
  <2>8. FrameWord(0) = ra /\ \A r \in SReg : FrameWord(r) = sregs[r]
    BY <1>1, <2>1 DEF EntryInv
  <2>9. /\ FrameWord(0)' = ra /\ \A r \in SReg : FrameWord(r)' = sregs[r]
        /\ FrameWord(TRAP_FRAME - 1)' = sscratch
    BY <2>6, <2>7, <2>8
  <2> QED
    BY <1>1, <2>1, <2>3, <2>9 DEF EntryInv
<1>4. pc' \in BodyLabels => curr_proc' \in Procs /\ ContextsIntact'
  <2> HIDE DEF words
  <2> QED
    BY <1>1, FrameOnOwnStack
<1>5. DOMAIN stack' = Stacks /\ report' = "none"
  BY <1>1 DEF TrapInv
<1> QED
  BY <1>1, <1>2, <1>3, <1>4, <1>5 DEF TrapInv

LEMMA HandleTrapPreservesTrapInv ==
  ASSUME TrapInv, handle_trap
  PROVE  TrapInv'
<1>1. /\ entry = "handler" /\ entry' = "panic" /\ report' = scause
      /\ UNCHANGED <<procs, curr_proc, idle_proc, stack, pc, ra, sp, sregs, stvec, sscratch,
                     next, prev_proc, proc, made, console, panic, scause, interrupted>>
  BY DEF handle_trap, vars, bss, cpu, csrs, local
<1>2. TrapTypeOK'
  BY <1>1 DEF TrapInv, TrapTypeOK
<1>3. curr_proc \in Procs => EntryInv'
  BY <1>1 DEF TrapInv, EntryInv, FrameWord
<1>4. pc' \in BodyLabels => curr_proc' \in Procs /\ ContextsIntact'
  BY <1>1 DEF TrapInv, ContextsIntact, Suspended, OnCpu
<1> QED
  BY <1>1, <1>2, <1>3, <1>4 DEF TrapInv

LEMMA TrapStutterPreservesInv ==
  ASSUME TrapInv, UNCHANGED allVars
  PROVE  TrapInv'
<1>1. /\ UNCHANGED vars
      /\ UNCHANGED <<procs, curr_proc, idle_proc, stack, pc, ra, sp, sregs, stvec, sscratch,
                     next, prev_proc, proc, made, console, panic>>
      /\ UNCHANGED <<entry, scause, report, interrupted>>
  BY DEF allVars, trapVars, vars, bss, cpu, csrs, local
<1>2. TrapTypeOK' /\ (entry # "idle" /\ curr_proc \in Procs => EntryInv')
  BY <1>1 DEF TrapInv, TrapTypeOK, EntryInv, FrameWord
<1>3. entry = "idle" => SchedulerInv' /\ ScratchInv'
  BY <1>1, StutterPreservesInv DEF TrapInv, ScratchInv
<1>4. pc' \in BodyLabels => curr_proc' \in Procs /\ ContextsIntact'
  BY <1>1 DEF TrapInv, ContextsIntact, Suspended, OnCpu
<1> QED
  BY <1>1, <1>2, <1>3, <1>4 DEF TrapInv

LEMMA TrapInitInv == TrapInit => TrapInv
<1> SUFFICES ASSUME TrapInit PROVE TrapInv
  OBVIOUS
<1>1. SchedulerInv
  BY InitEstablishesInv DEF TrapInit
<1>2. ScratchInv
  BY DEF TrapInit, Init, ScratchInv, Procs, NULL
<1>3. Idle
  BY <1>1, <1>2 DEF TrapInit, Idle
<1> QED
  BY <1>3, IdleTrapInv

LEMMA TrapNextPreservesInv == TrapInv /\ [TrapNext]_allVars => TrapInv'
BY ExecutePreservesTrapInv, RaisePreservesTrapInv, SwitchStackPreservesTrapInv,
   SaveRegistersPreservesTrapInv, SaveFaultsPreservesTrapInv, SaveSpPreservesTrapInv,
   HandleTrapPreservesTrapInv, TrapStutterPreservesInv DEF TrapNext, kernel_entry

LEMMA InvGivesFrame == TrapInv => FrameHoldsRegisters
<1> SUFFICES ASSUME TrapInv, entry \in {"handler", "panic"}, curr_proc \in Procs
             PROVE  FrameHoldsRegisters
  BY DEF FrameHoldsRegisters
<1> QED
  BY DEF TrapInv, EntryInv, FrameHoldsRegisters, FrameWord
-----------------------------------------------------------------------------
(* The theorems. *)

\* What holds of kernel_entry at each of its steps, whatever it interrupted.
THEOREM TrapInvariant == TrapSpec => []TrapInv
BY TrapInitInv, TrapNextPreservesInv, PTL DEF TrapSpec

\* handle_trap gets every register of the interrupted code, its sp included,
\* and sscratch is ready for another trap.
THEOREM TrapFrameComplete == TrapSpec => []FrameHoldsRegisters
BY InvGivesFrame, TrapInvariant, PTL

\* Once a process has been chosen, the cause reported is the exception's own.
THEOREM CauseReported == TrapSpec => []CauseReportedOnceScheduled
<1>1. TrapInv => CauseReportedOnceScheduled
  BY DEF TrapInv, EntryInv, CauseReportedOnceScheduled
<1> QED
  BY <1>1, TrapInvariant, PTL

\* An exception in a process leaves every other process resumable.
THEOREM OthersStayIntact == TrapSpec => []OthersStayResumable
<1>1. TrapInv => OthersStayResumable
  BY DEF TrapInv, OthersStayResumable
<1> QED
  BY <1>1, TrapInvariant, PTL
=============================================================================
