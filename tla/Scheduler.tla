----------------------------- MODULE Scheduler -----------------------------
(***************************************************************************)
(* The kernel of process-scheduler-and-exception-handler: kernel_main      *)
(* clears .bss, creates the idle process and NumProcs others (proc_a and   *)
(* proc_b in the code), and calls yeild; each process prints and calls     *)
(* yeild for ever.  One hart runs all of it and no interrupt is enabled,   *)
(* so the behaviour is one thread of control, pc, moving between stacks.   *)
(* Next is split at every store of create_process to the process table and *)
(* at every statement of yeild between which the machine state names two   *)
(* processes at once; the stores of a word each that lay out a context are *)
(* one step.                                                               *)
(***************************************************************************)
EXTENDS Context, FiniteSetsExt

CONSTANTS
  PROCS_MAX,  \* entries of the process table: 8 in the code
  NumProcs,   \* processes created besides idle: 2 in the code
  LOCALS      \* words a process's C frames hold while it is in yeild

ASSUME SchedulerAssumption ==
  /\ PROCS_MAX \in Nat \ {0}
  /\ NumProcs \in Nat
  /\ LOCALS \in Nat
  /\ LOCALS + FRAME <= STACK_WORDS

Procs == 1 .. NumProcs
Slots == 0 .. PROCS_MAX - 1

BOOT == -1                    \* the stack below __stack_top
NULL == -2
Stacks == Slots \cup {BOOT}

(***************************************************************************)
(* Places in the code.  who is 0 in kernel_main and create_process, p in   *)
(* the entry function of process p, and YEILD in yeild; the second part    *)
(* names the statement.                                                    *)
(***************************************************************************)
YEILD == -1
KM(l) == <<0, l>>
Body(p, l) == <<p, l>>
Y(l) == <<YEILD, l>>

\* In create_process, once it has found a slot; and after its first return.
CreateLabels == {KM("pid"), KM("state"), KM("sp"), KM("return")}
IdleLabels == {KM("idle_pid"), KM("idle_current")}
KernelLabels ==
  {KM(l) : l \in {"memset", "stvec", "create_idle", "create", "yeild",
                  "unreachable", "halt"}} \cup CreateLabels \cup IdleLabels
BodyLabels == Procs \X {"start", "putchar", "yeild", "delay"}
YeildLabels ==
  {Y(l) : l \in {"pick", "sscratch", "curr_proc", "save", "restore"}}
Labels == KernelLabels \cup BodyLabels \cup YeildLabels

Words == Labels \cup Vals
StackPointers == [base : Stacks \cup {NULL}, depth : Depth]
Pcb == [pid : Int, state : {"PROC_UNUSED", "PROC_RUNNABLE"}, sp : StackPointers]

NullSp == [base |-> NULL, depth |-> 0]
Top(i) == [base |-> i, depth |-> 0]     \* &procs[i].stack[sizeof stack]

VARIABLES
  procs, curr_proc, idle_proc,  \* the globals of kernel.c
  stack,                        \* every stack: stack[i] is procs[i].stack
  pc, ra, sp, sregs,            \* registers of the hart
  stvec, sscratch,              \* its CSRs
  next, prev_proc,              \* locals of yeild
  proc,                         \* local of create_process: the slot it found
  made,                         \* processes kernel_main has created
  console,                      \* the last thing printed
  panic                         \* the PANIC the kernel is spinning in

bss   == <<procs, curr_proc, idle_proc, stack>>
cpu   == <<ra, sp, sregs>>
csrs  == <<stvec, sscratch>>
local == <<next, prev_proc, proc, made>>
vars  == <<bss, pc, cpu, csrs, local, console, panic>>

\* Types; that the program counter and ra, which switch_context loads from a
\* stack, are words of the machine is part of it.
TypeOK ==
  /\ procs \in [Slots -> Pcb]
  /\ curr_proc \in Slots \cup {NULL}
  /\ idle_proc \in Slots \cup {NULL}
  /\ stack \in [Stacks -> [1 .. STACK_WORDS -> Words]]
  /\ pc \in Words
  /\ ra \in Words
  /\ sp \in StackPointers
  /\ sregs \in [SReg -> Vals]
  /\ stvec \in {"boot", "kernel_entry"}
  /\ sscratch \in StackPointers
  /\ next \in Slots \cup {NULL}
  /\ prev_proc \in Slots \cup {NULL}
  /\ proc \in Slots \cup {NULL}
  /\ made \in 0 .. NumProcs
  /\ console \in {<<0, "nothing">>} \cup (Procs \X {"start", "char"})
  /\ panic \in {"none", "no free process slots", "unreachable here"}

(***************************************************************************)
(* boot: sp is __stack_top, kernel_main is next.  Nothing has cleared .bss *)
(* and the registers hold anything.                                        *)
(***************************************************************************)
Garbage == [pid : {0, 1}, state : {"PROC_UNUSED", "PROC_RUNNABLE"}, sp : {NullSp}]

Init ==
  /\ procs \in [Slots -> Garbage]
  /\ curr_proc = NULL
  /\ idle_proc = NULL
  /\ \E v \in Vals : stack = [b \in Stacks |-> [i \in 1 .. STACK_WORDS |-> v]]
  /\ pc = KM("memset")
  /\ ra = Zero
  /\ sp = Top(BOOT)
  /\ sregs \in [SReg -> Vals]
  /\ stvec = "boot"
  /\ sscratch = NullSp
  /\ next = NULL
  /\ prev_proc = NULL
  /\ proc = NULL
  /\ made = 0
  /\ console = <<0, "nothing">>
  /\ panic = "none"
-----------------------------------------------------------------------------
(* kernel_main *)

\* memset(__bss, 0, ...): the process table and the stacks in it are zeroed,
\* the boot stack above __bss_end is not.
ClearBss ==
  /\ pc = KM("memset")
  /\ procs' = [i \in Slots |->
                 [pid |-> 0, state |-> "PROC_UNUSED", sp |-> NullSp]]
  /\ stack' = [b \in Stacks |-> IF b = BOOT THEN stack[BOOT]
                                ELSE [i \in 1 .. STACK_WORDS |-> Zero]]
  /\ curr_proc' = NULL
  /\ idle_proc' = NULL
  /\ pc' = KM("stvec")
  /\ UNCHANGED <<cpu, csrs, local, console, panic>>

SetTrapVector ==
  /\ pc = KM("stvec")
  /\ stvec' = "kernel_entry"
  /\ pc' = KM("create_idle")
  /\ UNCHANGED <<bss, cpu, sscratch, local, console, panic>>

Free == {i \in Slots : procs[i].state = "PROC_UNUSED"}
FirstFree == Min(Free)

\* create_process(pc), the search and the thirteen stores: the first unused slot
\* gets a context that starts at the entry point.
CreateProcess(entry) ==
  /\ Free # {}
  /\ proc' = FirstFree
  /\ stack' = [stack EXCEPT ![FirstFree] = InitialContext(@, entry)]
  /\ pc' = KM("pid")
  /\ UNCHANGED <<procs, curr_proc, idle_proc, cpu, csrs, next, prev_proc, made,
                 console, panic>>

CreateIdle == pc = KM("create_idle") /\ CreateProcess(Zero)
Create == pc = KM("create") /\ CreateProcess(Body(made + 1, "start"))

\* A store into the process table, and on to the next statement.
Store(place, slot, pcb, then) ==
  /\ pc = KM(place)
  /\ procs' = [procs EXCEPT ![slot] = pcb]
  /\ pc' = KM(then)
  /\ UNCHANGED <<curr_proc, idle_proc, stack, cpu, csrs, local, console, panic>>

\* The pid is the index of the slot, which is idle's pid for slot 0.
NewPid_Slot == proc

NewPid == proc + 1

\* The control block, field by field; a slot is in use from SetState on.
SetPid == Store("pid", proc, [procs[proc] EXCEPT !.pid = NewPid], "state")
SetState == Store("state", proc, [procs[proc] EXCEPT !.state = "PROC_RUNNABLE"], "sp")
SetSp ==
  Store("sp", proc, [procs[proc] EXCEPT !.sp = [base |-> proc, depth |-> FRAME]], "return")

\* "idle_proc = create_process(...)", the first call, and the two statements
\* that turn the new process into the context of kernel_main itself.
ReturnIdle ==
  /\ pc = KM("return")
  /\ idle_proc = NULL
  /\ idle_proc' = proc
  /\ pc' = KM("idle_pid")
  /\ UNCHANGED <<procs, curr_proc, stack, cpu, csrs, local, console, panic>>

SetIdlePid ==
  Store("idle_pid", idle_proc, [procs[idle_proc] EXCEPT !.pid = 0], "idle_current")

SetIdleCurrent ==
  /\ pc = KM("idle_current")
  /\ curr_proc' = idle_proc
  /\ pc' = IF NumProcs = 0 THEN KM("yeild") ELSE KM("create")
  /\ UNCHANGED <<procs, idle_proc, stack, cpu, csrs, local, console, panic>>

\* "proc_a = create_process(...)", "proc_b = create_process(...)".
Return ==
  /\ pc = KM("return")
  /\ idle_proc # NULL
  /\ made' = made + 1
  /\ pc' = IF made + 1 = NumProcs THEN KM("yeild") ELSE KM("create")
  /\ UNCHANGED <<bss, cpu, csrs, next, prev_proc, proc, console, panic>>

NoFreeSlot ==
  /\ pc \in {KM("create_idle"), KM("create")}
  /\ Free = {}
  /\ panic' = "no free process slots"
  /\ pc' = KM("halt")
  /\ UNCHANGED <<bss, cpu, csrs, local, console>>

StartScheduling ==
  /\ pc = KM("yeild")
  /\ ra' = KM("unreachable")
  /\ pc' = Y("pick")
  /\ UNCHANGED <<bss, sp, sregs, csrs, local, console, panic>>

\* kernel_main runs on only if idle is ever chosen by yeild.
Unreachable ==
  /\ pc = KM("unreachable")
  /\ panic' = "unreachable here"
  /\ pc' = KM("halt")
  /\ UNCHANGED <<bss, cpu, csrs, local, console>>
-----------------------------------------------------------------------------
(* yeild *)

\* The scan always starts at slot 0.
Candidate_FromZero(i) == i

\* "% (PROCS_MAX - 1)"
Candidate_ShortTable(i) == (procs[curr_proc].pid + i) % (PROCS_MAX - 1)

Candidate(i) == (procs[curr_proc].pid + i) % PROCS_MAX
\* "proc->pid > 0" is left out, so that idle counts as a process.
Eligible_WithIdle(j) == procs[j].state = "PROC_RUNNABLE"
Eligible(j) == procs[j].state = "PROC_RUNNABLE" /\ procs[j].pid > 0
Hits == {i \in Slots : Eligible(Candidate(i))}
FirstHit == Min(Hits)

\* The scan of the table from the slot after the caller's; yeild returns at
\* once when it leads back to the caller.
Pick ==
  /\ pc = Y("pick")
  /\ next' = IF Hits = {} THEN idle_proc ELSE Candidate(FirstHit)
  /\ pc' = IF next' = curr_proc THEN ra ELSE Y("sscratch")
  /\ UNCHANGED <<bss, cpu, csrs, prev_proc, proc, made, console, panic>>

\* The caller's stack instead of the next process's.
TrapStack_Caller == Top(curr_proc)

\* sscratch is not written at all.
TrapStack_Unchanged == sscratch

\* "&next->stack[sizeof(next->stack)]"
TrapStack == Top(next)

SetSscratch ==
  /\ pc = Y("sscratch")
  /\ sscratch' = TrapStack
  /\ pc' = Y("curr_proc")
  /\ UNCHANGED <<bss, cpu, stvec, local, console, panic>>

SetCurrProc ==
  /\ pc = Y("curr_proc")
  /\ prev_proc' = curr_proc
  /\ curr_proc' = next
  /\ pc' = Y("save")
  /\ UNCHANGED <<procs, idle_proc, stack, cpu, csrs, next, proc, made, console, panic>>

\* switch_context(&curr_proc->sp, ...), after curr_proc has changed.
SwitchedOut_Next == curr_proc

SwitchedOut == prev_proc

\* switch_context up to "sw sp, (a0)": the caller's registers go on the stack
\* it runs on, and the stack pointer into its control block.
SaveContext ==
  /\ pc = Y("save")
  /\ stack' = [stack EXCEPT ![sp.base] = PushContext(@, sp.depth, ra, sregs)]
  /\ sp' = [sp EXCEPT !.depth = @ + FRAME]
  /\ procs' = [procs EXCEPT ![SwitchedOut].sp = sp']
  /\ pc' = Y("restore")
  /\ UNCHANGED <<curr_proc, idle_proc, ra, sregs, csrs, local, console, panic>>

\* switch_context from "lw sp, (a1)" to "ret".
RestoreContext ==
  /\ pc = Y("restore")
  /\ LET saved == procs[next].sp
         mem   == stack[saved.base]
     IN  /\ ra' = SavedRa(mem, saved.depth)
         /\ sregs' = SavedSRegs(mem, saved.depth)
         /\ sp' = [saved EXCEPT !.depth = @ - FRAME]
  /\ pc' = ra'
  /\ UNCHANGED <<bss, csrs, local, console, panic>>
-----------------------------------------------------------------------------
(* proc_a_entry, proc_b_entry *)

\* Compiled C keeps what it needs after the call of yeild in callee-saved
\* registers and in its own frame, the LOCALS words below the first d.
Compute(d) ==
  /\ sregs' \in [SReg -> Vals]
  /\ \E w \in [1 .. LOCALS -> Vals] :
       stack' = [stack EXCEPT ![sp.base] =
                   [i \in 1 .. STACK_WORDS |->
                      IF i \in d + 1 .. d + LOCALS THEN w[i - d] ELSE @[i]]]

\* The prologue and printf("starting process ...").
Start(p) ==
  /\ pc = Body(p, "start")
  /\ Compute(sp.depth)
  /\ sp' = [sp EXCEPT !.depth = @ + LOCALS]
  /\ console' = <<p, "start">>
  /\ pc' = Body(p, "putchar")
  /\ UNCHANGED <<procs, curr_proc, idle_proc, ra, csrs, local, panic>>

Putchar(p) ==
  /\ pc = Body(p, "putchar")
  /\ console' = <<p, "char">>
  /\ pc' = Body(p, "yeild")
  /\ UNCHANGED <<bss, cpu, csrs, local, panic>>

CallYeild(p) ==
  /\ pc = Body(p, "yeild")
  /\ ra' = Body(p, "delay")
  /\ pc' = Y("pick")
  /\ UNCHANGED <<bss, sp, sregs, csrs, local, console, panic>>

Delay(p) ==
  /\ pc = Body(p, "delay")
  /\ Compute(sp.depth - LOCALS)
  /\ pc' = Body(p, "putchar")
  /\ UNCHANGED <<procs, curr_proc, idle_proc, ra, sp, csrs, local, console, panic>>
-----------------------------------------------------------------------------
create_process ==
  \/ CreateIdle \/ Create \/ NoFreeSlot \/ SetPid \/ SetState \/ SetSp
  \/ ReturnIdle \/ Return

KernelMain ==
  \/ ClearBss \/ SetTrapVector \/ create_process \/ SetIdlePid \/ SetIdleCurrent
  \/ StartScheduling \/ Unreachable

Yeild == Pick \/ SetSscratch \/ SetCurrProc \/ SaveContext \/ RestoreContext

Entry(p) == Start(p) \/ Putchar(p) \/ CallYeild(p) \/ Delay(p)

Next == KernelMain \/ Yeild \/ \E p \in Procs : Entry(p)

Spec == Init /\ [][Next]_vars

\* The hart executes instructions for ever: delay() is a finite loop, PANIC
\* the only place that stops, and no statement waits.
FairSpec == Spec /\ WF_vars(Next)
-----------------------------------------------------------------------------
(* Correctness *)

\* A process in its own code runs on its own stack, at the depth its frames
\* have there, and curr_proc and sscratch agree that it is the one running.
\* (yeild changes the three in three different statements.)
OwnStack ==
  \A p \in Procs : \A l \in {"start", "putchar", "yeild", "delay"} :
    pc = Body(p, l) =>
      /\ curr_proc = p
      /\ sp = [base |-> p, depth |-> IF l = "start" THEN 0 ELSE LOCALS]
      /\ sscratch = Top(p)

\* The processes whose registers are in memory: all but the one the hart runs.
OnCpu == IF pc = Y("save") THEN prev_proc
         ELSE IF pc = Y("restore") THEN NULL
         ELSE curr_proc
Suspended == {p \in Procs : p <= made /\ p # OnCpu}

\* A suspended process can be resumed: its control block points at a complete
\* context on its own stack, to continue at its first statement or after its
\* call of yeild.
ContextsIntact ==
  \A p \in Suspended :
    LET saved == procs[p].sp
        at    == SavedRa(stack[p], saved.depth)
    IN  /\ saved.base = p
        /\ \/ at = Body(p, "start") /\ saved.depth = FRAME
           \/ at = Body(p, "delay") /\ saved.depth = LOCALS + FRAME
        /\ SavedSRegs(stack[p], saved.depth) \in [SReg -> Vals]

\* kernel_main panics only for the reasons its messages give: the table is
\* full, or there is no process to run.  In particular the idle process, the
\* context of kernel_main itself, is never resumed while there are others.
PanicsJustified ==
  /\ panic = "no free process slots" =>
       NumProcs >= PROCS_MAX /\ \A i \in Slots : procs[i].state = "PROC_RUNNABLE"
  /\ panic = "unreachable here" => NumProcs = 0

\* kernel_main stops where its messages say: with a table too small for the
\* processes it panics while creating them, with none it runs out of yeild.
KernelMainEnds ==
  /\ NumProcs >= PROCS_MAX => <>[](panic = "no free process slots")
  /\ NumProcs = 0 => <>[](panic = "unreachable here")

\* No process is starved: each one created prints for ever, whatever the
\* others do between their calls of yeild.
EveryProcessPrints ==
  \A p \in Procs : []<>(console = <<p, "char">>)
-----------------------------------------------------------------------------
(* The inductive invariant: why the properties above hold. *)

\* Slot 0 is idle's, with pid 0; process p has slot p and pid p + 1, so that
\* the scan of yeild, which starts at the caller's pid, starts at the slot
\* after the caller's.
TableInv ==
  /\ made < PROCS_MAX
  /\ pc \in {KM("memset"), KM("stvec"), KM("create_idle")} =>
       made = 0 /\ sp = Top(BOOT) /\ idle_proc = NULL
  /\ pc \in {KM("stvec"), KM("create_idle")} =>
       \A i \in Slots : procs[i].state = "PROC_UNUSED"
  /\ pc \notin {KM("memset"), KM("stvec"), KM("create_idle")}
                 \cup CreateLabels \cup IdleLabels =>
       /\ idle_proc = 0
       /\ \A i \in Slots :
            IF i <= made
              THEN /\ procs[i].state = "PROC_RUNNABLE"
                   /\ procs[i].pid = IF i = 0 THEN 0 ELSE i + 1
              ELSE procs[i].state = "PROC_UNUSED"

\* create_process fills in the slot after those in use.
FillingInv ==
  pc \in CreateLabels =>
    /\ sp = Top(BOOT)
    /\ proc \in Slots
    /\ \/ proc = 0 /\ made = 0 /\ idle_proc = NULL
       \/ proc = made + 1 /\ made < NumProcs /\ idle_proc = 0 /\ curr_proc = 0
    /\ \A i \in Slots :
         /\ i < proc => /\ procs[i].state = "PROC_RUNNABLE"
                        /\ procs[i].pid = IF i = 0 THEN 0 ELSE i + 1
         /\ i > proc => procs[i].state = "PROC_UNUSED"
    /\ procs[proc].state = IF pc \in {KM("sp"), KM("return")} THEN "PROC_RUNNABLE"
                                                              ELSE "PROC_UNUSED"
    /\ pc # KM("pid") => procs[proc].pid = proc + 1
    /\ pc = KM("return") => procs[proc].sp = [base |-> proc, depth |-> FRAME]
    /\ proc # 0 => SavedRa(stack[proc], FRAME) = Body(proc, "start")
    /\ SavedSRegs(stack[proc], FRAME) \in [SReg -> Vals]

\* Idle's pid is 1 until kernel_main overwrites it.
IdleInv ==
  pc \in IdleLabels =>
    /\ sp = Top(BOOT) /\ made = 0 /\ idle_proc = 0
    /\ \A i \in Slots :
         procs[i].state = IF i = 0 THEN "PROC_RUNNABLE" ELSE "PROC_UNUSED"
    /\ pc = KM("idle_current") => procs[0].pid = 0

\* The registers of c, which called yeild and still has the hart.
CalledYeild(c) ==
  \/ /\ c = 0
     /\ ra = KM("unreachable")
     /\ sp = Top(BOOT)
  \/ /\ c \in Procs
     /\ ra = Body(c, "delay")
     /\ sp = [base |-> c, depth |-> LOCALS]

\* What every place in the code relies on.
ControlInv ==
  /\ pc \in Labels
  /\ pc # KM("halt") => panic = "none"
  /\ pc = KM("create") => curr_proc = 0 /\ made < NumProcs /\ sp = Top(BOOT)
  /\ pc = KM("yeild") => curr_proc = 0 /\ made = NumProcs /\ sp = Top(BOOT)
  /\ pc = KM("unreachable") => NumProcs = 0
  /\ pc \in BodyLabels \cup YeildLabels => made = NumProcs
  /\ pc = Y("pick") =>
       CalledYeild(curr_proc) /\ (curr_proc = 0 \/ sscratch = Top(curr_proc))
  /\ pc \in {Y("sscratch"), Y("curr_proc")} =>
       CalledYeild(curr_proc) /\ next \in Procs /\ next # curr_proc
  /\ pc = Y("save") => CalledYeild(prev_proc) /\ prev_proc # next
  /\ pc \in {Y("save"), Y("restore")} => next \in Procs /\ curr_proc = next
  /\ pc \in {Y("curr_proc"), Y("save"), Y("restore")} => sscratch = Top(next)

\* All of it: in every reachable state the table, the places in the code, the
\* stacks and the saved contexts fit together.
SchedulerInv ==
  /\ TypeOK /\ TableInv /\ FillingInv /\ IdleInv /\ ControlInv
  /\ OwnStack /\ ContextsIntact /\ PanicsJustified
=============================================================================
