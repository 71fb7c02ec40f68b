--------------------------- MODULE ProcessControl ---------------------------
(***************************************************************************)
(* The kernel of process-control-and-context-switching: two processes that *)
(* switch to each other by name.  kernel_main creates both and then calls  *)
(* proc_b_entry itself, so that process B starts on the boot stack; its    *)
(* first switch_context replaces the stack pointer create_process gave it. *)
(***************************************************************************)
EXTENDS Context, FiniteSetsExt

CONSTANTS
  PROCS_MAX,  \* 8 in the code
  LOCALS      \* words a process's C frames hold while it is in switch_context

ASSUME ControlAssumption ==
  /\ PROCS_MAX \in Nat /\ PROCS_MAX >= 2
  /\ LOCALS \in Nat
  /\ LOCALS + FRAME <= STACK_WORDS

A == 0      \* proc_a, the first slot create_process finds
B == 1
Procs == {A, B}
Other(p) == 1 - p

Slots == 0 .. PROCS_MAX - 1
BOOT == -1                    \* the stack below __stack_top
NULL == -2
Stacks == Slots \cup {BOOT}
Top(i) == [base |-> i, depth |-> 0]
NullSp == [base |-> NULL, depth |-> 0]

KM(l) == <<-1, l>>            \* in kernel_main
Body(p, l) == <<p, l>>        \* in proc_a_entry or proc_b_entry
BodyLabels == {"start", "putchar", "switch", "save", "load_sp", "restore", "delay"}
Labels ==
  {KM(l) : l \in {"stvec", "create_a", "create_b", "call", "unreachable"}}
    \cup (Procs \X BodyLabels)
Words == Labels \cup Vals
StackPointers == [base : Stacks \cup {NULL}, depth : Depth]

VARIABLES
  procs, stack,     \* globals of kernel.c; proc_a and proc_b never change
  pc, ra, sp, sregs, stvec, sscratch,
  console

cpu == <<ra, sp, sregs>>
vars == <<procs, stack, pc, cpu, stvec, sscratch, console>>

\* Types; pc, loaded from a stack by switch_context, is always a place in the
\* code.
ControlTypeOK ==
  /\ procs \in [Slots -> [state : {"PROC_UNUSED", "PROC_RUNNABLE"},
                          sp : StackPointers]]
  /\ stack \in [Stacks -> [1 .. STACK_WORDS -> Words]]
  /\ pc \in Labels
  /\ ra \in Words
  /\ sp \in StackPointers
  /\ sregs \in [SReg -> Vals]
  /\ stvec \in {"boot", "kernel_entry"}
  /\ sscratch \in StackPointers
  /\ console \in {<<-1, "nothing">>} \cup (Procs \X {"start", "char"})

\* kernel_main, after memset has cleared .bss.
Init ==
  /\ procs = [i \in Slots |-> [state |-> "PROC_UNUSED", sp |-> NullSp]]
  /\ \E v \in Vals :
       stack = [b \in Stacks |-> [i \in 1 .. STACK_WORDS |->
                                    IF b = BOOT THEN v ELSE Zero]]
  /\ pc = KM("stvec")
  /\ ra = Zero
  /\ sp = Top(BOOT)
  /\ sregs \in [SReg -> Vals]
  /\ stvec = "boot"
  /\ sscratch = NullSp
  /\ console = <<-1, "nothing">>

SetTrapVector ==
  /\ pc = KM("stvec")
  /\ stvec' = "kernel_entry"
  /\ pc' = KM("create_a")
  /\ UNCHANGED <<procs, stack, cpu, sscratch, console>>

Free == {i \in Slots : procs[i].state = "PROC_UNUSED"}

\* create_process(pc): the first unused slot gets a context that starts at
\* the entry point.  Two processes are created, so its PANIC for a full table
\* cannot be reached.
create_process(entry) ==
  LET i == Min(Free)
  IN  /\ Free # {}
      /\ stack' = [stack EXCEPT ![i] = InitialContext(@, entry)]
      /\ procs' = [procs EXCEPT ![i] = [state |-> "PROC_RUNNABLE",
                                        sp |-> [base |-> i, depth |-> FRAME]]]

CreateA ==
  /\ pc = KM("create_a")
  /\ create_process(Body(A, "start"))
  /\ pc' = KM("create_b")
  /\ UNCHANGED <<cpu, stvec, sscratch, console>>

CreateB ==
  /\ pc = KM("create_b")
  /\ create_process(Body(B, "start"))
  /\ pc' = KM("call")
  /\ UNCHANGED <<cpu, stvec, sscratch, console>>

\* "proc_b_entry();", an ordinary call on the stack kernel_main runs on.
CallProcB ==
  /\ pc = KM("call")
  /\ ra' = KM("unreachable")
  /\ pc' = Body(B, "start")
  /\ UNCHANGED <<procs, stack, sp, sregs, stvec, sscratch, console>>
-----------------------------------------------------------------------------
(* proc_a_entry, proc_b_entry *)

\* What compiled C keeps across a call: callee-saved registers and LOCALS
\* words of stack.
Compute(d) ==
  /\ sregs' \in [SReg -> Vals]
  /\ \E w \in [1 .. LOCALS -> Vals] :
       stack' = [stack EXCEPT ![sp.base] =
                   [i \in 1 .. STACK_WORDS |->
                      IF i \in d + 1 .. d + LOCALS THEN w[i - d] ELSE @[i]]]

Start(p) ==
  /\ pc = Body(p, "start")
  /\ Compute(sp.depth)
  /\ sp' = [sp EXCEPT !.depth = @ + LOCALS]
  /\ console' = <<p, "start">>
  /\ pc' = Body(p, "putchar")
  /\ UNCHANGED <<procs, ra, stvec, sscratch>>

Putchar(p) ==
  /\ pc = Body(p, "putchar")
  /\ console' = <<p, "char">>
  /\ pc' = Body(p, "switch")
  /\ UNCHANGED <<procs, stack, cpu, stvec, sscratch>>

CallSwitch(p) ==
  /\ pc = Body(p, "switch")
  /\ ra' = Body(p, "delay")
  /\ pc' = Body(p, "save")
  /\ UNCHANGED <<procs, stack, sp, sregs, stvec, sscratch, console>>

\* sp is stored before "addi sp, sp, -13 * 4".
StoredSp_TooEarly == sp

StoredSp == [sp EXCEPT !.depth = @ + FRAME]

\* switch_context up to "sw sp, (a0)".
SaveContext(p) ==
  /\ pc = Body(p, "save")
  /\ stack' = [stack EXCEPT ![sp.base] = PushContext(@, sp.depth, ra, sregs)]
  /\ sp' = [sp EXCEPT !.depth = @ + FRAME]
  /\ procs' = [procs EXCEPT ![p].sp = StoredSp]
  /\ pc' = Body(p, "load_sp")
  /\ UNCHANGED <<ra, sregs, stvec, sscratch, console>>

\* "lw sp, (a0)"
SwitchedIn_Own(p) == p

SwitchedIn(p) == Other(p)

\* "lw sp, (a1)"
LoadSp(p) ==
  /\ pc = Body(p, "load_sp")
  /\ sp' = procs[SwitchedIn(p)].sp
  /\ pc' = Body(p, "restore")
  /\ UNCHANGED <<procs, stack, ra, sregs, stvec, sscratch, console>>

\* The s registers are not loaded back.
RestoredSRegs_Kept == sregs

RestoredSRegs == SavedSRegs(stack[sp.base], sp.depth)

\* "lw ra, 0 * 4(sp)" to "ret".
RestoreContext(p) ==
  /\ pc = Body(p, "restore")
  /\ ra' = SavedRa(stack[sp.base], sp.depth)
  /\ sregs' = RestoredSRegs
  /\ sp' = [sp EXCEPT !.depth = @ - FRAME]
  /\ pc' = ra'
  /\ UNCHANGED <<procs, stack, stvec, sscratch, console>>

Delay(p) ==
  /\ pc = Body(p, "delay")
  /\ Compute(sp.depth - LOCALS)
  /\ pc' = Body(p, "putchar")
  /\ UNCHANGED <<procs, ra, sp, stvec, sscratch, console>>
-----------------------------------------------------------------------------
KernelMain ==
  SetTrapVector \/ CreateA \/ CreateB \/ CallProcB

switch_context(p) == SaveContext(p) \/ LoadSp(p) \/ RestoreContext(p)

Entry(p) ==
  Start(p) \/ Putchar(p) \/ CallSwitch(p) \/ switch_context(p) \/ Delay(p)

Next == KernelMain \/ \E p \in Procs : Entry(p)

Spec == Init /\ [][Next]_vars
-----------------------------------------------------------------------------
(* Correctness *)

\* B lives on the boot stack, for good.
Home(p) == IF p = B THEN BOOT ELSE A
Own(p) == {pc} \cap {Body(p, l) : l \in BodyLabels}
Switching == pc \in {Body(p, l) : p \in Procs, l \in {"load_sp", "restore"}}

\* A process's own code runs where its frames are, and the process that is
\* not running can be resumed: what proc->sp points at is a complete context
\* on the stack it lives on, for its first statement or after its call of
\* switch_context.  This although B's control block starts out with another
\* stack than the one B uses.
ControlIntact ==
  /\ \A p \in Procs : Own(p) # {} /\ ~ Switching =>
       sp = [base |-> Home(p), depth |-> IF pc[2] = "start" THEN 0 ELSE LOCALS]
  /\ \A p \in Procs :
       (pc[1] = Other(p) \/ (pc[1] = p /\ Switching)) =>
         LET saved == procs[p].sp
             at    == SavedRa(stack[saved.base], saved.depth)
         IN  /\ saved.base = Home(p)
             /\ \/ p = A /\ at = Body(p, "start") /\ saved.depth = FRAME
                \/ at = Body(p, "delay") /\ saved.depth = LOCALS + FRAME
             /\ SavedSRegs(stack[saved.base], saved.depth) \in [SReg -> Vals]

PositionOf(p) ==
  CASE pc[1] = p /\ pc[2] \in {"start", "putchar", "delay"} -> pc[2]
    [] pc[1] = p /\ pc[2] \notin {"start", "putchar", "delay"} -> "yeild"
    [] pc[1] = Other(p) /\ (p = A \/ procs[p].sp.base = BOOT) ->
         SavedRa(stack[procs[p].sp.base], procs[p].sp.depth)[2]
    [] OTHER -> "start"

DataOf(p) ==
  IF PositionOf(p) = "start" THEN Zero
  ELSE [regs  |-> IF pc[1] = p /\ pc[2] # "restore" THEN sregs
                  ELSE SavedSRegs(stack[procs[p].sp.base], procs[p].sp.depth),
        frame |-> [i \in 1 .. LOCALS |-> stack[Home(p)][i]]]

\* RoundRobin's process 1 is B, which runs first.
RR == INSTANCE RoundRobin WITH
        NumProcs <- 2,
        Data     <- [regs : [SReg -> Vals], frame : [1 .. LOCALS -> Vals]],
        Blank    <- Zero,
        running  <- IF pc[1] = -1 THEN 0 ELSE 2 - pc[1],
        at       <- [n \in 1 .. 2 |-> PositionOf(2 - n)],
        data     <- [n \in 1 .. 2 |-> DataOf(2 - n)],
        console  <- IF console[1] = -1 THEN <<0, "nothing">>
                    ELSE <<2 - console[1], console[2]>>

\* The two processes take turns, B first, each with private registers and
\* frames: the same promise as the scheduler's, kept without one.
TakeTurns == RR!Spec

\* README.md:124 of process-control-and-context-switching: "Each process has
\* its own kernel stack and execution context stored in its Process Control
\* Block".
OwnKernelStack ==
  \A p \in Procs : Own(p) # {} /\ ~ Switching => sp.base = p
=============================================================================
