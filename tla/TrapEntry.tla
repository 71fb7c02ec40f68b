----------------------------- MODULE TrapEntry -----------------------------
(***************************************************************************)
(* Traps in the scheduler's kernel.  Interrupts are never enabled, so a    *)
(* trap is an exception of the instruction being executed; it may be taken *)
(* before any step once stvec is set.  kernel_entry switches to the stack   *)
(* sscratch names, stores the registers there as a trap_frame and calls    *)
(* handle_trap, which panics and never returns: the second half of         *)
(* kernel_entry, from "lw ra" to sret, is never reached.                   *)
(***************************************************************************)
EXTENDS Scheduler

CONSTANT Causes          \* exceptions an instruction may raise

ASSUME TrapAssumption ==
  /\ "store_fault" \notin Causes
  /\ NSREGS + 2 <= STACK_WORDS

TRAP_FRAME == NSREGS + 2 \* 31 words in the code: ra, ..., the s registers, sp

VARIABLES
  entry,        \* where kernel_entry is: "idle" when no trap is taken
  scause,       \* the CSR; "none" before the first trap
  report,       \* the cause handle_trap has printed
  interrupted   \* history: the machine when the trap was raised

trapVars == <<entry, scause, report, interrupted>>
allVars == <<vars, trapVars>>

NoTrap == [cause |-> "none"]

\* Types: kernel_entry's stack pointer always points into a stack, or below
\* address 0 while sscratch has not been set.
TrapTypeOK ==
  /\ entry \in {"idle", "switch", "save", "save_sp", "handler", "panic"}
  /\ scause \in Causes \cup {"none", "store_fault"}
  /\ report \in Causes \cup {"none", "store_fault"}
  /\ sp.depth \in Nat /\ sp.base \in Stacks \cup {NULL}
  /\ interrupted.cause \in Causes \cup {"none"}
  /\ (entry = "idle") = (interrupted = NoTrap)

TrapInit ==
  /\ Init
  /\ entry = "idle"
  /\ scause = "none"
  /\ report = "none"
  /\ interrupted = NoTrap

\* An instruction of the kernel or of a process completes.
Execute ==
  /\ entry = "idle"
  /\ Next
  /\ UNCHANGED trapVars

Raise(cause) ==
  /\ entry = "idle"
  /\ stvec = "kernel_entry"
  /\ pc # KM("halt")
  /\ entry' = "switch"
  /\ scause' = cause
  /\ interrupted' = [cause |-> cause, ra |-> ra, sregs |-> sregs, sp |-> sp,
                     sscratch |-> sscratch, stack |-> stack]
  /\ UNCHANGED <<vars, report>>

\* "addi sp, sp, 4 * 31"
FrameBelow_Above(p) == [p EXCEPT !.depth = @ - TRAP_FRAME]

FrameBelow(p) == [p EXCEPT !.depth = @ + TRAP_FRAME]

\* The swap done as two reads, so that sscratch keeps its value.
Exchanged_No == sscratch

Exchanged == sp

\* "csrrw sp, sscratch, sp" and "addi sp, sp, -4 * 31".
SwitchStack ==
  /\ entry = "switch"
  /\ sp' = FrameBelow(sscratch)
  /\ sscratch' = Exchanged
  /\ entry' = "save"
  /\ UNCHANGED <<bss, pc, ra, sregs, stvec, local, console, panic,
                 scause, report, interrupted>>

\* "sw ra, ..." to "sw s11, ...".
SaveRegisters ==
  /\ entry = "save"
  /\ sp.base # NULL
  /\ stack' = [stack EXCEPT ![sp.base] =
                 PutFrame(@, sp.depth, ContextWords(ra, sregs))]
  /\ entry' = "save_sp"
  /\ UNCHANGED <<procs, curr_proc, idle_proc, pc, cpu, csrs, local, console, panic,
                 scause, report, interrupted>>

\* With sscratch still 0 the frame would lie just below address 0, where there
\* is no memory: the store traps in its turn, into kernel_entry again.
SaveFaults ==
  /\ entry = "save"
  /\ sp.base = NULL
  /\ scause' = "store_fault"
  /\ entry' = "switch"
  /\ UNCHANGED <<vars, report, interrupted>>

\* Without "addi a0, sp, 4 * 31; csrw sscratch, a0".
NextTrapStack_Kept == sscratch

NextTrapStack == [sp EXCEPT !.depth = @ - TRAP_FRAME]

\* The interrupted sp goes from sscratch to the frame; sscratch is set to the
\* stack pointer the next trap is to use.
SaveSp ==
  /\ entry = "save_sp"
  /\ stack' = [stack EXCEPT ![sp.base] =
                 PutFrame(@, sp.depth, [o \in {TRAP_FRAME - 1} |-> sscratch])]
  /\ sscratch' = NextTrapStack
  /\ entry' = "handler"
  /\ UNCHANGED <<procs, curr_proc, idle_proc, pc, cpu, stvec, local, console, panic,
                 scause, report, interrupted>>

handle_trap ==
  /\ entry = "handler"
  /\ report' = scause
  /\ entry' = "panic"
  /\ UNCHANGED <<vars, scause, interrupted>>

kernel_entry == SwitchStack \/ SaveRegisters \/ SaveFaults \/ SaveSp

TrapNext ==
  \/ Execute
  \/ \E cause \in Causes : Raise(cause)
  \/ kernel_entry
  \/ handle_trap

TrapSpec == TrapInit /\ [][TrapNext]_allVars
-----------------------------------------------------------------------------
(* Correctness *)

\* Once yeild has chosen a process, the trap_frame handed to handle_trap holds
\* every register of the interrupted code, its stack pointer among them, and
\* sscratch is ready for another trap.
FrameHoldsRegisters ==
  (entry \in {"handler", "panic"} /\ curr_proc \in Procs) =>
    LET word(off) == stack[sp.base][sp.depth - off]
    IN  /\ word(0) = interrupted.ra
        /\ \A r \in SReg : word(r) = interrupted.sregs[r]
        /\ word(TRAP_FRAME - 1) = interrupted.sp
        /\ sscratch = interrupted.sscratch

\* ... and the cause it reports is that of the exception that happened.  Before
\* the first yeild sscratch is 0: the store of the frame faults and that fault
\* is what gets reported.
CauseReportedOnceScheduled ==
  (report # "none" /\ curr_proc \in Procs) => report = interrupted.cause

\* An exception in a process's own code leaves every other process resumable:
\* the frame goes to the stack of the process that trapped, because yeild
\* pointed sscratch there before it switched.
OthersStayResumable == pc \in BodyLabels => ContextsIntact

\* Every exception reaches the PANIC of handle_trap, a second exception in
\* kernel_entry notwithstanding: kernel_entry never traps for ever.
EveryTrapReported == (entry = "switch") ~> (report # "none")

\* README.md:160 "Safe stack switching during exceptions": entering the
\* handler leaves the words the interrupted code has on its stack alone.
LiveStackPreserved ==
  entry # "idle" =>
    \A i \in 1 .. interrupted.sp.depth :
      stack[interrupted.sp.base][i] = interrupted.stack[interrupted.sp.base][i]
=============================================================================
