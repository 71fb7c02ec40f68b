---------------------------- MODULE TrapOnStack ----------------------------
(***************************************************************************)
(* The older kernel_entry, of exception-handling and of                    *)
(* process-control-and-context-switching: "csrw sscratch, sp" keeps the    *)
(* interrupted sp and the trap_frame is pushed on the interrupted stack.   *)
(* handle_trap panics, so the loads after its call are never reached.      *)
(***************************************************************************)
EXTENDS ProcessControl

TRAP_FRAME == NSREGS + 2      \* 31 words in the code

\* The deepest point of a stack still has room for a frame.
ASSUME OnStackAssumption == LOCALS + FRAME + TRAP_FRAME <= STACK_WORDS

VARIABLES
  entry,        \* "idle", or where the handling of an exception is
  interrupted   \* history: the machine when the exception was raised

onStackVars == <<vars, entry, interrupted>>

NoTrap == [sp |-> NullSp]

\* Types: the frame never runs over the end of a stack.
OnStackTypeOK ==
  /\ entry = "idle" => ControlTypeOK
  /\ pc \in Labels /\ ra \in Words /\ sregs \in [SReg -> Vals]
  /\ sp \in StackPointers /\ sscratch \in StackPointers
  /\ entry \in {"idle", "save", "handler", "panic"}
  /\ (entry = "idle") = (interrupted = NoTrap)

OnStackInit == Init /\ entry = "idle" /\ interrupted = NoTrap

Execute ==
  /\ entry = "idle"
  /\ Next
  /\ UNCHANGED <<entry, interrupted>>

\* An exception of any instruction once stvec is set.
Raise ==
  /\ entry = "idle"
  /\ stvec = "kernel_entry"
  /\ entry' = "save"
  /\ interrupted' = [sp |-> sp, ra |-> ra, sregs |-> sregs, stack |-> stack]
  /\ UNCHANGED vars

FrameWords == [off \in 0 .. TRAP_FRAME - 1 |->
                 IF off = TRAP_FRAME - 1 THEN interrupted.sp
                 ELSE ContextWords(ra, sregs)[off]]

\* The stores come before "addi sp, sp, -4 * 31".
FrameDepth_StoreFirst == sp.depth

FrameDepth == sp.depth + TRAP_FRAME

kernel_entry ==
  /\ entry = "save"
  /\ sscratch' = sp
  /\ sp' = [sp EXCEPT !.depth = @ + TRAP_FRAME]
  /\ stack' = [stack EXCEPT ![sp.base] = PutFrame(@, FrameDepth, FrameWords)]
  /\ entry' = "handler"
  /\ UNCHANGED <<procs, pc, ra, sregs, stvec, console, interrupted>>

handle_trap ==
  /\ entry = "handler"
  /\ entry' = "panic"
  /\ UNCHANGED <<vars, interrupted>>

OnStackNext == Execute \/ Raise \/ kernel_entry \/ handle_trap

OnStackSpec == OnStackInit /\ [][OnStackNext]_onStackVars

\* As in the scheduler, nothing in the code waits; no exception has to happen.
FairOnStackSpec ==
  OnStackSpec /\ WF_onStackVars(Execute \/ kernel_entry \/ handle_trap)
-----------------------------------------------------------------------------
(* Correctness *)

\* Whatever step traps, those of switch_context included, handle_trap
\* gets a frame with every register of the interrupted code and its stack
\* pointer, and the words below that pointer and all other stacks, hence every
\* saved context, are as they were.
EverythingSaved ==
  entry \in {"handler", "panic"} =>
    LET was     == interrupted
        word(k) == stack[sp.base][sp.depth - k]
    IN  /\ word(0) = was.ra
        /\ \A r \in SReg : word(r) = was.sregs[r]
        /\ word(TRAP_FRAME - 1) = was.sp
        /\ \A i \in 1 .. was.sp.depth :
             stack[was.sp.base][i] = was.stack[was.sp.base][i]
        /\ \A b \in Stacks \ {was.sp.base} : stack[b] = was.stack[b]

\* Until an exception ends it all, the process that is not running can be
\* resumed, whatever the other does.
ResumableUntilTrap == entry = "idle" => ControlIntact

\* Until then, neither process starves the other: both print for ever.
BothPrint ==
  \A p \in Procs : []<>(console = <<p, "char">>) \/ <>(entry # "idle")
=============================================================================
