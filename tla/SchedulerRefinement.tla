------------------------ MODULE SchedulerRefinement ------------------------
(***************************************************************************)
(* The scheduler implements RoundRobin.  A process that does not have the  *)
(* hart is found in memory: its position is the return address saved on    *)
(* its stack and its data are the saved registers and its C frames.        *)
(***************************************************************************)
EXTENDS Scheduler

\* Whose call of yeild is under way, until the stacks are switched.
Caller == IF pc \in {Y("save"), Y("restore")} THEN prev_proc ELSE curr_proc

runningBar == IF Caller \in Procs THEN Caller ELSE 0

savedMem(p) == stack[procs[p].sp.base]
savedDepth(p) == procs[p].sp.depth
SavedAt(p) == SavedRa(savedMem(p), savedDepth(p))
SavedRegs(p) == SavedSRegs(savedMem(p), savedDepth(p))

\* The statement the process whose turn it is is at.
Here == IF pc \in YeildLabels THEN "yeild" ELSE pc[2]

PositionOf(p) ==
  IF p > made THEN "start" ELSE IF p = runningBar THEN Here ELSE SavedAt(p)[2]

\* What a process keeps in its C frames.
Frame(p) == [i \in 1 .. LOCALS |-> stack[p][i]]

DataOf(p) ==
  IF PositionOf(p) = "start" THEN Zero
  ELSE [regs |-> IF p = runningBar THEN sregs ELSE SavedRegs(p), frame |-> Frame(p)]

RR == INSTANCE RoundRobin WITH
        Data    <- [regs : [SReg -> Vals], frame : [1 .. LOCALS -> Vals]],
        Blank   <- Zero,
        running <- runningBar,
        at      <- [p \in Procs |-> PositionOf(p)],
        data    <- [p \in Procs |-> DataOf(p)]

\* When every process has a slot, every behaviour of the kernel is one of
\* processes that take turns in the order of the table for ever, each with
\* private data: pid arithmetic, process table, stacks and saved contexts are
\* invisible.
ImplementsFairRoundRobin == RR!FairSpec
=============================================================================
