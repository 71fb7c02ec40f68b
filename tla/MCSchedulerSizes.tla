-------------------------- MODULE MCSchedulerSizes --------------------------
(* The kernel with every table of up to PROCS_MAX slots and every number of *)
(* processes up to NumProcs, in one run: which of them is chosen first.     *)
EXTENDS Scheduler

VARIABLE size   \* slots and processes

Kernel(slots, processes) ==
  INSTANCE Scheduler WITH PROCS_MAX <- slots, NumProcs <- processes

Sizes == (1 .. PROCS_MAX) \X (0 .. NumProcs)

SizesInit == \E z \in Sizes : size = z /\ Kernel(z[1], z[2])!Init
SizesNext ==
  \E z \in Sizes : size = z /\ Kernel(z[1], z[2])!Next /\ UNCHANGED size

SizesSpec == SizesInit /\ [][SizesNext]_<<vars, size>> /\ WF_<<vars, size>>(SizesNext)

\* Whatever the size: kernel_main stops in the PANIC that applies, and if none
\* does, every process prints for ever.
OutcomeAtEverySize ==
  \A z \in Sizes : size = z =>
    /\ Kernel(z[1], z[2])!KernelMainEnds
    /\ z[2] < z[1] => Kernel(z[1], z[2])!EveryProcessPrints
=============================================================================
