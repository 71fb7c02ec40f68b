---------------------------- MODULE MCPagedKernel ----------------------------
(* Tables of five entries: 125 words in 25 pages, the kernel in page 4, free *)
(* RAM in pages 5 to 19, in four ranges of five pages.  A process takes five *)
(* pages, so that there is RAM for three.  The kernel to run is chosen       *)
(* first: with a slot too few, with enough of both, with too little RAM.     *)
EXTENDS PagedKernel

VARIABLE size   \* slots and processes

Kernel(slots, processes) ==
  INSTANCE PagedKernel WITH PROCS_MAX <- slots, NumProcs <- processes

\* TLC evaluates the constant operators of a module once and for all, unless
\* the module is instantiated: Slots and Procs depend on the kernel chosen.
LOCAL Processes == INSTANCE Scheduler

Sizes == {<<2, 2>>, <<3, 2>>, <<PROCS_MAX, NumProcs>>}

SizesInit == \E z \in Sizes : size = z /\ Kernel(z[1], z[2])!PagedInit
SizesHart ==
  \E z \in Sizes : size = z /\ Kernel(z[1], z[2])!Hart /\ UNCHANGED size
SizesOutside ==
  \E z \in Sizes :
    /\ size = z
    /\ Kernel(z[1], z[2])!Exception \/ Kernel(z[1], z[2])!CacheTranslation
    /\ UNCHANGED size

SizesSpec ==
  /\ SizesInit
  /\ [][SizesHart \/ SizesOutside]_<<pagedVars, size>>
  /\ WF_<<pagedVars, size>>(SizesHart)

\* Types, of whichever kernel was chosen.
PagedTypeAtEverySize ==
  \A z \in Sizes : size = z => Kernel(z[1], z[2])!PagedTypeOK

\* The kernel serves every process, or stops for the reason it gives.
KernelOutcomeAtEverySize ==
  \A z \in Sizes : size = z => Kernel(z[1], z[2])!KernelOutcome
=============================================================================
