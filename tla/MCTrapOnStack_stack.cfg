SPECIFICATION OnStackSpec
CONSTANTS
  NSREGS = 2
  STACK_WORDS = 8
  Vals = {zero, one}
  Zero = zero
  PROCS_MAX = 3
  LOCALS = 1
INVARIANTS
  OwnKernelStack
CHECK_DEADLOCK FALSE
