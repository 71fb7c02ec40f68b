SPECIFICATION TrapSpec
CONSTANTS
  NSREGS = 1
  STACK_WORDS = 4
  Vals = {zero, one}
  Zero = zero
  PROCS_MAX = 3
  NumProcs = 2
  LOCALS = 1
  Causes = {"illegal_instruction"}
INVARIANTS
  LiveStackPreserved
CHECK_DEADLOCK FALSE
