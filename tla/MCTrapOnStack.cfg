SPECIFICATION FairOnStackSpec
CONSTANTS
  NSREGS = 2
  STACK_WORDS = 8
  Vals = {zero, one}
  Zero = zero
  PROCS_MAX = 3
  LOCALS = 1
INVARIANTS
  OnStackTypeOK
  EverythingSaved
  ResumableUntilTrap
PROPERTIES
  TakeTurns
  BothPrint
CHECK_DEADLOCK FALSE
