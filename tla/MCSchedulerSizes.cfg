SPECIFICATION SizesSpec
CONSTANTS
  NSREGS = 1
  STACK_WORDS = 3
  Vals = {zero, one}
  Zero = zero
  PROCS_MAX = 3
  NumProcs = 3
  LOCALS = 1
PROPERTIES
  OutcomeAtEverySize
CHECK_DEADLOCK FALSE
