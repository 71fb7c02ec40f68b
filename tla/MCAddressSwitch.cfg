SPECIFICATION FairSwitchSpec
CONSTANTS
  NSREGS = 1
  STACK_WORDS = 3
  Vals = {zero, one}
  Zero = zero
  PROCS_MAX = 4
  NumProcs = 3
  LOCALS = 1
INVARIANTS
  TypeOK
  OwnStack
  ContextsIntact
  PanicsJustified
  SchedulerInv
  TranslationsAreOwn
PROPERTIES
  ImplementsFairRoundRobin
