SPECIFICATION SizesSpec
CONSTANTS
  NSREGS = 1
  STACK_WORDS = 4
  Vals = {zero, one}
  Zero = zero
  PROCS_MAX = 4
  NumProcs = 3
  LOCALS = 1
  Causes = {"illegal_instruction"}
  ENTRIES = 5
  FLAGS = 16
  KERNEL_BASE = 20
  FREE_RAM = 25
  FREE_RAM_END = 100
  RWX = 14
  RamGarbage = {399}
INVARIANTS
  PagedTypeAtEverySize
  KernelAlwaysMapped
  CreatedStayComplete
  FrameHoldsRegisters
  CauseReportedOnceScheduled
  OthersStayResumable
PROPERTIES
  EveryTrapReported
  KernelOutcomeAtEverySize
CHECK_DEADLOCK FALSE
