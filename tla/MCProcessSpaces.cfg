SPECIFICATION SizesSpec
CONSTANTS
  WORD = 216
  PAGE_SIZE = 6
  FREE_RAM = 90
  FREE_RAM_END = 204
  Requests = {1}
  Contents <- AllEntries
  ENTRIES = 6
  FLAGS = 16
  VAddrs = {}
  PAddrs = {}
  FlagSets = {14}
  Garbage = {0, 1, 63, 255}
  KERNEL_BASE = 78
  PROCS_MAX = 5
  NumProcs = 3
  RWX = 14
INVARIANTS
  InUseHaveWholeSpace
  OwnTables
  Footprint
PROPERTIES
  CreationEndsAtEverySize
CHECK_DEADLOCK FALSE
