SPECIFICATION Spec
CONSTANTS
  WORD = 32
  PAGE_SIZE = 2
  FREE_RAM = 4
  FREE_RAM_END = 12
  Requests = {1, 2, 3}
  Contents = {0, 1}
INVARIANTS
  BlocksDisjoint
  BumpInv
PROPERTIES
  ZeroesOnlyTheNewBlock
  ImplementsPageSupply
CHECK_DEADLOCK FALSE
