SPECIFICATION PagingSpec
CONSTANTS
  WORD = 27
  PAGE_SIZE = 3
  FREE_RAM = 6
  FREE_RAM_END = 21
  Requests = {1}
  ENTRIES = 3
  FLAGS = 4
  Contents = {0,1,2,3,4,5,6,7,8,9,10,11,12,13,14,15,16,17,18,19,20,21,22,23,24,25,26,27,28,29,30,31,32,33,34,35}
  VAddrs = {3, 6, 13, 12}
  PAddrs = {3, 9, 10}
  FlagSets = {2}
  Garbage = {35}
INVARIANTS
  PagingTypeOK
  TablesPrivate
PROPERTIES
  ImplementsAddressSpaces
CHECK_DEADLOCK FALSE
