SPECIFICATION CommonSpec
CONSTANTS
  BITS = 8
  Char <- MCChar
  Messages <- MCMessages
  SIZE = 4
  ByteValues = {0, 1, 2}
  BSS = 1
  BSS_END = 3
  PAGE_SIZE = 4
  FREE_RAM = 144
  FREE_RAM_END = 208
  UNIMP = 130
INVARIANTS
  CommonTypeOK
  OutputCorrect
  StoresCorrect
  StrcmpCorrect
  NeverReturns
  ClearsBssOnly
  ShowsNothingElse
PROPERTIES
  ShowsItsMessage
CHECK_DEADLOCK FALSE
