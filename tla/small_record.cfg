CONSTANTS
  a = a
  b = b
  c = c
  MaxPages = 2
  PAGE_SIZE = 43
  NoRecord = NoRecord
  Records <- MCRecords
  Size <- SmallSize
  ReadsAs <- NoAlias
SPECIFICATION MCSpec
INVARIANTS TombstoneRoom
