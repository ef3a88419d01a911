CONSTANTS
  PAGE_SIZE = 40
  MaxKey = 5
  MaxCalls = 0
  Keys <- MCKeys
  KeyLen <- FixedLen
  VarChar = FALSE
  Rids = {r1}
  Handles = {h1}
SPECIFICATION MCRange
INVARIANTS NoEntryTwice
