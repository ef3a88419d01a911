\* An empty file, and three entries of one key.
CONSTANTS
  PAGE_SIZE = 40
  MaxPages = 5
  FewKeys = 3
  MaxKey = 3
  MaxTwins = 2
  MaxCalls = 0
  Orderly = FALSE
  Keys <- MCKeys
  KeyLen <- FixedLen
  VarChar = FALSE
  Rids = {r1, r2, r3}
  Handles = {h1}
SPECIFICATION EmptySpec
VIEW LastAside
INVARIANTS KeyScansMeetAll
CHECK_DEADLOCK FALSE
