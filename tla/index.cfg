\* An empty file, and trees of three levels.
CONSTANTS
  PAGE_SIZE = 40
  MaxPages = 5
  FewKeys = 3
  MaxKey = 8
  MaxTwins = 2
  MaxCalls = 4
  Orderly = TRUE
  Keys <- MCKeys
  KeyLen <- FixedLen
  VarChar = FALSE
  Rids = {r1, r2, r3}
  Handles = {h1}
SPECIFICATION MCSpec
VIEW LastAside
SYMMETRY Alike
INVARIANTS TypeOK PagesFit WellShaped SeparatorsBound ChainInOrder Findable ScanSorted
PROPERTIES ImplementsIndex CallsActOnTheirEntry EarlierRootsReach
CHECK_DEADLOCK FALSE
