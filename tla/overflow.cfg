CONSTANTS
  PAGE_SIZE = 48
  MaxPages = 6
  FewKeys = 6
  MaxKey = 6
  MaxCalls = 0
  MaxTwins = 0
  Orderly = FALSE
  Keys <- MCKeys
  KeyLen <- MixedLen
  VarChar = TRUE
  Rids = {r1}
  Handles = {h1}
SPECIFICATION EmptySpec
INVARIANTS PagesFit
