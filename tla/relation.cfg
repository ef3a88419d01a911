\* Two tables of one attribute; up to two kinds of calls are cut short by crashes.
SPECIFICATION CarefulSpec
CONSTANTS
  TableNames = {"t", "u"}
  AttrNames = {"x"}
  IndexFile <- IndexNames
  Rids = {r1, r2}
  Keys = {k1, k2}
  NULL = NULL
  MaxId = 4
  MaxCopies = 2
  MaxCut = 2
  MaxUsed = 3
CONSTRAINT Bound
SYMMETRY Symmetry
INVARIANTS RTypeOK CatalogSound NothingStray CatalogDeletable IndexesMatch
PROPERTIES ImplementsTables
