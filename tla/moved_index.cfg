\* One table, whose tuples may have moved when an index is created.
SPECIFICATION RSpec
CONSTANTS
  TableNames = {"t"}
  AttrNames = {"x"}
  IndexFile <- IndexNames
  Rids = {r1, r2}
  Keys = {k1}
  NULL = NULL
  MaxId = 3
  MaxCopies = 2
  MaxCut = 0
  MaxUsed = 2
CONSTRAINT Bound
INVARIANT EntriesLead
