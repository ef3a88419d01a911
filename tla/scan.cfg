CONSTANTS
  a = a
  b = b
  c = c
  MaxPages = 2
  PAGE_SIZE = 43
  NoRecord = NoRecord
  Records <- MCRecords
  Matching <- MCMatching
  Size <- MCSize
  ReadsAs <- NoAlias
SPECIFICATION MCScanSpec
INVARIANTS ScanExact TombstonesLead
PROPERTIES ImplementsStore CallsActOnTheirRid
