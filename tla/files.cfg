\* Two handles on a paged file, or a record file of two pages.
CONSTANTS
  Handles = {h1, h2}
  Pages = {p1}
  MaxFiles = 2
  MaxFilePages = 2
  MaxPages = 2
  MaxOps = 2
  a = a
  b = b
  c = c
  PAGE_SIZE = 43
  NoRecord = NoRecord
  Records <- MCRecords
  Size <- SmallSize
  ReadsAs <- NoAlias
SPECIFICATION FilesSpec
INVARIANTS PTypeOK AdmittedPagesExist CountExact CountersTotal
INVARIANTS TypeOK DirectoryClear RecordsApart NoSpaceLeaks ChainsEnd
SYMMETRY Symmetry
