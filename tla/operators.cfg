\* Joins of up to three left and two right tuples; aggregations of up to three tuples,
\* or seven small ones, with a significand of two bits;
\* two hash joins over two partitions, and one crash;
\* scans of an index of three levels.
SPECIFICATION MCSpec
CONSTANTS
  Keys = {1, 2, 3}
  NULL = NULL
  NullValue = NullValue
  PAGE_SIZE = 10
  UINT_RANGE = 128
  maxSize = 6
  Operators = {"BNLJoin", "INLJoin", "GHJoin", "Aggregate", "Select", "IndexScan"}
  CompOps = {"EQ_OP"}
  MaxPages = 7
  Groups = {1, 2}
  All = All
  Mantissa = 2
  Joins = {j1, j2}
  hash <- MCHash
  numPartitions = 2
  Inputs <- MCInputs
  TableNames = {"left_join1_0", "right_join1_0", "left_join1_1", "right_join1_1",
                "left_join2_0", "right_join2_0", "left_join2_1", "right_join2_1"}
  AttrNames = {"k"}
  IndexFile <- MCIndexFile
  NODE_SIZE = 40
  MaxKey = 6
  MaxCalls = 1
  BITS = 2
  BYTE = 8
  RECORD_DIR_SIZE = 2
  LENGTH_PREFIX = 2
INVARIANTS AggregateExact HashJoinExact PartitionsOwned SelectExact FormatsAgree ScanExact
PROPERTIES BNLImplementsJoin INLImplementsJoin QueryEnds ScanEnds
CHECK_DEADLOCK FALSE
