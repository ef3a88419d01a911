----------------------------- MODULE MCOperators -----------------------------
(* One operator of the query engine at a time, an index scan among them, or two
   hash joins, with small inputs for TLC. *)
EXTENDS BNLJoin, GHJoin, Aggregate

CONSTANTS
  Operators,                                                                \* those that run
  CompOps,                                                                  \* of INLJoin
  MaxPages,
  NODE_SIZE, MaxKey, MaxCalls,                                              \* of IndexScan
  BITS, BYTE, RECORD_DIR_SIZE, LENGTH_PREFIX                                \* of Select

VARIABLES
  operator,                                         \* the one that runs
  outer, inner, outerRead, outerEnd, found, done,   \* the inputs of INLJoin
  compOp, hasCurrentLeft, ahead,
  attrs, table, condition, projNames, currentSlot, selected, finished,      \* of Select
  nodes, hidden, handles, iter, range, deleting, returned, expected, calls  \* of IndexScan

INL == INSTANCE INLJoin WITH left <- outer, right <- inner, leftRead <- outerRead,
                             leftEnd <- outerEnd, given <- found, ended <- done

SEL == INSTANCE Select WITH rows <- table, given <- selected, ended <- finished

IndexKeys   == 1..MaxKey
IndexKeyLen == [k \in IndexKeys |-> 4]

IX == INSTANCE MCIndexScan WITH PAGE_SIZE <- NODE_SIZE, Keys <- IndexKeys,
                                KeyLen <- IndexKeyLen, VarChar <- FALSE,
                                Rids <- {"r1"}, Handles <- {"h1"}

inlVars == <<outer, inner, outerRead, outerEnd, found, done, compOp, hasCurrentLeft, ahead>>
selVars == <<attrs, table, condition, projNames, currentSlot, selected, finished>>
ixVars  == <<nodes, hidden, handles, iter, range, deleting, returned, expected, calls>>
opVars  == <<operator, bnlVars, inlVars, ghVars, aggVars, selVars, ixVars>>

MCIndexFile  == [ta \in TableNames \X AttrNames |-> ta[1] \o "_" \o ta[2] \o ".idx"]
MCHash       == [k \in 1..3 |-> k]

\* Keys 1 and 3 share a partition, and 1 comes twice.
MCInputs == {<<<<1, 2, 1>>, <<NULL, 3, 1>>>>}

UpTo(n, S) == UNION {[1..k -> S] : k \in 0..n}

IdleBNL == left = << >> /\ right = << >> /\ numPages = 0 /\ BNLInit
IdleINL == outer = << >> /\ inner = << >> /\ compOp = "EQ_OP" /\ INL!INLInit
IdleAgg == rows = << >> /\ op = "COUNT" /\ isGroup = FALSE /\ AggInit

IdleSel ==
  /\ attrs = << >> /\ table = << >> /\ projNames = << >>
  /\ condition = [op |-> "NO_OP"]
  /\ SEL!SelInit

IdleIX == IX!OpenInit /\ IX!NoScan /\ calls = 0

\* Blocks of at most two tuples.
InitBNL ==
  /\ operator = "BNLJoin"
  /\ left \in UpTo(3, [key : 1..2, size : {3, maxSize}])
  /\ right \in UpTo(2, 1..2)
  /\ numPages \in 0..MaxPages
  /\ BNLInit
  /\ IdleINL /\ IdleAgg /\ IdleSel /\ IdleIX /\ GHInit

InitINL ==
  /\ operator = "INLJoin"
  /\ outer \in UpTo(3, [key : 1..2 \cup {NULL}, size : {1}])
  /\ inner \in UpTo(2, 1..2 \cup {NULL})
  /\ compOp \in CompOps
  /\ INL!INLInit
  /\ IdleBNL /\ IdleAgg /\ IdleSel /\ IdleIX /\ GHInit

\* All short inputs, and some long enough to lose count.
InitAgg ==
  /\ operator = "Aggregate"
  /\ rows \in UpTo(3, [group : Groups \cup {NullValue}, value : {-3, 1, 7, NullValue}])
        \cup UpTo(7, [group : {1}, value : {-2, 1}])
  /\ AggInit
  /\ IdleBNL /\ IdleINL /\ IdleSel /\ IdleIX /\ GHInit

InitGH ==
  /\ operator = "GHJoin"
  /\ GHInit
  /\ IdleBNL /\ IdleINL /\ IdleAgg /\ IdleSel /\ IdleIX

Number(name)  == [name |-> name, type |-> "TypeInt", length |-> 2]
Text(name)    == [name |-> name, type |-> "TypeVarChar", length |-> 5]
Numbers       == {SEL!Cells(v, 2) : v \in 1..2} \cup {NULL}
Texts         == {SEL!VarChar(1, 0), SEL!VarChar(1, 3), SEL!VarChar(2, 1), NULL}

Fields(i)     == IF SEL!IsVarChar(attrs[i]) THEN Texts ELSE Numbers

\* A table of two numbers and a text, in any order, and names with an unknown one.
InitSel ==
  /\ operator = "Select"
  /\ attrs \in {<<Number("a"), Text("b"), Number("c")>>, <<Text("b"), Number("a"), Number("c")>>}
  /\ table \in UpTo(2, {<<x, y, z>> : x \in Fields(1), y \in Fields(2), z \in Fields(3)})
  /\ condition \in [lhsAttr : {"a"}, op : {"LT_OP", "EQ_OP"}, bRhsIsAttr : {TRUE}, rhsAttr : {"c"}]
        \cup [lhsAttr : {"b"}, op : {"GE_OP"}, bRhsIsAttr : {FALSE}, rhsAttr : {""},
              rhsValue : {SEL!VarChar(1, 1)}, rhsType : {"TypeVarChar"}]
  /\ projNames \in {<<"c", "b">>, <<"x", "a">>}
  /\ SEL!SelInit
  /\ IdleBNL /\ IdleINL /\ IdleAgg /\ IdleIX /\ GHInit

\* Trees of three levels.
InitIX ==
  /\ operator = "IndexScan"
  /\ IX!MCInit
  /\ IdleBNL /\ IdleINL /\ IdleAgg /\ IdleSel /\ GHInit

MCInit == operator \in Operators /\ (InitBNL \/ InitINL \/ InitAgg \/ InitGH \/ InitSel \/ InitIX)

\* One process dies at most.
OneCrash == Cardinality({j \in Joins : joins[j].phase = "lost"}) <= 1

Pulling ==
  /\ UNCHANGED <<operator, ghVars, selVars>>
  /\ \/ operator = "BNLJoin" /\ BNLNext /\ UNCHANGED <<inlVars, aggVars, ixVars>>
     \/ operator = "INLJoin" /\ INL!INLNext /\ UNCHANGED <<bnlVars, aggVars, ixVars>>
     \/ operator = "Aggregate" /\ AggNext /\ UNCHANGED <<bnlVars, inlVars, ixVars>>
     \/ operator = "IndexScan" /\ IX!MCPull /\ UNCHANGED <<bnlVars, inlVars, aggVars>>

MCNext ==
  \/ Pulling
  \/ /\ operator = "GHJoin" /\ GHNext /\ OneCrash'
     /\ UNCHANGED <<operator, bnlVars, inlVars, aggVars, selVars, ixVars>>
  \/ /\ operator = "Select" /\ SEL!SelNext
     /\ UNCHANGED <<operator, bnlVars, inlVars, ghVars, aggVars, ixVars>>
  \/ /\ operator = "IndexScan" /\ IX!MCNext
     /\ UNCHANGED <<operator, bnlVars, inlVars, ghVars, aggVars, selVars>>

\* The client calls getNextTuple until it returns QE_EOF, and at least once.
MCSpec == MCInit /\ [][MCNext]_opVars /\ WF_opVars(Pulling)

INLImplementsJoin == INL!INLImplementsJoin
SelectExact       == SEL!SelectExact
FormatsAgree      == SEL!FormatsAgree
ScanExact         == IX!ScanExact
ScanEnds          == IX!ScanEnds

\* The client gets QE_EOF after finitely many calls, and from then on: no state of
\* blocks, scans and queues makes a call spin or the join start over.
QueryEnds == operator \in {"BNLJoin", "INLJoin", "Aggregate"} => <>[](ended \/ done \/ emptied)
=============================================================================
