------------------------------- MODULE INLJoin -------------------------------
(***************************************************************************)
(* The index nested loop join (qe.cc): for each left tuple a scan of the   *)
(* index on the right attribute, over the range that the operator and the  *)
(* left key determine.                                                     *)
(*                                                                         *)
(* The index and the scan are those of modules BTree and IndexScan: a scan *)
(* nobody disturbs returns every entry of its range once.  Each entry      *)
(* leads to its tuple (EntriesLead of RelationManager): readTuple's error  *)
(* would pass for the end of the range.  One call of getNextTuple is the   *)
(* steps from one that returns to the client to the next.                  *)
(***************************************************************************)
EXTENDS JoinInputs

VARIABLES
  compOp,           \* condition.op
  hasCurrentLeft,   \* a scan is open, for left tuple leftRead
  ahead             \* the right tuples it has yet to return

inlVars == <<left, right, leftRead, leftEnd, given, ended, compOp, hasCurrentLeft, ahead>>

Ops == {"EQ_OP", "LT_OP", "LE_OP", "GT_OP", "GE_OP", "NE_OP", "NO_OP"}

INLInit ==
  /\ InputsTypeOK
  /\ compOp \in Ops
  /\ leftRead = 0 /\ leftEnd = FALSE
  /\ given = << >> /\ ended = FALSE
  /\ hasCurrentLeft = FALSE /\ ahead = {}

\* The key range of setIterator: the left key is a bound of it on either side.
InRange(k, leftKey) ==
  CASE compOp = "EQ_OP" -> k = leftKey
    [] compOp = "LT_OP" -> k < leftKey
    [] compOp = "LE_OP" -> k <= leftKey
    [] compOp = "GT_OP" -> k > leftKey
    [] compOp = "GE_OP" -> k >= leftKey
    [] OTHER            -> TRUE

\* NULL values are not in the index.
Found(leftKey) == {r \in DOMAIN right : right[r] # NULL /\ InRange(right[r], leftKey)}

-----------------------------------------------------------------------------
(* Steps. *)

\* Mutant: a NULL key is not skipped but ends the join.
NextLeft_NullEnds ==
  /\ ~hasCurrentLeft /\ ~leftEnd
  /\ leftRead < Len(left)
  /\ leftRead' = leftRead + 1
  /\ LET key == left[leftRead'].key
     IN  IF key = NULL
         THEN leftEnd' = TRUE /\ ended' = TRUE /\ UNCHANGED <<hasCurrentLeft, ahead>>
         ELSE hasCurrentLeft' = TRUE /\ ahead' = Found(key) /\ UNCHANGED <<leftEnd, ended>>
  /\ UNCHANGED <<inputs, given, compOp>>

NextLeft ==
  /\ ~hasCurrentLeft /\ ~leftEnd
  /\ leftRead < Len(left)
  /\ leftRead' = leftRead + 1
  /\ LET key == left[leftRead'].key
     IN  IF key = NULL
         THEN UNCHANGED <<hasCurrentLeft, ahead>>
         ELSE hasCurrentLeft' = TRUE /\ ahead' = Found(key)
  /\ UNCHANGED <<inputs, leftEnd, given, ended, compOp>>

NoMoreLeft ==
  /\ ~hasCurrentLeft
  /\ leftEnd \/ leftRead = Len(left)
  /\ leftEnd' = TRUE
  /\ ended' = TRUE
  /\ UNCHANGED <<inputs, leftRead, given, compOp, hasCurrentLeft, ahead>>

\* Mutant: the finished scan stays the current one.
RangeEnd_Stays ==
  /\ hasCurrentLeft /\ ahead = {}
  /\ UNCHANGED inlVars

RangeEnd ==
  /\ hasCurrentLeft /\ ahead = {}
  /\ hasCurrentLeft' = FALSE
  /\ UNCHANGED <<inputs, leftRead, leftEnd, given, ended, compOp, ahead>>

NextRight ==
  /\ hasCurrentLeft
  /\ \E r \in ahead :
       /\ ahead' = ahead \ {r}
       /\ given' = Append(given, <<leftRead, r>>)
  /\ ended' = FALSE
  /\ UNCHANGED <<inputs, leftRead, leftEnd, compOp, hasCurrentLeft>>

INLNext == NextLeft \/ NoMoreLeft \/ RangeEnd \/ NextRight

INLSpec == INLInit /\ [][INLNext]_inlVars

\* Joins on equality, the one condition whose sides may be exchanged.
EqualitySpec == INLInit /\ compOp = "EQ_OP" /\ [][INLNext]_inlVars

-----------------------------------------------------------------------------
(* Properties. *)

\* The condition: left-hand side, operator, right-hand side, compared as a selection
\* compares them.
Holds(l, r) ==
  CASE compOp = "EQ_OP" -> l = r
    [] compOp = "LT_OP" -> l < r
    [] compOp = "LE_OP" -> l <= r
    [] compOp = "GT_OP" -> l > r
    [] compOp = "GE_OP" -> l >= r
    [] compOp = "NE_OP" -> l # r
    [] OTHER            -> FALSE

\* NULL on either side satisfies nothing.
Satisfying == {p \in Pairs : LET l == left[p[1]].key
                                 r == right[p[2]]
                             IN  l # NULL /\ r # NULL /\ Holds(l, r)}

IndexPromise == INSTANCE Join WITH matching <- Satisfying

\* The join returns each pair that satisfies its condition once, and QE_EOF only after
\* all of them: NULL keys on either side neither match nor end it, nor does a left tuple
\* without a match.  (Of inequalities it is false: getNextTuple hands the left key to
\* setIterator as if it stood on the right.)
INLImplementsJoin == IndexPromise!Spec
=============================================================================
