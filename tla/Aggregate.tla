------------------------------ MODULE Aggregate ------------------------------
(***************************************************************************)
(* The aggregation (qe.cc): the first call of getNextTuple reads the whole *)
(* input and accumulates, per group or for all tuples, what the five       *)
(* operators need; then each call returns one result.                      *)
(*                                                                         *)
(* All arithmetic is in single precision: Mantissa is the number of bits   *)
(* of its significand.  Values are whole numbers within the range of float; *)
(* the quotient of AVG is left as the pair of sum and count.  An           *)
(* aggregation without groups keeps one accumulator, under the name All.   *)
(***************************************************************************)
EXTENDS Integers, Sequences, FiniteSetsExt, Functions

CONSTANTS
  Groups,       \* values of the group attribute
  All,          \* none of them
  NullValue,    \* the null value
  Mantissa      \* 24

ASSUME AggregateAssumption == All \notin Groups /\ NullValue \notin Groups /\ Mantissa \in Nat \ {0}

VARIABLES
  rows,         \* the tuples of the input: group and value
  op,           \* the operator
  isGroup,      \* whether there is a group attribute
  drained,      \* how many tuples have been read
  computed,     \* whether all have been
  groupMap,     \* group -> accumulator
  groupOrder,   \* the groups in the order of their first tuples
  groupCursor,  \* how many results have been returned
  results,      \* history: the results returned
  emptied       \* whether the last call returned QE_EOF

aggVars == <<rows, op, isGroup, drained, computed, groupMap, groupOrder, groupCursor,
             results, emptied>>

AggregateOps == {"MIN", "MAX", "COUNT", "SUM", "AVG"}

-----------------------------------------------------------------------------
(* Single precision. *)

Exact == 2^Mantissa

Magnitude(n) == IF n < 0 THEN -n ELSE n

\* The distance of the numbers of single precision around n.
Spacing(n) == 2^(CHOOSE e \in 0..Magnitude(n) :
                   /\ Magnitude(n) <= Exact * 2^e
                   /\ e > 0 => Magnitude(n) > Exact * 2^(e - 1))

\* To the nearest of them, halfway to the even multiple.
Rounded(n) ==
  LET u  == Spacing(n)
      q  == Magnitude(n) \div u
      r  == Magnitude(n) % u
      m  == IF 2 * r > u \/ (2 * r = u /\ q % 2 = 1) THEN q + 1 ELSE q
  IN  IF n < 0 THEN -(m * u) ELSE m * u

-----------------------------------------------------------------------------
(* Accumulation. *)

NewAccum == [hasAny |-> FALSE, minV |-> 0, maxV |-> 0, sumV |-> 0, countV |-> 0]

\* Mutant: 0 is taken for a value.
Accumulated_FromZero(acc, v) ==
  [hasAny |-> TRUE,
   minV   |-> IF v < acc.minV THEN v ELSE acc.minV,
   maxV   |-> IF v > acc.maxV THEN v ELSE acc.maxV,
   sumV   |-> Rounded(acc.sumV + v),
   countV |-> Rounded(acc.countV + 1)]

Accumulated(acc, v) ==
  [hasAny |-> TRUE,
   minV   |-> IF ~acc.hasAny \/ v < acc.minV THEN v ELSE acc.minV,
   maxV   |-> IF ~acc.hasAny \/ v > acc.maxV THEN v ELSE acc.maxV,
   sumV   |-> Rounded(acc.sumV + v),
   countV |-> Rounded(acc.countV + 1)]

AggInit ==
  /\ rows \in Seq([group : Groups \cup {NullValue}, value : Int \cup {NullValue}])
  /\ op \in AggregateOps
  /\ isGroup \in BOOLEAN
  /\ drained = 0 /\ computed = FALSE
  /\ groupMap   = IF isGroup THEN << >> ELSE [g \in {All} |-> NewAccum]
  /\ groupOrder = IF isGroup THEN << >> ELSE <<All>>
  /\ groupCursor = 0
  /\ results = << >> /\ emptied = FALSE

\* A tuple without a group is skipped; one without a value still makes its group.
ReadRow ==
  /\ drained < Len(rows)
  /\ drained' = drained + 1
  /\ LET row == rows[drained']
         g   == IF isGroup THEN row.group ELSE All
         new == g \notin DOMAIN groupMap
         acc == IF new THEN NewAccum ELSE groupMap[g]
     IN  IF g = NullValue
         THEN UNCHANGED <<groupMap, groupOrder>>
         ELSE /\ groupOrder' = IF new THEN Append(groupOrder, g) ELSE groupOrder
              /\ groupMap' = [h \in DOMAIN groupMap \cup {g} |->
                                IF h # g THEN groupMap[h]
                                ELSE IF row.value = NullValue THEN acc
                                ELSE Accumulated(acc, Rounded(row.value))]
  /\ UNCHANGED <<rows, op, isGroup, computed, groupCursor, results, emptied>>

InputEnd ==
  /\ ~computed
  /\ drained = Len(rows)
  /\ computed' = TRUE
  /\ UNCHANGED <<rows, op, isGroup, drained, groupMap, groupOrder, groupCursor, results, emptied>>

Result(acc) ==
  CASE ~isGroup /\ ~acc.hasAny /\ op # "COUNT" -> NullValue
    [] op = "MIN"   -> acc.minV
    [] op = "MAX"   -> acc.maxV
    [] op = "COUNT" -> acc.countV
    [] op = "SUM"   -> acc.sumV
    [] op = "AVG"   -> IF acc.countV > 0 THEN <<acc.sumV, acc.countV>> ELSE 0

NextResult ==
  /\ computed
  /\ groupCursor < Len(groupOrder)
  /\ groupCursor' = groupCursor + 1
  /\ LET g == groupOrder[groupCursor']
     IN  results' = Append(results, [group |-> g, value |-> Result(groupMap[g])])
  /\ emptied' = FALSE
  /\ UNCHANGED <<rows, op, isGroup, drained, computed, groupMap, groupOrder>>

NoMoreResults ==
  /\ computed
  /\ groupCursor = Len(groupOrder)
  /\ emptied' = TRUE
  /\ UNCHANGED <<rows, op, isGroup, drained, computed, groupMap, groupOrder, groupCursor, results>>

AggNext == ReadRow \/ InputEnd \/ NextResult \/ NoMoreResults

AggSpec == AggInit /\ [][AggNext]_aggVars

-----------------------------------------------------------------------------
(* Properties. *)

TuplesOf(g)   == {i \in DOMAIN rows : isGroup => rows[i].group = g}
Valued(g)     == {i \in TuplesOf(g) : rows[i].value # NullValue}
ValuesOf(g)   == {rows[i].value : i \in Valued(g)}
SumOf(I)      == FoldFunctionOnSet(+, 0, [i \in I |-> rows[i].value], I)
Representable(n) == Magnitude(n) <= Exact

\* The result SQL gives for a group with values, as far as single precision goes: the
\* least and the greatest value rounded, the count up to 2^24 and no further, the sum
\* and the average if no value and no partial sum is larger.
RightFor(g, v) ==
  CASE op = "MIN"   -> v = Rounded(Min(ValuesOf(g)))
    [] op = "MAX"   -> v = Rounded(Max(ValuesOf(g)))
    [] op = "COUNT" -> v = Min({Exact, Cardinality(Valued(g))})
    [] OTHER        ->
         (\A i \in Valued(g) : Representable(rows[i].value)
                               /\ Representable(SumOf(Valued(g) \cap 1..i))) =>
           v = IF op = "SUM" THEN SumOf(Valued(g))
               ELSE <<SumOf(Valued(g)), Min({Exact, Cardinality(Valued(g))})>>

\* What the client has been given when it gets QE_EOF: each group of the input once,
\* in the order the groups appeared, with its right result; without groups one result,
\* NullValue (for COUNT zero) if there were no values.
AggregateExact ==
  emptied =>
    /\ {results[k].group : k \in DOMAIN results} =
         IF isGroup THEN {rows[i].group : i \in DOMAIN rows} \ {NullValue} ELSE {All}
    /\ \A k, l \in DOMAIN results :
         k < l => Min(TuplesOf(results[k].group)) < Min(TuplesOf(results[l].group))
    /\ \A k \in DOMAIN results :
         IF Valued(results[k].group) # {}
         THEN RightFor(results[k].group, results[k].value)
         ELSE ~isGroup => results[k].value = IF op = "COUNT" THEN 0 ELSE NullValue
=============================================================================
