------------------------------- MODULE Select -------------------------------
(***************************************************************************)
(* A selection: Project over Filter over TableScan (qe.cc, qe.h), on a     *)
(* table whose records lie in the file in their order.  A call of Project  *)
(* pulls tuples from Filter, and Filter from the scan, until one passes;   *)
(* the tuples and records are those of module RecordFormat, and the scan   *)
(* returns every attribute.  The file does not change meanwhile: see       *)
(* RecordScan.                                                             *)
(***************************************************************************)
EXTENDS RecordFormat

VARIABLES
  attrs,        \* the attributes of the table
  rows,         \* its rows, as sequences of fields
  condition,    \* lhsAttr, op, bRhsIsAttr, rhsAttr, and a field rhsValue of rhsType
  projNames,    \* the names of the attributes to project
  currentSlot,  \* the next record of the scan
  given,        \* history: the tuples returned
  ended         \* whether the last call returned QE_EOF

selVars == <<attrs, rows, condition, projNames, currentSlot, given, ended>>

File == [r \in DOMAIN rows |-> dataToByteArray(attrs, Assembled(rows[r]))]

\* What Project's constructor makes of the names: unknown ones have no attribute.
outputAttrs ==
  LET known == SelectSeq(projNames, LAMBDA name : findAttrIndex(attrs, name) # 0)
  IN  [k \in DOMAIN known |-> attrs[findAttrIndex(attrs, known[k])]]

SelInit == currentSlot = 1 /\ given = << >> /\ ended = FALSE

\* Mutant: a null value is compared as if it were the smallest.
checkCondition_Null(tuple) ==
  LET l == findAttrIndex(attrs, condition.lhsAttr)
      r == findAttrIndex(attrs, condition.rhsAttr)
  IN  /\ l # 0
      /\ condition.bRhsIsAttr => r # 0 /\ Field(tuple, attrs, r) # NULL
      /\ \/ Field(tuple, attrs, l) = NULL /\ condition.op \in {"LT_OP", "LE_OP", "NE_OP"}
         \/ /\ Field(tuple, attrs, l) # NULL
            /\ IF condition.bRhsIsAttr
               THEN compareValues(Field(tuple, attrs, l), Field(tuple, attrs, r),
                                  attrs[l].type, condition.op)
               ELSE compareValues(Field(tuple, attrs, l), condition.rhsValue,
                                  condition.rhsType, condition.op)

checkCondition(tuple) ==
  LET l == findAttrIndex(attrs, condition.lhsAttr)
      r == findAttrIndex(attrs, condition.rhsAttr)
  IN  /\ l # 0
      /\ Field(tuple, attrs, l) # NULL
      /\ IF condition.bRhsIsAttr
         THEN /\ r # 0
              /\ Field(tuple, attrs, r) # NULL
              /\ compareValues(Field(tuple, attrs, l), Field(tuple, attrs, r),
                               attrs[l].type, condition.op)
         ELSE compareValues(Field(tuple, attrs, l), condition.rhsValue,
                            condition.rhsType, condition.op)

-----------------------------------------------------------------------------
(* Steps.  The scan's getNextTuple goes past what looks like a tombstone. *)

Ahead == currentSlot <= Len(rows)

\* The tuple the scan returns to Filter.
Scanned == Projected(attrs, File[currentSlot], [i \in DOMAIN attrs |-> attrs[i].name])

Advance == currentSlot' = currentSlot + 1 /\ UNCHANGED <<attrs, rows, condition, projNames>>

SkipRecord ==
  /\ Ahead /\ LooksMoved(File[currentSlot])
  /\ Advance
  /\ UNCHANGED <<given, ended>>

FilterOut ==
  /\ Ahead /\ ~LooksMoved(File[currentSlot])
  /\ ~checkCondition(Scanned)
  /\ Advance
  /\ UNCHANGED <<given, ended>>

\* projectTuple finds an unknown name among as many names as there are known ones.
Misnamed == \E k \in DOMAIN outputAttrs : findAttrIndex(attrs, projNames[k]) = 0

\* Its error is the value of QE_EOF.
Return ==
  /\ Ahead /\ ~LooksMoved(File[currentSlot])
  /\ checkCondition(Scanned)
  /\ given' = IF Misnamed THEN given
              ELSE Append(given, projectTuple(Scanned, attrs, projNames, outputAttrs))
  /\ ended' = Misnamed
  /\ Advance

End ==
  /\ ~Ahead
  /\ ended' = TRUE
  /\ UNCHANGED <<attrs, rows, condition, projNames, currentSlot, given>>

SelNext == SkipRecord \/ FilterOut \/ Return \/ End

SelSpec == SelInit /\ [][SelNext]_selVars

-----------------------------------------------------------------------------
(* Properties. *)

\* What a row satisfies: the condition of two values, neither of which is null.
Holds(row) ==
  LET Value(name) == IF findAttrIndex(attrs, name) = 0 THEN NULL
                     ELSE row[findAttrIndex(attrs, name)]
      lhs == Value(condition.lhsAttr)
      rhs == IF condition.bRhsIsAttr THEN Value(condition.rhsAttr) ELSE condition.rhsValue
  IN  NULL \notin {lhs, rhs}
      /\ compareValues(lhs, rhs, attrs[findAttrIndex(attrs, condition.lhsAttr)].type, condition.op)

Expected ==
  LET read == SelectSeq([r \in DOMAIN rows |-> r],
                        LAMBDA r : ~LooksMoved(File[r]) /\ Holds(rows[r]))
  IN  [k \in DOMAIN read |->
         Assembled([n \in DOMAIN outputAttrs |-> rows[read[k]][findAttrIndex(attrs, projNames[n])]])]

\* A selection returns, in their order, the named values of the rows that satisfy its
\* condition, whichever values are null, of whatever length and however many bytes the
\* bitmaps take; a name that is unknown leaves it empty, or is ignored at the end of the
\* names.  Left out are the rows whose first value ends at the offset of the flag
\* of tombstones, modulo a byte.
SelectExact ==
  IF Misnamed THEN given = << >>
  ELSE IsPrefix(given, Expected) /\ (ended => given = Expected)

\* However a tuple is stored, read as a whole, read by attribute or joined to another,
\* every value comes back, in its place and with its length; what has been read can be
\* copied by its computed size.
FormatsAgree ==
  \A r \in DOMAIN rows :
    LET tuple == Assembled(rows[r])
    IN  /\ getTupleSize(tuple, attrs) = Len(tuple)
        /\ byteArrayToData(attrs, File[r]) = tuple
        /\ \A i \in DOMAIN attrs :
             readAttribute(attrs, File[r], attrs[i].name) = Assembled(<<rows[r][i]>>)
        /\ \A s \in DOMAIN rows :
             concatTuples(tuple, Assembled(rows[s]), attrs, attrs) = Assembled(rows[r] \o rows[s])
=============================================================================
