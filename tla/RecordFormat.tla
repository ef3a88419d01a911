---------------------------- MODULE RecordFormat ----------------------------
(***************************************************************************)
(* The two formats of a tuple.  Clients and operators exchange tuples as a *)
(* null bitmap, followed by the values that are not null, a VarChar with   *)
(* its length before it.  A record file stores a directory of the offsets  *)
(* at which values end, followed by the values.  rbfm.cc converts between  *)
(* the two, as a whole and by attribute; qe.cc takes tuples apart and puts *)
(* new ones together.                                                      *)
(*                                                                         *)
(* Memory is a sequence of cells.  A byte of a bitmap is the set of its    *)
(* bits, byte k of a value v is <<v, k>>, and every byte of a length n is  *)
(* <<n, 0>>.  A value in the client format, with the length of a VarChar,  *)
(* is called a field.                                                      *)
(***************************************************************************)
EXTENDS Integers, FiniteSetsExt, SequencesExt

CONSTANTS
  BITS,                 \* bits of a byte
  BYTE,                 \* values of a byte
  RECORD_DIR_SIZE,      \* bytes of a directory entry
  LENGTH_PREFIX,        \* bytes of a length
  NULL                  \* in place of a field: the null value

TOMBSTONE_FLAG == 1
INVALID        == 65535         \* 0xFFFF, the directory entry of a null value

IsVarChar(attr) == attr.type = "TypeVarChar"

Cells(v, n)   == [k \in 1..n |-> <<v, k>>]
Length(n)     == [k \in 1..LENGTH_PREFIX |-> <<n, 0>>]
VarChar(v, n) == Length(n) \o Cells(v, n)

\* Values one behind the other; a null value takes no room.
Packed(values) ==
  LET upTo[i \in Nat] == IF i = 0 THEN << >>
                         ELSE IF values[i] = NULL THEN upTo[i - 1]
                         ELSE upTo[i - 1] \o values[i]
  IN  upTo[Len(values)]

\* The position of the first attribute of a name, or 0.
findAttrIndex(attrs, name) ==
  LET hits == {i \in DOMAIN attrs : attrs[i].name = name}
  IN  IF hits = {} THEN 0 ELSE Min(hits)

-----------------------------------------------------------------------------
(* Tuples. *)

nullBytes(n) == (n + BITS - 1) \div BITS

isNull(tuple, i) == (i - 1) % BITS \in tuple[(i - 1) \div BITS + 1]

SizeAt(attr, tuple, p) == IF IsVarChar(attr) THEN LENGTH_PREFIX + tuple[p][1] ELSE attr.length

\* Where the value of attribute i begins, behind those before it that are not null.
FieldPtr(tuple, attrs, i) ==
  LET at[k \in Nat] ==
        IF k = 1 THEN nullBytes(Len(attrs)) + 1
        ELSE at[k - 1] + IF isNull(tuple, k - 1) THEN 0
                         ELSE SizeAt(attrs[k - 1], tuple, at[k - 1])
  IN  at[i]

getTupleSize(tuple, attrs) == FieldPtr(tuple, attrs, Len(attrs) + 1) - 1

\* The field getFieldPtr leads to, or NULL.
Field(tuple, attrs, i) ==
  LET p == FieldPtr(tuple, attrs, i)
  IN  IF isNull(tuple, i) THEN NULL ELSE SubSeq(tuple, p, p + SizeAt(attrs[i], tuple, p) - 1)

\* A tuple put together from its fields.
Assembled(fields) ==
  [b \in 1..nullBytes(Len(fields)) |->
     {bit \in 0..BITS - 1 : LET i == (b - 1) * BITS + bit + 1
                            IN  i \in DOMAIN fields /\ fields[i] = NULL}]
    \o Packed(fields)

projectTuple(tuple, inAttrs, projNames, outAttrs) ==
  Assembled([k \in DOMAIN outAttrs |->
               Field(tuple, inAttrs, findAttrIndex(inAttrs, projNames[k]))])

concatTuples(leftTuple, rightTuple, leftAttrs, rightAttrs) ==
  Assembled([i \in DOMAIN leftAttrs |-> Field(leftTuple, leftAttrs, i)]
              \o [i \in DOMAIN rightAttrs |-> Field(rightTuple, rightAttrs, i)])

-----------------------------------------------------------------------------
(* Records. *)

dataToByteArray(attrs, tuple) ==
  LET content(i) == LET f == Field(tuple, attrs, i)
                    IN  IF f # NULL /\ IsVarChar(attrs[i])
                        THEN SubSeq(f, LENGTH_PREFIX + 1, Len(f)) ELSE f
      end[i \in Nat] == IF i = 0 THEN Len(attrs) * RECORD_DIR_SIZE
                        ELSE end[i - 1] + IF isNull(tuple, i) THEN 0 ELSE Len(content(i))
  IN  [dir   |-> [i \in DOMAIN attrs |-> IF isNull(tuple, i) THEN INVALID ELSE end[i]],
       bytes |-> Packed([i \in DOMAIN attrs |-> content(i)])]

\* The bytes from offset `from' up to offset `to' of a record.
Between(record, from, to) ==
  LET start == Len(record.dir) * RECORD_DIR_SIZE
  IN  SubSeq(record.bytes, from - start + 1, to - start)

\* The field of attribute i, whose value begins where the one before it ends.
FieldOf(attrs, record, i, prevOffset) ==
  IF record.dir[i] = INVALID THEN NULL
  ELSE IF IsVarChar(attrs[i])
  THEN Length(record.dir[i] - prevOffset) \o Between(record, prevOffset, record.dir[i])
  ELSE Between(record, prevOffset, prevOffset + attrs[i].length)

\* A pass over the directory carries the end of the last value along.
byteArrayToData(attrs, record) ==
  LET prevOffset[i \in Nat] ==
        IF i = 1 THEN Len(attrs) * RECORD_DIR_SIZE
        ELSE IF record.dir[i - 1] = INVALID THEN prevOffset[i - 1]
        ELSE record.dir[i - 1]
  IN  Assembled([i \in DOMAIN attrs |-> FieldOf(attrs, record, i, prevOffset[i])])

\* Mutant: only the entry before i is looked at.
LookBack_Once(record, i) ==
  IF i = 1 \/ record.dir[i - 1] = INVALID THEN Len(record.dir) * RECORD_DIR_SIZE
  ELSE record.dir[i - 1]

\* Access to a single attribute looks back for the last value before it.
LookBack(record, i) ==
  LET before == {j \in 1..i - 1 : record.dir[j] # INVALID}
  IN  IF before = {} THEN Len(record.dir) * RECORD_DIR_SIZE ELSE record.dir[Max(before)]

readAttribute(attrs, record, name) ==
  LET i == findAttrIndex(attrs, name)
  IN  Assembled(<<FieldOf(attrs, record, i, LookBack(record, i))>>)

\* What getNextRecord returns of a record that passes, for attributes there are.
Projected(attrs, record, names) ==
  Assembled([k \in DOMAIN names |->
               LET i == findAttrIndex(attrs, names[k])
               IN  FieldOf(attrs, record, i, LookBack(record, i))])

\* Readers take a record whose first byte, the low one of its first directory
\* entry, is the flag for a tombstone.
LooksMoved(record) == record.dir[1] % BYTE = TOMBSTONE_FLAG

-----------------------------------------------------------------------------
(* Comparisons. *)

\* The order of two fields: of numbers, or of texts letter by letter, then by length.
\* The letters of a text are taken to be alike.
Order(f, g, type) ==
  IF type # "TypeVarChar" THEN f[1][1] - g[1][1]
  ELSE LET letter(x) == x[LENGTH_PREFIX + 1][1]
           size(x)   == x[1][1]
       IN  IF size(f) > 0 /\ size(g) > 0 /\ letter(f) # letter(g)
           THEN letter(f) - letter(g) ELSE size(f) - size(g)

\* compareValues, and compare of rbfm.cc; NO_OP compares nothing.
compareValues(f, g, type, op) ==
  LET cmp == Order(f, g, type)
  IN  CASE op = "EQ_OP" -> cmp = 0
        [] op = "GT_OP" -> cmp > 0
        [] op = "LT_OP" -> cmp < 0
        [] op = "GE_OP" -> cmp >= 0
        [] op = "LE_OP" -> cmp <= 0
        [] op = "NE_OP" -> cmp # 0
        [] OTHER        -> FALSE
=============================================================================
