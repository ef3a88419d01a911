--------------------------- MODULE RelationProofs ---------------------------
(***************************************************************************)
(* The catalog stays sound through any crashes, for any table, attribute   *)
(* and file names.  Tables of tuples keep it as module Catalog has it, so  *)
(* what is established of the catalog holds of the relation manager.       *)
(* Its record files and indexes hold what belongs in them, no index leads  *)
(* astray, and the whole implements the tables of module TableStore.       *)
(***************************************************************************)
EXTENDS RelationManager, TLAPS

\* Tables has no rows while its file is not there.
NoFileNoRows == "Tables" \notin disk.files => disk.tables = {}

\* Tables lists itself before it lists Columns.
TablesFirst == Listed("Columns") => Listed("Tables")

CatalogInv == TypeOK /\ NoFileNoRows /\ RowsUnique /\ NothingStray /\ CatalogDeletable

-----------------------------------------------------------------------------
(* Bags. *)

LEMMA AddToBag ==
  ASSUME NEW B, IsABag(B), NEW S, NEW n \in Nat, n > 0
  PROVE  LET sum == B (+) [x \in S |-> n]
         IN  /\ IsABag(sum) /\ DOMAIN sum = DOMAIN B \cup S
             /\ \A x \in DOMAIN B \ S : sum[x] = B[x]
             /\ \A x \in S \ DOMAIN B : sum[x] = n
  BY DEF IsABag, (+)

LEMMA AddNothing ==
  ASSUME NEW B, IsABag(B), NEW C, DOMAIN C = {}
  PROVE  B (+) C = B
  BY DEF IsABag, (+)

LEMMA SubtractFromBag ==
  ASSUME NEW B, IsABag(B), NEW C, IsABag(C)
  PROVE  LET rest == B (-) C
         IN  /\ IsABag(rest) /\ rest \sqsubseteq B
             /\ \A x \in DOMAIN B \ DOMAIN C : x \in DOMAIN rest /\ rest[x] = B[x]
             /\ \A x \in DOMAIN C : x \in DOMAIN B /\ B[x] <= C[x] => x \notin DOMAIN rest
<1> DEFINE d    == [x \in DOMAIN B |-> IF x \in DOMAIN C THEN B[x] - C[x] ELSE B[x]]
           rest == B (-) C
<1>1. rest = [x \in {y \in DOMAIN B : d[y] > 0} |-> d[x]]
  BY DEF (-)
<1>2. \A x \in DOMAIN B : B[x] \in Nat /\ B[x] > 0
  BY DEF IsABag
<1>3. \A x \in DOMAIN C : C[x] \in Nat /\ C[x] > 0
  BY DEF IsABag
<1>4. \A x \in DOMAIN B : d[x] \in Int /\ d[x] <= B[x]
  BY <1>2, <1>3
<1>5. \A x \in DOMAIN B \ DOMAIN C : d[x] = B[x] /\ d[x] > 0
  BY <1>2
<1>6. \A x \in DOMAIN B \cap DOMAIN C : B[x] <= C[x] => ~(d[x] > 0)
  BY <1>2, <1>3
<1> HIDE DEF d, rest
<1>7. DOMAIN rest = {x \in DOMAIN B : d[x] > 0} /\ \A x \in DOMAIN rest : rest[x] = d[x]
  BY <1>1
<1>8. IsABag(rest)
  BY <1>1, <1>4 DEF IsABag
<1>9. rest \sqsubseteq B
  BY <1>4, <1>7 DEF \sqsubseteq
<1> QED
  BY <1>5, <1>6, <1>7, <1>8, <1>9 DEF rest

LEMMA SubtractNothing ==
  ASSUME NEW B, IsABag(B), NEW C, DOMAIN C = {}
  PROVE  B (-) C = B
  BY DEF IsABag, (-)

LEMMA PartIsBag ==
  ASSUME NEW B, IsABag(B), NEW P \in SomeOf(B)
  PROVE  IsABag(P) /\ P \sqsubseteq B
<1>1. PICK D \in SUBSET DOMAIN B : P \in [D -> UNION {1..B[x] : x \in D}]
  BY DEF SomeOf, BagToSet
<1>2. \A n \in UNION {1..B[x] : x \in D} : n \in Nat /\ n > 0
  BY <1>1 DEF IsABag
<1> QED
  BY <1>1, <1>2 DEF IsABag, SomeOf

-----------------------------------------------------------------------------
(* What each call of the catalog leaves, complete or cut short, field by field. *)

Record(d) == d = [files |-> d.files, tables |-> d.tables, columns |-> d.columns]

\* The rows of Columns for the attributes in `as' of the table with number id.
Rows(id, as) == {[id |-> id, name |-> a] : a \in as}

\* Columns has lost rows under number id, if any.
Fewer(id) ==
  /\ IsABag(disk'.columns) /\ DOMAIN disk'.columns \subseteq DOMAIN disk.columns
  /\ \A c \in DOMAIN disk.columns :
       c.id # id => c \in DOMAIN disk'.columns /\ disk'.columns[c] = disk.columns[c]

\* Columns describes the same attributes under number id, as often.
SameRows(id) ==
  \A a : LET c == [id |-> id, name |-> a]
         IN  /\ c \in DOMAIN disk'.columns <=> c \in DOMAIN disk.columns
             /\ c \in DOMAIN disk.columns => disk'.columns[c] = disk.columns[c]

LEMMA AttrsKeep ==
  ASSUME NEW t, RowsOf(t)' = RowsOf(t), \A r \in RowsOf(t) : SameRows(r.id)
  PROVE  /\ Attrs(t)' = Attrs(t)
         /\ RowsOf(t) # {} => \A a : Listings(t, a)' = Listings(t, a)
<1>1. Attrs(t)' = Attrs(t)
  BY DEF Attrs, BagIn, BagToSet, SameRows
<1>2. ASSUME RowsOf(t) # {}, NEW a
      PROVE  Listings(t, a)' = Listings(t, a)
  <2> DEFINE r == CHOOSE r \in RowsOf(t) : TRUE
             c == [id |-> r.id, name |-> a]
  <2>1. r \in RowsOf(t)
    BY <1>2
  <2>2. (CHOOSE q \in RowsOf(t)' : TRUE) = r
    OBVIOUS
  <2>3. /\ c \in DOMAIN disk'.columns <=> c \in DOMAIN disk.columns
        /\ c \in DOMAIN disk.columns => disk'.columns[c] = disk.columns[c]
    BY <2>1 DEF SameRows
  <2>4. Listings(t, a) = IF c \in DOMAIN disk.columns THEN disk.columns[c] ELSE 0
    BY DEF Listings, Copies, BagIn, BagToSet
  <2>5. Listings(t, a)' = IF c \in DOMAIN disk'.columns THEN disk'.columns[c] ELSE 0
    BY <2>2 DEF Listings, Copies, BagIn, BagToSet
  <2> QED
    BY <2>3, <2>4, <2>5
<1> QED
  BY <1>1, <1>2

LEMMA CreateCatalogLeaves ==
  ASSUME TypeOK, createCatalog
  PROVE  /\ "Tables" \notin disk.files
         /\ Record(disk')
         /\ disk'.columns = disk.columns
         /\ \/ disk' = disk
            \/ disk'.files = disk.files \cup {"Tables"} /\ disk'.tables = {}
            \/ disk'.files = disk.files \cup CatalogFiles /\ disk'.tables \subseteq CatalogRows
         /\ cut' \in {cut, cut \cup {"createCatalog"}}
<1>1. /\ "Tables" \notin disk.files
      /\ cut' \in {cut, cut \cup {"createCatalog"}}
      /\ disk' \in {disk, Created({"Tables"}, {}), Created(CatalogFiles, CatalogRows),
                    Created(CatalogFiles, {}),
                    Created(CatalogFiles, {[id |-> 1, name |-> "Tables"]})}
  BY DEF createCatalog, Write
<1>2. [id |-> 1, name |-> "Tables"] \in CatalogRows
  BY DEF CatalogRows
<1> QED
  BY <1>1, <1>2 DEF TypeOK, Record, Created, CatalogFiles

LEMMA DeleteCatalogLeaves ==
  ASSUME TypeOK, deleteCatalog
  PROVE  \E F \in SUBSET (CatalogFiles \cup {r.name : r \in disk.tables}) :
           /\ disk' = Without(disk, F)
           /\ \/ /\ cut' = cut
                 /\ F = CatalogFiles \cup {r.name : r \in disk.tables}
              \/ cut' = cut \cup {"deleteCatalog"}
           /\ Listed("Tables") /\ F # {} => "Tables" \in F
           /\ TablesFirst /\ "Columns" \in F => "Tables" \in F
<1> DEFINE doomed == CatalogFiles \cup {r.name : r \in disk.tables}
           sofar  == {F \in SUBSET doomed :
                        \A f \in F, g \in doomed \ F : RemovedBy(f) <= RemovedBy(g)}
<1>1. \/ disk' = Without(disk, doomed) /\ cut' = cut
      \/ /\ disk' \in {Without(disk, F) : F \in sofar}
         /\ cut' = cut \cup {"deleteCatalog"}
  BY DEF deleteCatalog, Write
<1>2. "Tables" \in doomed
  BY DEF CatalogFiles
<1>3. ASSUME NEW F \in sofar, Listed("Tables"), F # {}, "Tables" \notin F
      PROVE  FALSE
  <2>1. PICK f \in F : RemovedBy(f) <= RemovedBy("Tables")
    BY <1>2, <1>3
  <2>2. RemovedBy("Tables") = 1 /\ RemovedBy(f) \in {2, 3, 5}
    BY <1>3, <2>1 DEF RemovedBy
  <2> QED
    BY <2>1, <2>2
<1>4. ASSUME NEW F \in sofar, TablesFirst, "Columns" \in F, "Tables" \notin F
      PROVE  FALSE
  <2>1. RemovedBy("Columns") <= RemovedBy("Tables")
    BY <1>2, <1>4
  <2> QED
    BY <1>3, <1>4, <2>1 DEF RemovedBy, TablesFirst
<1>5. CASE disk' = Without(disk, doomed) /\ cut' = cut
  BY <1>2, <1>5
<1>6. CASE disk' \in {Without(disk, F) : F \in sofar} /\ cut' = cut \cup {"deleteCatalog"}
  <2>1. PICK F \in sofar : disk' = Without(disk, F)
    BY <1>6
  <2>2. /\ F \in SUBSET doomed
        /\ Listed("Tables") /\ F # {} => "Tables" \in F
        /\ TablesFirst /\ "Columns" \in F => "Tables" \in F
    BY <1>3, <1>4
  <2> QED
    BY <1>6, <2>1, <2>2
<1> QED
  BY <1>1, <1>5, <1>6

\* Of the new rows, those of Columns come after the one of Tables.
LEMMA CreateTableLeaves ==
  ASSUME TypeOK, NEW t \in TableNames, NEW attrs \in SUBSET AttrNames, createTable(t, attrs)
  PROVE  /\ HasCatalog /\ ~Listed(t) /\ t \notin disk.files
         /\ Record(disk')
         /\ disk'.files = disk.files \cup {t}
         /\ cut' \in {cut, cut \cup {"createTable"}}
         /\ \/ disk'.tables = disk.tables /\ disk'.columns = disk.columns
            \/ \E id \in Nat, as \in SUBSET AttrNames :
                 /\ \A r \in disk.tables : r.id < id
                 /\ disk'.tables = disk.tables \cup {[id |-> id, name |-> t]}
                 /\ disk'.columns = disk.columns (+) SetToBag(Rows(id, as))
<1>1. PICK id \in NextIds :
        Write("createTable", Described(t, id, attrs),
              {Created({t}, disk.tables)} \cup {Described(t, id, as) : as \in SUBSET attrs})
  BY DEF createTable
<1>2. id \in Nat /\ \A r \in disk.tables : r.id < id
  BY DEF NextIds, TypeOK, TableRow
<1>3. /\ disk' = Created({t}, disk.tables) \/ \E as \in SUBSET attrs : disk' = Described(t, id, as)
      /\ cut' \in {cut, cut \cup {"createTable"}}
  BY <1>1 DEF Write
<1>4. HasCatalog /\ ~Listed(t) /\ t \notin disk.files
  BY DEF createTable
<1>5. CASE disk' = Created({t}, disk.tables)
  BY <1>3, <1>4, <1>5 DEF Record, Created
<1>6. ASSUME NEW as \in SUBSET attrs, disk' = Described(t, id, as)
      PROVE  /\ Record(disk')
             /\ disk'.files = disk.files \cup {t}
             /\ disk'.tables = disk.tables \cup {[id |-> id, name |-> t]}
             /\ disk'.columns = disk.columns (+) SetToBag(Rows(id, as))
  BY <1>6 DEF Record, Described, Rows
<1> QED
  BY <1>2, <1>3, <1>4, <1>5, <1>6

\* What the new rows of Columns leave as it is.
LEMMA RowsAdded ==
  ASSUME TypeOK, NEW id \in Nat, NEW as \in SUBSET AttrNames,
         disk'.columns = disk.columns (+) SetToBag(Rows(id, as))
  PROVE  /\ IsABag(disk'.columns)
         /\ DOMAIN disk'.columns = DOMAIN disk.columns \cup Rows(id, as)
         /\ Rows(id, as) \subseteq ColumnRow
         /\ \A c \in Rows(id, as) : c.id = id
         /\ \A c \in DOMAIN disk.columns \ Rows(id, as) : disk'.columns[c] = disk.columns[c]
         /\ \A c \in Rows(id, as) \ DOMAIN disk.columns : disk'.columns[c] = 1
         /\ \A other : other # id => SameRows(other)
<1>1. disk'.columns = disk.columns (+) [c \in Rows(id, as) |-> 1] /\ IsABag(disk.columns)
  BY DEF SetToBag, TypeOK
<1>2. /\ IsABag(disk'.columns)
      /\ DOMAIN disk'.columns = DOMAIN disk.columns \cup Rows(id, as)
      /\ \A c \in DOMAIN disk.columns \ Rows(id, as) : disk'.columns[c] = disk.columns[c]
      /\ \A c \in Rows(id, as) \ DOMAIN disk.columns : disk'.columns[c] = 1
  <2> DEFINE new == Rows(id, as)
  <2>1. 1 \in Nat /\ 1 > 0
    OBVIOUS
  <2> HIDE DEF new
  <2>2. LET sum == disk.columns (+) [x \in new |-> 1]
        IN  /\ IsABag(sum) /\ DOMAIN sum = DOMAIN disk.columns \cup new
            /\ \A x \in DOMAIN disk.columns \ new : sum[x] = disk.columns[x]
            /\ \A x \in new \ DOMAIN disk.columns : sum[x] = 1
    BY <1>1, <2>1, AddToBag
  <2>3. disk'.columns = disk.columns (+) [x \in new |-> 1]
    BY <1>1 DEF new
  <2> QED
    BY <2>2, <2>3 DEF new
<1>3. Rows(id, as) \subseteq ColumnRow /\ \A c \in Rows(id, as) : c.id = id
  <2>1. ASSUME NEW c \in Rows(id, as)
        PROVE  c \in ColumnRow /\ c.id = id
    <3>1. PICK a \in as : c = [id |-> id, name |-> a]
      BY DEF Rows
    <3>2. a \in AttrNames
      OBVIOUS
    <3> QED
      BY <3>1, <3>2 DEF ColumnRow
  <2> QED
    BY <2>1
<1>4. ASSUME NEW other, other # id
      PROVE  SameRows(other)
  <2>1. \A a : [id |-> other, name |-> a] \notin Rows(id, as)
    BY <1>3, <1>4
  <2> QED
    BY <1>2, <2>1 DEF SameRows
<1> QED
  BY <1>2, <1>3, <1>4

LEMMA DeleteTableLeaves ==
  ASSUME TypeOK, NEW t \in TableNames, deleteTable(t)
  PROVE  \E r \in RowsOf(t), F \in SUBSET ({t} \cup IndexFiles) :
           /\ Record(disk')
           /\ disk'.files = disk.files \ F
           /\ disk'.tables = disk.tables \ {r}
           /\ Fewer(r.id)
           /\ \/ /\ cut' = cut
                 /\ F = {IndexFile[<<t, a>>] : a \in Attrs(t)} \cup {t}
                 /\ \A c \in DOMAIN disk'.columns : c.id # r.id
              \/ F \subseteq IndexFiles /\ cut' = cut \cup {"deleteTable"}
<1>1. PICK r \in RowsOf(t) :
        LET rows    == ColumnsOf(r.id)
            indexes == {IndexFile[<<t, a>>] : a \in Attrs(t)}
        IN  Write("deleteTable", Without(Struck(r, rows), indexes \cup {t}),
                  {Struck(r, R) : R \in SomeOf(rows)}
                    \cup {Without(Struck(r, rows), F) : F \in SUBSET indexes})
  BY DEF deleteTable
<1> DEFINE rows    == ColumnsOf(r.id)
           indexes == {IndexFile[<<t, a>>] : a \in Attrs(t)}
<1>2. indexes \subseteq IndexFiles
  BY DEF IndexFiles, Attrs
<1>3. "Tables" \notin indexes \cup {t} /\ "Columns" \notin indexes \cup {t}
  BY <1>2, NamesAssumption DEF CatalogFiles
<1>4. \A F \in SUBSET (indexes \cup {t}) :
        Without(Struck(r, rows), F) = [files |-> disk.files \ F, tables |-> disk.tables \ {r},
                                    columns |-> disk.columns (-) rows]
  BY <1>3 DEF Without, Struck
<1>5. /\ IsABag(rows)
      /\ DOMAIN rows = {c \in DOMAIN disk.columns : c.id = r.id}
      /\ \A c \in DOMAIN rows : rows[c] = disk.columns[c]
  BY DEF ColumnsOf, Restrict, BagToSet, TypeOK, IsABag
<1>6. \/ disk' = Without(Struck(r, rows), indexes \cup {t}) /\ cut' = cut
      \/ /\ cut' = cut \cup {"deleteTable"}
         /\ \/ \E R \in SomeOf(rows) : disk' = Struck(r, R)
            \/ \E F \in SUBSET indexes : disk' = Without(Struck(r, rows), F)
  BY <1>1 DEF Write
<1> HIDE DEF rows, indexes
<1>7. ASSUME NEW R, IsABag(R), R \sqsubseteq rows, disk'.columns = disk.columns (-) R
      PROVE  Fewer(r.id) /\ (R = rows => \A c \in DOMAIN disk'.columns : c.id # r.id)
  <2>1. IsABag(disk.columns) /\ DOMAIN R \subseteq DOMAIN rows
    BY <1>7 DEF TypeOK, \sqsubseteq
  <2>2. /\ IsABag(disk'.columns) /\ disk'.columns \sqsubseteq disk.columns
        /\ \A c \in DOMAIN disk.columns \ DOMAIN R :
              c \in DOMAIN disk'.columns /\ disk'.columns[c] = disk.columns[c]
        /\ \A c \in DOMAIN R : c \in DOMAIN disk.columns /\ disk.columns[c] <= R[c]
                              => c \notin DOMAIN disk'.columns
    BY <1>7, <2>1, SubtractFromBag
  <2>3. DOMAIN disk'.columns \subseteq DOMAIN disk.columns
    BY <2>2 DEF \sqsubseteq
  <2>4. Fewer(r.id)
    BY <1>5, <2>1, <2>2, <2>3 DEF Fewer
  <2>5. ASSUME R = rows
        PROVE  \A c \in DOMAIN disk'.columns : c.id # r.id
    <3>1. \A c \in DOMAIN disk.columns : disk.columns[c] \in Nat
      BY <2>1 DEF IsABag
    <3> QED
      BY <1>5, <2>2, <2>3, <2>5, <3>1
  <2> QED
    BY <2>4, <2>5
<1>8. rows \sqsubseteq rows
  BY <1>5 DEF \sqsubseteq, IsABag
<1>9. ASSUME NEW F \in SUBSET (indexes \cup {t}), disk' = Without(Struck(r, rows), F)
      PROVE  /\ Record(disk')
             /\ disk'.files = disk.files \ F
             /\ disk'.tables = disk.tables \ {r}
             /\ Fewer(r.id)
             /\ \A c \in DOMAIN disk'.columns : c.id # r.id
  <2>1. /\ Record(disk')
        /\ disk'.files = disk.files \ F
        /\ disk'.tables = disk.tables \ {r}
        /\ disk'.columns = disk.columns (-) rows
    BY <1>4, <1>9 DEF Record
  <2> QED
    BY <1>5, <1>7, <1>8, <2>1
<1>10. ASSUME NEW R \in SomeOf(rows), disk' = Struck(r, R)
       PROVE  /\ Record(disk')
              /\ disk'.files = disk.files \ {}
              /\ disk'.tables = disk.tables \ {r}
              /\ Fewer(r.id)
  <2>1. /\ Record(disk')
        /\ disk'.files = disk.files \ {}
        /\ disk'.tables = disk.tables \ {r}
        /\ disk'.columns = disk.columns (-) R
    BY <1>10 DEF Record, Struck
  <2>2. IsABag(R) /\ R \sqsubseteq rows
    BY <1>5, PartIsBag
  <2> QED
    BY <1>7, <2>1, <2>2
<1>11. CASE disk' = Without(Struck(r, rows), indexes \cup {t}) /\ cut' = cut
  <2>1. indexes \cup {t} \in SUBSET ({t} \cup IndexFiles)
    BY <1>2
  <2> QED
    BY <1>9, <1>11, <2>1 DEF indexes
<1>12. CASE /\ cut' = cut \cup {"deleteTable"}
            /\ \E R \in SomeOf(rows) : disk' = Struck(r, R)
  <2>1. /\ Record(disk')
        /\ disk'.files = disk.files \ {}
        /\ disk'.tables = disk.tables \ {r}
        /\ Fewer(r.id)
    BY <1>10, <1>12
  <2>2. {} \in SUBSET ({t} \cup IndexFiles) /\ {} \subseteq IndexFiles
    OBVIOUS
  <2> QED
    BY <1>12, <2>1, <2>2
<1>13. CASE /\ cut' = cut \cup {"deleteTable"}
            /\ \E F \in SUBSET indexes : disk' = Without(Struck(r, rows), F)
  BY <1>2, <1>9, <1>13
<1> QED
  BY <1>6, <1>11, <1>12, <1>13

\* The rows under the other numbers are as they were.
LEMMA RowsKept ==
  ASSUME NEW id, Fewer(id)
  PROVE  \A other : other # id => SameRows(other)
  BY DEF Fewer, SameRows

LEMMA IndexesLeave ==
  ASSUME TypeOK, NEW t \in TableNames, NEW a \in AttrNames,
         createIndex(t, a) \/ createIndexCut(t, a) \/ destroyIndex(t, a)
  PROVE  /\ Record(disk')
         /\ IndexFile[<<t, a>>] \in IndexFiles
         /\ disk'.tables = disk.tables /\ disk'.columns = disk.columns
         /\ cut' \in {cut, cut \cup {"createIndex"}}
         /\ createIndexCut(t, a) => "createIndex" \in cut'
         /\ destroyIndex(t, a) => disk'.files = disk.files \ {IndexFile[<<t, a>>]}
         /\ \/ /\ disk'.files = disk.files \cup {IndexFile[<<t, a>>]}
               /\ HasCatalog /\ a \in Attrs(t)
            \/ disk'.files = disk.files \ {IndexFile[<<t, a>>]}
<1>1. IndexFile[<<t, a>>] \in IndexFiles
  BY DEF IndexFiles
<1>2. IndexFile[<<t, a>>] # "Tables" /\ IndexFile[<<t, a>>] # "Columns"
  BY <1>1, NamesAssumption DEF CatalogFiles
<1> QED
  BY <1>1, <1>2 DEF createIndex, createIndexCut, destroyIndex, Created, Without, Record

\* The calls of Next, one by one.
LEMMA NextCases ==
  ASSUME Next
  PROVE  \/ createCatalog
         \/ deleteCatalog /\ IndexFiles \cap disk.files = {}
         \/ \E t \in TableNames, attrs \in SUBSET AttrNames : createTable(t, attrs)
         \/ \E t \in TableNames : deleteTable(t)
         \/ \E t \in TableNames, a \in AttrNames :
              createIndex(t, a) \/ createIndexCut(t, a) \/ destroyIndex(t, a)
  BY DEF Next, CatalogCalls

-----------------------------------------------------------------------------
(* The invariants, one after the other. *)

LEMMA TypeStep ==
  ASSUME TypeOK, Next
  PROVE  TypeOK'
<1> USE DEF TypeOK, Record, Calls
<1>1. CASE createCatalog
  <2>1. CatalogRows \subseteq TableRow
    BY DEF CatalogRows, TableRow, CatalogFiles
  <2> QED
    BY <1>1, <2>1, CreateCatalogLeaves DEF FileNames, CatalogFiles
<1>2. CASE deleteCatalog
  <2>1. PICK F : disk' = Without(disk, F) /\ cut' \in {cut, cut \cup {"deleteCatalog"}}
    BY <1>2, DeleteCatalogLeaves
  <2>2. IsABag(EmptyBag) /\ BagToSet(EmptyBag) = {}
    BY DEF IsABag, EmptyBag, SetToBag, BagToSet
  <2> QED
    BY <2>1, <2>2 DEF Without
<1>3. ASSUME NEW t \in TableNames, NEW attrs \in SUBSET AttrNames, createTable(t, attrs)
      PROVE  TypeOK'
  <2>1. /\ Record(disk') /\ disk'.files \subseteq FileNames /\ cut' \subseteq Calls
        /\ disk'.tables \subseteq TableRow
    BY <1>3, CreateTableLeaves DEF FileNames, TableRow
  <2>2. IsABag(disk'.columns) /\ BagToSet(disk'.columns) \subseteq ColumnRow
    BY <1>3, CreateTableLeaves, RowsAdded DEF BagToSet
  <2> QED
    BY <2>1, <2>2
<1>4. ASSUME NEW t \in TableNames, deleteTable(t)
      PROVE  TypeOK'
  BY <1>4, DeleteTableLeaves DEF Fewer, BagToSet
<1>5. ASSUME NEW t \in TableNames, NEW a \in AttrNames,
             createIndex(t, a) \/ createIndexCut(t, a) \/ destroyIndex(t, a)
      PROVE  TypeOK'
  <2>1. /\ disk' = [files |-> disk'.files, tables |-> disk.tables, columns |-> disk.columns]
        /\ disk'.files \subseteq disk.files \cup IndexFiles
        /\ cut' \in {cut, cut \cup {"createIndex"}}
    BY <1>5, IndexesLeave
  <2> QED
    BY <2>1 DEF FileNames
<1> QED
  BY <1>1, <1>2, <1>3, <1>4, <1>5, NextCases

LEMMA RowsUniqueStep ==
  ASSUME TypeOK, RowsUnique, Next
  PROVE  RowsUnique'
<1> USE DEF RowsUnique
<1>1. CASE createCatalog
  BY <1>1, CreateCatalogLeaves DEF CatalogRows
<1>2. CASE deleteCatalog
  BY <1>2, DeleteCatalogLeaves DEF Without
<1>3. ASSUME NEW t \in TableNames, NEW attrs \in SUBSET AttrNames, createTable(t, attrs)
      PROVE  RowsUnique'
  <2>1. CASE disk'.tables = disk.tables
    BY <2>1
  <2>2. ASSUME NEW id \in Nat, \A r \in disk.tables : r.id < id,
               disk'.tables = disk.tables \cup {[id |-> id, name |-> t]}
        PROVE  RowsUnique'
    <3>1. \A r \in disk.tables : r.id # id /\ r.name # t
      BY <1>3, <2>2, CreateTableLeaves DEF Listed, RowsOf, TypeOK, TableRow
    <3> QED
      BY <2>2, <3>1
  <2> QED
    BY <1>3, <2>1, <2>2, CreateTableLeaves
<1>4. ASSUME NEW t \in TableNames, deleteTable(t)
      PROVE  RowsUnique'
  BY <1>4, DeleteTableLeaves
<1>5. ASSUME NEW t \in TableNames, NEW a \in AttrNames,
             createIndex(t, a) \/ createIndexCut(t, a) \/ destroyIndex(t, a)
      PROVE  RowsUnique'
  BY <1>5, IndexesLeave
<1> QED
  BY <1>1, <1>2, <1>3, <1>4, <1>5, NextCases

LEMMA NoFileNoRowsStep ==
  ASSUME TypeOK, NoFileNoRows, Next
  PROVE  NoFileNoRows'
<1> USE NamesAssumption DEF NoFileNoRows, CatalogFiles
<1>1. CASE createCatalog
  BY <1>1, CreateCatalogLeaves
<1>2. CASE deleteCatalog
  BY <1>2, DeleteCatalogLeaves DEF Without
<1>3. ASSUME NEW t \in TableNames, NEW attrs \in SUBSET AttrNames, createTable(t, attrs)
      PROVE  NoFileNoRows'
  BY <1>3, CreateTableLeaves DEF HasCatalog
<1>4. ASSUME NEW t \in TableNames, deleteTable(t)
      PROVE  NoFileNoRows'
  BY <1>4, DeleteTableLeaves
<1>5. ASSUME NEW t \in TableNames, NEW a \in AttrNames,
             createIndex(t, a) \/ createIndexCut(t, a) \/ destroyIndex(t, a)
      PROVE  NoFileNoRows'
  BY <1>5, IndexesLeave
<1> QED
  BY <1>1, <1>2, <1>3, <1>4, <1>5, NextCases

LEMMA CatalogDeletableStep ==
  ASSUME TypeOK, CatalogDeletable, Next
  PROVE  CatalogDeletable'
<1> USE NamesAssumption DEF CatalogDeletable, CatalogFiles
<1>1. CASE createCatalog
  BY <1>1, CreateCatalogLeaves
<1>2. CASE deleteCatalog
  BY <1>2, DeleteCatalogLeaves DEF Without
<1>3. ASSUME NEW t \in TableNames, NEW attrs \in SUBSET AttrNames, createTable(t, attrs)
      PROVE  CatalogDeletable'
  BY <1>3, CreateTableLeaves
<1>4. ASSUME NEW t \in TableNames, deleteTable(t)
      PROVE  CatalogDeletable'
  BY <1>4, DeleteTableLeaves
<1>5. ASSUME NEW t \in TableNames, NEW a \in AttrNames,
             createIndex(t, a) \/ createIndexCut(t, a) \/ destroyIndex(t, a)
      PROVE  CatalogDeletable'
  BY <1>5, IndexesLeave
<1> QED
  BY <1>1, <1>2, <1>3, <1>4, <1>5, NextCases

LEMMA TablesFirstStep ==
  ASSUME TypeOK, NoFileNoRows, TablesFirst, Next
  PROVE  TablesFirst'
<1> USE DEF TablesFirst, Listed, RowsOf
<1>1. CASE createCatalog
  <2>1. disk.tables = {}
    BY <1>1, CreateCatalogLeaves DEF NoFileNoRows
  <2>2. \/ disk'.tables = {}
        \/ disk'.tables = {[id |-> 1, name |-> "Tables"]}
        \/ disk'.tables = CatalogRows
    BY <1>1, <2>1 DEF createCatalog, Write, Created
  <2>3. CASE disk'.tables = {}
    BY <2>3
  <2>4. CASE disk'.tables # {}
    <3>1. [id |-> 1, name |-> "Tables"] \in disk'.tables
      BY <2>2, <2>4 DEF CatalogRows
    <3> QED
      BY <3>1
  <2> QED
    BY <2>3, <2>4
<1>2. CASE deleteCatalog
  BY <1>2, DeleteCatalogLeaves DEF Without
<1>3. ASSUME NEW t \in TableNames, NEW attrs \in SUBSET AttrNames, createTable(t, attrs)
      PROVE  TablesFirst'
  BY <1>3, CreateTableLeaves, NamesAssumption DEF CatalogFiles
<1>4. ASSUME NEW t \in TableNames, deleteTable(t)
      PROVE  TablesFirst'
  BY <1>4, DeleteTableLeaves, NamesAssumption DEF CatalogFiles
<1>5. ASSUME NEW t \in TableNames, NEW a \in AttrNames,
             createIndex(t, a) \/ createIndexCut(t, a) \/ destroyIndex(t, a)
      PROVE  TablesFirst'
  BY <1>5, IndexesLeave
<1> QED
  BY <1>1, <1>2, <1>3, <1>4, <1>5, NextCases

LEMMA CatalogSoundStep ==
  ASSUME DistinctFiles, TypeOK, CatalogSound, Next
  PROVE  CatalogSound'
<1> DEFINE HaveFiles == Listed("Tables") => \A r \in disk.tables : r.name \in disk.files
<1>1. RowsUnique /\ HaveFiles
  BY DEF CatalogSound
<1>2. RowsUnique'
  BY <1>1, RowsUniqueStep
<1> SUFFICES HaveFiles'
  BY <1>2 DEF CatalogSound
<1>3. \A r \in disk.tables : r.name \in TableNames \cup CatalogFiles /\ r.name \notin IndexFiles
  BY NamesAssumption DEF TypeOK, TableRow, DistinctFiles
<1> USE DEF Listed, RowsOf
<1>4. CASE createCatalog
  BY <1>1, <1>4, CreateCatalogLeaves DEF CatalogRows, CatalogFiles
<1>5. CASE deleteCatalog
  <2>1. PICK F : /\ disk' = Without(disk, F)
                 /\ Listed("Tables") /\ F # {} => "Tables" \in F
    BY <1>5, DeleteCatalogLeaves
  <2>2. CASE "Tables" \in F
    BY <2>1, <2>2 DEF Without
  <2>3. CASE "Tables" \notin F
    BY <1>1, <2>1, <2>3 DEF Without
  <2> QED
    BY <2>2, <2>3
<1>6. ASSUME NEW t \in TableNames, NEW attrs \in SUBSET AttrNames, createTable(t, attrs)
      PROVE  HaveFiles'
  BY <1>1, <1>6, CreateTableLeaves, NamesAssumption DEF CatalogFiles
<1>7. ASSUME NEW t \in TableNames, deleteTable(t)
      PROVE  HaveFiles'
  <2>1. PICK r \in RowsOf(t), F \in SUBSET ({t} \cup IndexFiles) :
          disk'.files = disk.files \ F /\ disk'.tables = disk.tables \ {r}
    BY <1>7, DeleteTableLeaves
  <2>2. \A s \in disk'.tables : s.name # t
    BY <1>1, <2>1 DEF RowsUnique
  <2> QED
    BY <1>1, <1>3, <2>1, <2>2
<1>8. ASSUME NEW t \in TableNames, NEW a \in AttrNames,
             createIndex(t, a) \/ createIndexCut(t, a) \/ destroyIndex(t, a)
      PROVE  HaveFiles'
  <2>1. disk'.tables = disk.tables /\ disk.files \ IndexFiles \subseteq disk'.files
    BY <1>8, IndexesLeave
  <2> QED
    BY <1>1, <1>3, <2>1
<1> QED
  BY <1>4, <1>5, <1>6, <1>7, <1>8, NextCases

LEMMA NothingStrayStep ==
  ASSUME DistinctFiles, TypeOK, NoFileNoRows, RowsUnique, NothingStray, Next
  PROVE  NothingStray'
<1> DEFINE Uncut    == cut \cap {"deleteTable", "deleteCatalog"} = {}
           Columned == \A c \in DOMAIN disk.columns :
                         disk.columns[c] = 1 /\ \E r \in disk.tables : r.id = c.id
           Rooted   == \A f \in IndexFiles \cap disk.files :
                         \E t \in TableNames : \E a \in Attrs(t) : f = IndexFile[<<t, a>>]
<1>1. /\ Uncut' => Uncut
      /\ Uncut => Columned /\ Rooted
      /\ (Uncut' => Columned' /\ Rooted') => NothingStray'
  <2>1. cut \subseteq cut'
    <3>1. CASE createCatalog
      BY <3>1, CreateCatalogLeaves
    <3>2. CASE deleteCatalog
      BY <3>2, DeleteCatalogLeaves
    <3>3. ASSUME NEW t \in TableNames, NEW attrs \in SUBSET AttrNames, createTable(t, attrs)
          PROVE  cut \subseteq cut'
      BY <3>3, CreateTableLeaves
    <3>4. ASSUME NEW t \in TableNames, deleteTable(t)
          PROVE  cut \subseteq cut'
      BY <3>4, DeleteTableLeaves
    <3>5. ASSUME NEW t \in TableNames, NEW a \in AttrNames,
                 createIndex(t, a) \/ createIndexCut(t, a) \/ destroyIndex(t, a)
          PROVE  cut \subseteq cut'
      BY <3>5, IndexesLeave
    <3> QED
      BY <3>1, <3>2, <3>3, <3>4, <3>5, NextCases
  <2> QED
    BY <2>1 DEF NothingStray, BagToSet
<1> SUFFICES ASSUME Uncut'
             PROVE  Columned' /\ Rooted'
  BY <1>1
<1>2. Columned /\ Rooted
  BY <1>1
<1> HIDE DEF Columned, Rooted
<1>3. CASE createCatalog
  <2>1. disk.tables = {} /\ DOMAIN disk.columns = {} /\ IndexFiles \cap disk.files = {}
    BY <1>2, <1>3, CreateCatalogLeaves DEF NoFileNoRows, Columned, Rooted, Attrs, RowsOf
  <2>2. DOMAIN disk'.columns = {} /\ IndexFiles \cap disk'.files = {}
    BY <1>3, <2>1, CreateCatalogLeaves, NamesAssumption DEF CatalogFiles
  <2> QED
    BY <2>2 DEF Columned, Rooted
<1>4. CASE deleteCatalog /\ IndexFiles \cap disk.files = {}
  <2>1. PICK F : disk' = Without(disk, F) /\ CatalogFiles \subseteq F
    BY <1>4, DeleteCatalogLeaves
  <2>2. DOMAIN disk'.columns = {} /\ IndexFiles \cap disk'.files = {}
    BY <1>4, <2>1 DEF Without, CatalogFiles, EmptyBag, SetToBag
  <2> QED
    BY <2>2 DEF Columned, Rooted
<1>5. ASSUME NEW t \in TableNames, NEW attrs \in SUBSET AttrNames, createTable(t, attrs)
      PROVE  Columned' /\ Rooted'
  <2>1. /\ disk.tables \subseteq disk'.tables
        /\ IndexFiles \cap disk'.files = IndexFiles \cap disk.files
    BY <1>5, CreateTableLeaves DEF DistinctFiles
  <2>2. DOMAIN disk.columns \subseteq DOMAIN disk'.columns
    BY <1>5, CreateTableLeaves, RowsAdded
  <2>3. \A u \in TableNames : Attrs(u) \subseteq Attrs(u)'
    BY <2>1, <2>2 DEF Attrs, RowsOf, BagIn, BagToSet
  <2>4. Columned'
    <3>1. CASE disk'.columns = disk.columns
      BY <1>2, <2>1, <3>1 DEF Columned
    <3>2. ASSUME NEW id \in Nat, NEW as \in SUBSET AttrNames,
                 \A r \in disk.tables : r.id < id,
                 disk'.tables = disk.tables \cup {[id |-> id, name |-> t]},
                 disk'.columns = disk.columns (+) SetToBag(Rows(id, as))
          PROVE  Columned'
      <4> DEFINE row == [id |-> id, name |-> t]
      <4>1. row \in disk'.tables /\ row.id = id
        BY <3>2
      <4>2. \A r \in disk.tables : r.id \in Nat /\ r.id < id
        BY <3>2 DEF TypeOK, TableRow
      <4>3. \A c \in DOMAIN disk.columns : c.id # id
        BY <1>2, <4>2 DEF Columned
      <4>4. /\ DOMAIN disk'.columns = DOMAIN disk.columns \cup Rows(id, as)
            /\ \A c \in Rows(id, as) : c.id = id
            /\ \A c \in DOMAIN disk.columns \ Rows(id, as) : disk'.columns[c] = disk.columns[c]
            /\ \A c \in Rows(id, as) \ DOMAIN disk.columns : disk'.columns[c] = 1
        BY <3>2, RowsAdded
      <4> HIDE DEF row
      <4> QED
        BY <1>2, <2>1, <4>1, <4>3, <4>4 DEF Columned
    <3> QED
      BY <1>5, <3>1, <3>2, CreateTableLeaves
  <2> QED
    BY <1>2, <2>1, <2>3, <2>4 DEF Rooted
<1>6. ASSUME NEW t \in TableNames, deleteTable(t)
      PROVE  Columned' /\ Rooted'
  <2>1. PICK r \in RowsOf(t) :
          /\ disk'.files = disk.files \ ({IndexFile[<<t, a>>] : a \in Attrs(t)} \cup {t})
          /\ disk'.tables = disk.tables \ {r}
          /\ Fewer(r.id)
          /\ \A c \in DOMAIN disk'.columns : c.id # r.id
    <3>1. cut' # cut \cup {"deleteTable"}
      OBVIOUS
    <3> QED
      BY <1>6, <3>1, DeleteTableLeaves
  <2>2. Columned'
    BY <1>2, <2>1 DEF Columned, Fewer
  <2>3. ASSUME NEW u \in TableNames \ {t}
        PROVE  Attrs(u)' = Attrs(u)
    <3>1. RowsOf(u)' = RowsOf(u) /\ \A s \in RowsOf(u) : s.id # r.id
      BY <2>1, <2>3 DEF RowsOf, RowsUnique
    <3> QED
      BY <2>1, <3>1, RowsKept, AttrsKeep
  <2>4. Rooted'
    BY <1>2, <2>1, <2>3 DEF Rooted
  <2> QED
    BY <2>2, <2>4
<1>7. ASSUME NEW t \in TableNames, NEW a \in AttrNames,
             createIndex(t, a) \/ createIndexCut(t, a) \/ destroyIndex(t, a)
      PROVE  Columned' /\ Rooted'
  <2>1. \A u \in TableNames : Attrs(u)' = Attrs(u)
    BY <1>7, IndexesLeave DEF Attrs, RowsOf
  <2> QED
    <3>1. Columned'
      BY <1>2, <1>7, IndexesLeave DEF Columned
    <3>2. \A f \in (IndexFiles \cap disk'.files) \ disk.files : a \in Attrs(t) /\ f = IndexFile[<<t, a>>]
      BY <1>7, IndexesLeave
    <3>3. Rooted'
      BY <1>2, <2>1, <3>2 DEF Rooted
    <3> QED
      BY <3>1, <3>3
<1> QED
  BY <1>3, <1>4, <1>5, <1>6, <1>7, NextCases

-----------------------------------------------------------------------------
(* The catalog stays sound. *)

\* An unchanged catalog keeps what holds of it.
LEMMA Stutter ==
  ASSUME UNCHANGED vars
  PROVE  /\ TypeOK <=> TypeOK'
         /\ CatalogSound <=> CatalogSound'
         /\ CatalogInv <=> CatalogInv'
  BY DEF vars, TypeOK, CatalogSound, CatalogInv, RowsUnique, NoFileNoRows, NothingStray,
         CatalogDeletable, HasCatalog, Attrs, Listed, RowsOf

LEMMA InitHolds ==
  ASSUME Init
  PROVE  TypeOK /\ CatalogInv
<1>1. IsABag(EmptyBag) /\ BagToSet(EmptyBag) = {}
  BY DEF IsABag, EmptyBag, SetToBag, BagToSet
<1>2. TypeOK
  BY <1>1 DEF Init, TypeOK
<1>3. NoFileNoRows /\ RowsUnique /\ NothingStray /\ CatalogDeletable
  BY <1>1 DEF Init, NoFileNoRows, RowsUnique, NothingStray, CatalogDeletable
<1> QED
  BY <1>2, <1>3 DEF CatalogInv

\* The rows of the catalog are well formed, whatever calls were cut short.
THEOREM CatalogTypeCorrect == Spec => []TypeOK
<1>1. Init => TypeOK
  BY InitHolds
<1>2. TypeOK /\ [Next]_vars => TypeOK'
  BY TypeStep, Stutter
<1> QED
  BY <1>1, <1>2, PTL DEF Spec

\* Ids and names stay unique, and a catalog that lists itself lists no table without
\* a file, provided that tables and indexes have distinct file names.
THEOREM ListedTablesHaveFiles ==
  ASSUME DistinctFiles
  PROVE  Spec => []CatalogSound
<1>1. Init => TypeOK /\ CatalogSound
  BY InitHolds DEF Init, CatalogSound, RowsUnique, Listed, RowsOf
<1>2. TypeOK /\ CatalogSound /\ [Next]_vars => TypeOK' /\ CatalogSound'
  BY TypeStep, CatalogSoundStep, Stutter
<1> QED
  BY <1>1, <1>2, PTL DEF Spec

LEMMA CatalogInvariant ==
  ASSUME DistinctFiles
  PROVE  Spec => []CatalogInv
<1>1. Init => CatalogInv
  BY InitHolds
<1>2. CatalogInv /\ [Next]_vars => CatalogInv'
  <2>1. ASSUME CatalogInv, Next
        PROVE  CatalogInv'
    BY <2>1, TypeStep, NoFileNoRowsStep, RowsUniqueStep, NothingStrayStep,
       CatalogDeletableStep DEF CatalogInv
  <2> QED
    BY <2>1, Stutter
<1> QED
  BY <1>1, <1>2, PTL DEF Spec

\* While no deletion has been cut short, the catalog describes only tables that are
\* listed, and every index file belongs to one of them.
THEOREM NothingIsStray ==
  ASSUME DistinctFiles
  PROVE  Spec => []NothingStray
<1>1. CatalogInv => NothingStray
  BY DEF CatalogInv
<1> QED
  BY <1>1, CatalogInvariant, PTL

\* What a crash in any other call leaves of a catalog, deleteCatalog can remove.
THEOREM CatalogStaysDeletable ==
  ASSUME DistinctFiles
  PROVE  Spec => []CatalogDeletable
<1>1. CatalogInv => CatalogDeletable
  BY DEF CatalogInv
<1> QED
  BY <1>1, CatalogInvariant, PTL

-----------------------------------------------------------------------------
(* The catalog of the relation manager. *)

\* Calls on tuples leave the catalog alone, all others are calls of the catalog, also
\* for clients that create indexes over moved tuples.
THEOREM RelationKeepsCatalog == RSpec => Spec
<1>1. RInit => Init
  BY DEF RInit
<1>2. [RNext]_rvars => [Next]_vars
  <2> SUFFICES ASSUME [RNext]_rvars
               PROVE  [Next]_vars
    OBVIOUS
  <2>1. CASE CatalogCalls /\ KeepFiles
    BY <2>1 DEF Next
  <2>2. CASE TupleCalls
    <3>1. PICK t \in TableNames, rid \in Rids :
            \/ deleteTuple(t, rid)
            \/ withdrawCut(t, rid)
            \/ \E tuple \in Tuples(Attrs(t)) :
                 \/ insertTuple(t, rid, tuple)
                 \/ insertTupleCut(t, rid, tuple)
                 \/ \E at \in Rids : \/ updateTuple(t, rid, tuple, at)
                                    \/ updateTupleCut(t, rid, tuple, at)
      BY <2>2 DEF TupleCalls
    <3> QED
      BY <3>1 DEF deleteTuple, withdrawCut, insertTuple, insertTupleCut, Insert,
                  updateTuple, updateTupleCut, Update
  <2>3. CASE \E t \in TableNames, a \in AttrNames : createIndex(t, a) /\ fillIndex(t, a)
    BY <2>3 DEF Next
  <2>4. CASE UNCHANGED rvars
    BY <2>4 DEF rvars, vars
  <2> QED
    BY <2>1, <2>2, <2>3, <2>4 DEF RNext
<1> QED
  BY <1>1, <1>2, PTL DEF RSpec, Spec

\* The careful client is one of the clients.
THEOREM CarefulClientIsClient == CarefulSpec => RSpec
<1>1. [CarefulNext]_rvars => [RNext]_rvars
  BY DEF CarefulNext, RNext
<1> QED
  BY <1>1, PTL DEF CarefulSpec, RSpec

\* The relation manager's catalog: whatever calls are made and cut short, ids and names
\* are unique, every listed table has its file, nothing is left behind by deletions that
\* were completed, and a catalog that is there can be deleted.
THEOREM RelationCatalog ==
  ASSUME DistinctFiles
  PROVE  RSpec => [](CatalogSound /\ NothingStray /\ CatalogDeletable)
<1>1. Spec => []CatalogSound
  BY ListedTablesHaveFiles
<1>2. Spec => []NothingStray
  BY NothingIsStray
<1>3. Spec => []CatalogDeletable
  BY CatalogStaysDeletable
<1> QED
  BY <1>1, <1>2, <1>3, RelationKeepsCatalog, PTL

-----------------------------------------------------------------------------
(* Record files. *)

IsMap(f, S) == DOMAIN f \subseteq S /\ f = [x \in DOMAIN f |-> f[x]]

\* No two tombstones lead to the same record, and each leads to one.
IsHeap(h) ==
  /\ h = [records |-> h.records, tombstones |-> h.tombstones]
  /\ IsMap(h.records, Rids)
  /\ IsMap(h.tombstones, Rids)
  /\ DOMAIN h.records \cap Moved(h) = {}
  /\ \A p \in Moved(h) : h.tombstones[p] \in DOMAIN h.records
  /\ \A p, q \in Moved(h) : h.tombstones[p] = h.tombstones[q] => p = q

\* What a client sees of a record file: the records under the RIDs it was given.
Seen(h) == [rid \in Home(h) |-> Read(h, rid)]

LEMMA EmptyIsHeap == IsHeap(Empty) /\ Seen(Empty) = << >> /\ Home(Empty) = {}
<1>1. DOMAIN Empty.records = {} /\ DOMAIN Empty.tombstones = {}
  BY DEF Empty
<1>2. IsHeap(Empty)
  BY <1>1 DEF IsHeap, IsMap, Moved, Empty
<1>3. Home(Empty) = {}
  BY <1>1 DEF Home, Used
<1> QED
  BY <1>2, <1>3 DEF Seen

\* The record of a client lies where its RID leads.
LEMMA HomeLeads ==
  ASSUME NEW h, IsHeap(h), NEW rid \in Home(h)
  PROVE  rid \in Rids /\ Target(h, rid) \in DOMAIN h.records
  BY DEF IsHeap, IsMap, Home, Used, Moved, Target, Range

LEMMA InsertedSeen ==
  ASSUME NEW h, IsHeap(h), NEW rid \in Rids \ Used(h), NEW tuple
  PROVE  /\ IsHeap(Inserted(h, rid, tuple))
         /\ Seen(Inserted(h, rid, tuple)) = With(Seen(h), rid, tuple)
<1> DEFINE i == Inserted(h, rid, tuple)
<1>1. /\ i = [records |-> i.records, tombstones |-> h.tombstones]
      /\ DOMAIN i.records = DOMAIN h.records \cup {rid}
      /\ i.records[rid] = tuple
      /\ \A p \in DOMAIN h.records \ {rid} : i.records[p] = h.records[p]
      /\ i.records = [x \in DOMAIN i.records |-> i.records[x]]
  BY DEF Inserted, With, IsHeap
<1>2. rid \notin DOMAIN h.records /\ rid \notin DOMAIN h.tombstones
  BY DEF Used
<1> HIDE DEF i
<1>3. IsHeap(i)
  BY <1>1, <1>2 DEF IsHeap, IsMap, Moved
<1>4. Home(i) = Home(h) \cup {rid} /\ rid \notin Home(h)
  BY <1>1, <1>2 DEF Home, Used, Range, IsHeap, Moved
<1>5. \A p \in Home(h) : Read(i, p) = Read(h, p)
  BY <1>1, <1>2, HomeLeads DEF Read, Target
<1>6. Read(i, rid) = tuple
  BY <1>1, <1>2 DEF Read, Target
<1> QED
  BY <1>3, <1>4, <1>5, <1>6 DEF Seen, With, i

LEMMA DeletedSeen ==
  ASSUME NEW h, IsHeap(h), NEW rid \in Home(h)
  PROVE  /\ IsHeap(Deleted(h, rid))
         /\ DOMAIN Deleted(h, rid).records \subseteq DOMAIN h.records
         /\ \A p \in DOMAIN Deleted(h, rid).records : Deleted(h, rid).records[p] = h.records[p]
         /\ Seen(Deleted(h, rid)) = Restrict(Seen(h), Home(h) \ {rid})
<1> DEFINE d == Deleted(h, rid)
<1>1. /\ d = [records |-> d.records, tombstones |-> d.tombstones]
      /\ DOMAIN d.records = DOMAIN h.records \ {Target(h, rid)}
      /\ \A p \in DOMAIN d.records : d.records[p] = h.records[p]
      /\ d.records = [x \in DOMAIN d.records |-> d.records[x]]
      /\ DOMAIN d.tombstones = DOMAIN h.tombstones \ {rid}
      /\ \A p \in DOMAIN d.tombstones : d.tombstones[p] = h.tombstones[p]
      /\ d.tombstones = [x \in DOMAIN d.tombstones |-> d.tombstones[x]]
  BY DEF Deleted, Restrict, Moved
<1> HIDE DEF d
<1>2. \A p \in Moved(h) : h.tombstones[p] # rid
  BY DEF Home, Range, Moved
<1>3. \A p \in Moved(h) \ {rid} : h.tombstones[p] # Target(h, rid)
  BY <1>2 DEF IsHeap, Target, Moved
<1>4. IsHeap(d)
  BY <1>1, <1>3 DEF IsHeap, IsMap, Moved
<1>5. Home(d) = Home(h) \ {rid}
  <2>1. Range(d.tombstones) = {h.tombstones[p] : p \in Moved(h) \ {rid}}
    BY <1>1 DEF Range, Moved
  <2>2. Range(h.tombstones) = {h.tombstones[p] : p \in Moved(h)}
    BY DEF Range, Moved
  <2>3. CASE rid \in Moved(h)
    <3>1. Target(h, rid) = h.tombstones[rid]
      BY <2>3 DEF Target, Moved
    <3>2. Target(h, rid) \in DOMAIN h.records \ Moved(h) /\ rid \notin DOMAIN h.records
      BY <2>3, <3>1 DEF IsHeap
    <3>3. Range(d.tombstones) = Range(h.tombstones) \ {Target(h, rid)}
      BY <1>3, <2>1, <2>2, <2>3, <3>1
    <3>4. Target(h, rid) \in Range(h.tombstones)
      BY <2>2, <2>3, <3>1
    <3> QED
      BY <1>1, <3>2, <3>3, <3>4 DEF Home, Used, Moved
  <2>4. CASE rid \notin Moved(h)
    <3>1. Target(h, rid) = rid
      BY <2>4 DEF Target, Moved
    <3> QED
      BY <1>1, <1>2, <2>1, <2>2, <2>4, <3>1 DEF Home, Used, Moved
  <2> QED
    BY <2>3, <2>4
<1>6. \A p \in Home(h) \ {rid} : Read(d, p) = Read(h, p)
  <2> TAKE p \in Home(h) \ {rid}
  <2>1. Target(d, p) = Target(h, p)
    BY <1>1 DEF Target
  <2>2. Target(h, p) # Target(h, rid)
    BY <1>2, <1>3, HomeLeads DEF Target, Home, Range, Moved
  <2> QED
    BY <1>1, <2>1, <2>2, HomeLeads DEF Read
<1> QED
  BY <1>1, <1>4, <1>5, <1>6 DEF Seen, Restrict, d

LEMMA UpdatedSeen ==
  ASSUME NEW h, IsHeap(h), NEW rid \in Home(h) \ Moved(h), NEW tuple, NEW at,
         at = rid \/ at \in Rids \ Used(h)
  PROVE  /\ IsHeap(Updated(h, rid, tuple, at))
         /\ \A p \in DOMAIN Updated(h, rid, tuple, at).records :
              Updated(h, rid, tuple, at).records[p] \in {tuple} \cup Range(h.records)
         /\ Seen(Updated(h, rid, tuple, at)) = With(Restrict(Seen(h), Home(h) \ {rid}), rid, tuple)
<1> DEFINE u == Updated(h, rid, tuple, at)
<1>1. rid \in DOMAIN h.records /\ rid \notin Moved(h) /\ rid \in Rids
  BY DEF Home, Used, Moved, IsHeap, IsMap
<1>2. \A p \in Moved(h) : h.tombstones[p] # rid
  BY DEF Home, Range, Moved
<1>3. CASE at = rid
  <2>1. /\ u = [records |-> u.records, tombstones |-> h.tombstones]
        /\ u.records = [h.records EXCEPT ![rid] = tuple]
    BY <1>3 DEF Updated, IsHeap
  <2>2. /\ DOMAIN u.records = DOMAIN h.records
        /\ u.records[rid] = tuple
        /\ \A p \in DOMAIN u.records \ {rid} : u.records[p] = h.records[p]
        /\ u.records = [x \in DOMAIN u.records |-> u.records[x]]
    BY <1>1, <2>1 DEF IsHeap, IsMap
  <2> HIDE DEF u
  <2>3. IsHeap(u)
    BY <2>1, <2>2 DEF IsHeap, IsMap, Moved
  <2>4. Home(u) = Home(h)
    BY <2>1, <2>2 DEF Home, Used
  <2>5. \A p \in Home(h) \ {rid} : Read(u, p) = Read(h, p)
    BY <1>2, <2>1, <2>2, HomeLeads DEF Read, Target, Moved
  <2>6. Read(u, rid) = tuple
    BY <1>1, <2>1, <2>2 DEF Read, Target, Moved
  <2>7. \A p \in DOMAIN u.records : u.records[p] \in {tuple} \cup Range(h.records)
    BY <2>2 DEF Range
  <2> QED
    BY <2>3, <2>4, <2>5, <2>6, <2>7 DEF Seen, With, Restrict, u
<1>4. CASE at # rid
  <2>1. /\ u = [records |-> u.records, tombstones |-> u.tombstones]
        /\ u.records = With(Restrict(h.records, DOMAIN h.records \ {rid}), at, tuple)
        /\ u.tombstones = With(h.tombstones, rid, at)
    BY <1>4 DEF Updated
  <2>2. at \in Rids /\ at \notin DOMAIN h.records /\ at \notin Moved(h)
    BY <1>4 DEF Used, Moved
  <2>3. /\ DOMAIN u.records = (DOMAIN h.records \ {rid}) \cup {at}
        /\ u.records[at] = tuple
        /\ \A p \in DOMAIN h.records \ {rid} : u.records[p] = h.records[p]
        /\ u.records = [x \in DOMAIN u.records |-> u.records[x]]
    BY <2>1, <2>2 DEF With, Restrict
  <2>4. /\ DOMAIN u.tombstones = Moved(h) \cup {rid}
        /\ u.tombstones[rid] = at
        /\ \A p \in Moved(h) : u.tombstones[p] = h.tombstones[p]
        /\ u.tombstones = [x \in DOMAIN u.tombstones |-> u.tombstones[x]]
    BY <1>1, <2>1 DEF With, Moved
  <2> HIDE DEF u
  <2>5. IsHeap(u)
    <3>1. \A p \in Moved(h) : h.tombstones[p] \in DOMAIN h.records \ {rid}
      BY <1>2 DEF IsHeap
    <3>2. \A p, q \in Moved(u) : u.tombstones[p] = u.tombstones[q] => p = q
      BY <2>2, <2>4, <3>1 DEF IsHeap, Moved
    <3>3. \A p \in Moved(u) : u.tombstones[p] \in DOMAIN u.records
      BY <2>3, <2>4, <3>1 DEF Moved
    <3>4. DOMAIN u.records \cap Moved(u) = {}
      BY <1>4, <2>2, <2>3, <2>4 DEF IsHeap, Moved
    <3>5. IsMap(u.records, Rids) /\ IsMap(u.tombstones, Rids)
      BY <1>1, <2>2, <2>3, <2>4 DEF IsHeap, IsMap, Moved
    <3> QED
      BY <2>1, <3>2, <3>3, <3>4, <3>5 DEF IsHeap
  <2>6. Home(u) = Home(h)
    <3>1. Range(u.tombstones) = Range(h.tombstones) \cup {at}
      BY <2>4 DEF Range, Moved
    <3>2. at \notin Used(h) /\ Used(u) = Used(h) \cup {at}
      BY <1>1, <2>2, <2>3, <2>4 DEF Used, Moved
    <3> QED
      BY <3>1, <3>2 DEF Home
  <2>7. \A p \in Home(h) \ {rid} : Read(u, p) = Read(h, p)
    <3> TAKE p \in Home(h) \ {rid}
    <3>1. Target(u, p) = Target(h, p)
      BY <2>4 DEF Target, Moved
    <3>2. Target(h, p) # rid
      BY <1>2 DEF Target, Moved
    <3> QED
      BY <2>3, <3>1, <3>2, HomeLeads DEF Read
  <2>8. Read(u, rid) = tuple
    BY <2>3, <2>4 DEF Read, Target, Moved
  <2>9. \A p \in DOMAIN u.records : u.records[p] \in {tuple} \cup Range(h.records)
    BY <2>3 DEF Range
  <2> QED
    BY <2>5, <2>6, <2>7, <2>8, <2>9 DEF Seen, With, Restrict, u
<1> QED
  BY <1>3, <1>4

-----------------------------------------------------------------------------
(* Indexes. *)

\* The entries an index on attribute a owes to the tuples seen, and to one tuple.
Due(seen, a)       == {Entry(seen[rid][a], rid) : rid \in {rid \in DOMAIN seen : seen[rid][a] # NULL}}
Own(tuple, a, rid) == IF tuple[a] # NULL THEN {Entry(tuple[a], rid)} ELSE {}

LEMMA InDue ==
  ASSUME NEW seen, NEW a, NEW e
  PROVE  e \in Due(seen, a) <=> \E rid \in DOMAIN seen : e \in Own(seen[rid], a, rid)
  BY DEF Due, Own

LEMMA OwnDiffer ==
  ASSUME NEW tuple, NEW rid, NEW other, NEW p, NEW a, p # rid
  PROVE  Own(tuple, a, rid) \cap Own(other, a, p) = {}
  BY DEF Own, Entry

LEMMA DueWith ==
  ASSUME NEW seen, NEW rid, rid \notin DOMAIN seen, NEW tuple, NEW a
  PROVE  /\ Due(With(seen, rid, tuple), a) = Due(seen, a) \cup Own(tuple, a, rid)
         /\ Due(seen, a) \cap Own(tuple, a, rid) = {}
<1> DEFINE w == With(seen, rid, tuple)
<1>1. /\ DOMAIN w = DOMAIN seen \cup {rid}
      /\ w[rid] = tuple
      /\ \A p \in DOMAIN seen : w[p] = seen[p]
  BY DEF With
<1> HIDE DEF w
<1>2. \A e : e \in Due(w, a) <=> e \in Due(seen, a) \/ e \in Own(tuple, a, rid)
  BY <1>1, InDue
<1>3. \A e : ~(e \in Due(seen, a) /\ e \in Own(tuple, a, rid))
  BY InDue, OwnDiffer
<1> QED
  BY <1>2, <1>3 DEF w

LEMMA DueWithout ==
  ASSUME NEW seen, NEW rid \in DOMAIN seen, NEW a
  PROVE  Due(Restrict(seen, DOMAIN seen \ {rid}), a) = Due(seen, a) \ Own(seen[rid], a, rid)
<1> DEFINE r == Restrict(seen, DOMAIN seen \ {rid})
<1>1. DOMAIN r = DOMAIN seen \ {rid} /\ \A p \in DOMAIN r : r[p] = seen[p]
  BY DEF Restrict
<1> HIDE DEF r
<1>2. \A e : e \in Due(r, a) <=> e \in Due(seen, a) /\ e \notin Own(seen[rid], a, rid)
  BY <1>1, InDue, OwnDiffer
<1> QED
  BY <1>2 DEF r

IndexEntry == [key : Keys, rid : Rids]

IsIndex(b) == IsABag(b) /\ DOMAIN b \subseteq IndexEntry

\* An index holds entries of D only, and none more than n times.
Fits(b, n, D) == DOMAIN b \subseteq D /\ \A e \in DOMAIN b : b[e] <= n

\* The attributes with an index.
Indexed(t) == {a \in Attrs(t) : IndexFile[<<t, a>>] \in disk.files}

\* A listed attribute is listed once or more often.
LEMMA IndexedAttrs ==
  ASSUME TypeOK, RowsUnique, NEW t
  PROVE  /\ IsABag(indexedAttrs(t)) /\ DOMAIN indexedAttrs(t) = Indexed(t)
         /\ Indexed(t) \subseteq Attrs(t) /\ Attrs(t) \subseteq AttrNames
         /\ \A a \in Indexed(t) : indexedAttrs(t)[a] = Listings(t, a)
         /\ \A a \in Attrs(t) : Listings(t, a) \in Nat /\ Listings(t, a) >= 1
<1>1. ASSUME NEW a \in Attrs(t)
      PROVE  Listings(t, a) \in Nat /\ Listings(t, a) >= 1
  <2> DEFINE r == CHOOSE r \in RowsOf(t) : TRUE
             c == [id |-> r.id, name |-> a]
  <2>1. PICK q \in RowsOf(t) : [id |-> q.id, name |-> a] \in DOMAIN disk.columns
    BY DEF Attrs, BagIn, BagToSet
  <2>2. r = q
    BY DEF RowsOf, RowsUnique
  <2>3. Listings(t, a) = IF c \in DOMAIN disk.columns THEN disk.columns[c] ELSE 0
    BY DEF Listings, Copies, BagIn, BagToSet
  <2> HIDE DEF r
  <2>4. Listings(t, a) = disk.columns[c] /\ c \in DOMAIN disk.columns
    BY <2>1, <2>2, <2>3
  <2>5. disk.columns[c] \in Nat /\ disk.columns[c] > 0
    BY <2>4 DEF TypeOK, IsABag
  <2> QED
    BY <2>4, <2>5
<1>2. indexedAttrs(t) = [a \in Indexed(t) |-> Listings(t, a)]
  BY DEF indexedAttrs, Indexed
<1>3. Indexed(t) \subseteq Attrs(t) /\ Attrs(t) \subseteq AttrNames
  BY DEF Indexed, Attrs
<1> HIDE DEF Indexed
<1>4. IsABag(indexedAttrs(t))
  <2>1. \A a \in Indexed(t) : Listings(t, a) \in {n \in Nat : n > 0}
    BY <1>1, <1>3
  <2> QED
    BY <1>2, <2>1 DEF IsABag
<1> QED
  BY <1>1, <1>2, <1>3, <1>4

\* What a call enters or withdraws of the attributes with an index.
LEMMA PartOfIndexed ==
  ASSUME TypeOK, RowsUnique, NEW t, NEW A, IsABag(A), A \sqsubseteq indexedAttrs(t)
  PROVE  /\ DOMAIN A \subseteq Indexed(t) /\ DOMAIN A \subseteq AttrNames
         /\ \A a \in DOMAIN A : A[a] \in Nat /\ A[a] > 0 /\ A[a] <= Listings(t, a)
BY IndexedAttrs DEF IsABag, \sqsubseteq

LEMMA AllIndexed ==
  ASSUME TypeOK, RowsUnique, NEW t
  PROVE  IsABag(indexedAttrs(t)) /\ indexedAttrs(t) \sqsubseteq indexedAttrs(t)
<1>1. IsABag(indexedAttrs(t))
  BY IndexedAttrs
<1> QED
  BY <1>1 DEF IsABag, \sqsubseteq

LEMMA FileOf ==
  ASSUME NEW f \in IndexFiles
  PROVE  \E t \in TableNames, a \in AttrNames : f = IndexFile[<<t, a>>]
  BY DEF IndexFiles

LEMMA FilesDiffer ==
  ASSUME DistinctFiles, NEW t \in TableNames, NEW a \in AttrNames,
         NEW u \in TableNames, NEW b \in AttrNames,
         IndexFile[<<t, a>>] = IndexFile[<<u, b>>]
  PROVE  t = u /\ a = b
  BY DEF DistinctFiles

LEMMA EntriesForOne ==
  ASSUME DistinctFiles, NEW t \in TableNames, NEW A, IsABag(A), DOMAIN A \subseteq AttrNames,
         NEW tuple, NEW rid, NEW u \in TableNames, NEW b \in AttrNames
  PROVE  LET e == EntriesFor(t, A, tuple, rid)[IndexFile[<<u, b>>]]
         IN  /\ IsABag(e)
             /\ DOMAIN e = IF u = t /\ b \in DOMAIN A THEN Own(tuple, b, rid) ELSE {}
             /\ \A x \in DOMAIN e : e[x] = A[b]
<1> DEFINE e    == EntriesFor(t, A, tuple, rid)[IndexFile[<<u, b>>]]
           here == {a \in DOMAIN A : IndexFile[<<t, a>>] = IndexFile[<<u, b>>] /\ tuple[a] # NULL}
           n    == A[CHOOSE a \in here : TRUE]
<1>1. here = IF u = t /\ b \in DOMAIN A /\ tuple[b] # NULL THEN {b} ELSE {}
  BY FilesDiffer
<1>2. IndexFile[<<u, b>>] \in IndexFiles
  BY DEF IndexFiles
<1>3. e = [x \in {Entry(tuple[a], rid) : a \in here} |-> n]
  BY <1>2 DEF EntriesFor, BagToSet
<1>4. {Entry(tuple[a], rid) : a \in here}
        = IF u = t /\ b \in DOMAIN A THEN Own(tuple, b, rid) ELSE {}
  BY <1>1 DEF Own
<1>5. here # {} => n = A[b] /\ b \in DOMAIN A
  BY <1>1
<1> HIDE DEF e, n
<1>6. DOMAIN e = (IF u = t /\ b \in DOMAIN A THEN Own(tuple, b, rid) ELSE {})
  BY <1>3, <1>4
<1>7. \A x \in DOMAIN e : e[x] = A[b] /\ b \in DOMAIN A
  BY <1>3, <1>5
<1>8. IsABag(e)
  <2>1. \A x \in DOMAIN e : e[x] \in {k \in Nat : k > 0}
    BY <1>7 DEF IsABag
  <2>2. e = [x \in DOMAIN e |-> e[x]]
    BY <1>3
  <2> QED
    BY <2>1, <2>2 DEF IsABag
<1> QED
  BY <1>6, <1>7, <1>8 DEF e

EntriesHold ==
  /\ entries = [f \in IndexFiles |-> entries[f]]
  /\ \A f \in IndexFiles : /\ IsIndex(entries[f])
                           /\ f \notin disk.files => entries[f] = EmptyBag

LEMMA WithdrawnAre ==
  ASSUME DistinctFiles, EntriesHold, NEW t \in TableNames, NEW rid,
         NEW A, IsABag(A), DOMAIN A \subseteq AttrNames,
         NEW u \in TableNames, NEW b \in AttrNames
  PROVE  LET w    == Withdrawn(t, rid, A)[IndexFile[<<u, b>>]]
             held == entries[IndexFile[<<u, b>>]]
             own  == Own(Read(heaps[t], rid), b, rid)
         IN  /\ IsABag(w) /\ w \sqsubseteq held
             /\ ~(u = t /\ b \in DOMAIN A) => w = held
             /\ DOMAIN held \ own \subseteq DOMAIN w
             /\ u = t /\ b \in DOMAIN A /\ (\A e \in DOMAIN held : held[e] <= A[b])
                  => DOMAIN w = DOMAIN held \ own
<1> DEFINE w    == Withdrawn(t, rid, A)[IndexFile[<<u, b>>]]
           held == entries[IndexFile[<<u, b>>]]
           own  == Own(Read(heaps[t], rid), b, rid)
           old  == EntriesFor(t, A, Read(heaps[t], rid), rid)[IndexFile[<<u, b>>]]
<1>1. IndexFile[<<u, b>>] \in IndexFiles
  BY DEF IndexFiles
<1>2. IsABag(held)
  BY <1>1 DEF EntriesHold, IsIndex
<1>3. w = held (-) old
  BY <1>1 DEF Withdrawn, Removed
<1>4. /\ IsABag(old)
      /\ DOMAIN old = IF u = t /\ b \in DOMAIN A THEN own ELSE {}
      /\ \A x \in DOMAIN old : old[x] = A[b]
  BY EntriesForOne
<1> HIDE DEF w, held, own, old
<1>5. /\ IsABag(w) /\ w \sqsubseteq held
      /\ \A x \in DOMAIN held \ DOMAIN old : x \in DOMAIN w /\ w[x] = held[x]
      /\ \A x \in DOMAIN old : x \in DOMAIN held /\ held[x] <= old[x] => x \notin DOMAIN w
  <2>1. LET rest == held (-) old
        IN  /\ IsABag(rest) /\ rest \sqsubseteq held
            /\ \A x \in DOMAIN held \ DOMAIN old : x \in DOMAIN rest /\ rest[x] = held[x]
            /\ \A x \in DOMAIN old : x \in DOMAIN held /\ held[x] <= old[x] => x \notin DOMAIN rest
    BY <1>2, <1>4, SubtractFromBag
  <2> QED
    BY <1>3, <2>1
<1>6. ~(u = t /\ b \in DOMAIN A) => w = held
  BY <1>2, <1>3, <1>4, SubtractNothing
<1>7. DOMAIN held \ own \subseteq DOMAIN w
  BY <1>4, <1>5
<1>8. DOMAIN w \subseteq DOMAIN held
  BY <1>5 DEF \sqsubseteq
<1>9. ASSUME u = t, b \in DOMAIN A, \A e \in DOMAIN held : held[e] <= A[b]
      PROVE  DOMAIN w = DOMAIN held \ own
  BY <1>4, <1>5, <1>7, <1>8, <1>9
<1> QED
  BY <1>5, <1>6, <1>7, <1>9 DEF w, held, own

LEMMA EnteredAre ==
  ASSUME DistinctFiles, NEW es, NEW t \in TableNames, NEW rid, NEW tuple,
         NEW A, IsABag(A), DOMAIN A \subseteq AttrNames,
         NEW u \in TableNames, NEW b \in AttrNames, IsABag(es[IndexFile[<<u, b>>]])
  PROVE  LET n    == Entered(es, EntriesFor(t, A, tuple, rid))[IndexFile[<<u, b>>]]
             held == es[IndexFile[<<u, b>>]]
             own  == IF u = t /\ b \in DOMAIN A THEN Own(tuple, b, rid) ELSE {}
         IN  /\ IsABag(n) /\ DOMAIN n = DOMAIN held \cup own
             /\ ~(u = t /\ b \in DOMAIN A) => n = held
             /\ \A e \in DOMAIN held \ own : n[e] = held[e]
             /\ \A e \in own \ DOMAIN held : n[e] = A[b]
<1> DEFINE n    == Entered(es, EntriesFor(t, A, tuple, rid))[IndexFile[<<u, b>>]]
           held == es[IndexFile[<<u, b>>]]
           own  == IF u = t /\ b \in DOMAIN A THEN Own(tuple, b, rid) ELSE {}
           new  == EntriesFor(t, A, tuple, rid)[IndexFile[<<u, b>>]]
<1>1. IndexFile[<<u, b>>] \in IndexFiles
  BY DEF IndexFiles
<1>2. n = held (+) new
  BY <1>1 DEF Entered
<1>3. IsABag(new) /\ DOMAIN new = own /\ \A x \in DOMAIN new : new[x] = A[b]
  BY EntriesForOne
<1>4. ~(u = t /\ b \in DOMAIN A) => own = {}
  OBVIOUS
<1>5. b \in DOMAIN A => A[b] \in Nat /\ A[b] > 0
  BY DEF IsABag
<1>6. own # {} => b \in DOMAIN A
  OBVIOUS
<1> HIDE DEF n, held, own, new
<1>7. new = [x \in own |-> A[b]]
  BY <1>3 DEF IsABag
<1>8. CASE own = {}
  <2>1. n = held
    BY <1>2, <1>3, <1>8, AddNothing DEF held
  <2> QED
    BY <1>8, <2>1 DEF n, held, own
<1>9. CASE own # {}
  <2>1. LET sum == held (+) [x \in own |-> A[b]]
        IN  /\ IsABag(sum) /\ DOMAIN sum = DOMAIN held \cup own
            /\ \A x \in DOMAIN held \ own : sum[x] = held[x]
            /\ \A x \in own \ DOMAIN held : sum[x] = A[b]
    BY <1>5, <1>6, <1>9, AddToBag DEF held
  <2>2. /\ IsABag(n) /\ DOMAIN n = DOMAIN held \cup own
        /\ \A x \in DOMAIN held \ own : n[x] = held[x]
        /\ \A x \in own \ DOMAIN held : n[x] = A[b]
    BY <1>2, <1>7, <2>1
  <2> QED
    BY <1>4, <1>9, <2>2 DEF n, held, own
<1> QED
  BY <1>8, <1>9

-----------------------------------------------------------------------------
(* The inductive invariant. *)

HeapsHold ==
  /\ heaps = [t \in TableNames |-> heaps[t]]
  /\ \A t \in TableNames :
       /\ IsHeap(heaps[t])
       /\ t \notin disk.files => heaps[t] = Empty
       /\ Listed(t) => Range(heaps[t].records) \subseteq Tuples(Attrs(t))

\* A table that is to be created finds nothing in the index files of its name, and the
\* indexes of one that is listed, on attributes that it does not have, are empty.
NothingInherited ==
  \A t \in TableNames, a \in AttrNames :
    entries[IndexFile[<<t, a>>]] # EmptyBag => t \in disk.files /\ (Listed(t) => a \in Attrs(t))

Matching ==
  \A t \in TableNames : \A a \in Indexed(t) :
    /\ Fits(entries[IndexFile[<<t, a>>]], Listings(t, a), Due(Seen(heaps[t]), a))
    /\ "createIndex" \notin cut /\ ~torn =>
         DOMAIN entries[IndexFile[<<t, a>>]] = Due(Seen(heaps[t]), a)

\* What holds for all clients, and what holds for careful ones.
TablesInv == CatalogInv /\ TablesFirst /\ HeapsHold

RelationInv ==
  /\ TablesInv
  /\ EntriesHold /\ torn \in BOOLEAN
  /\ NothingInherited
  /\ Matching

LEMMA CatalogStays ==
  ASSUME UNCHANGED vars
  PROVE  /\ \A t : /\ Listed(t)' = Listed(t)
                   /\ Attrs(t)' = Attrs(t)
                   /\ \A a : Listings(t, a)' = Listings(t, a)
                   /\ Indexed(t)' = Indexed(t)
                   /\ Opens(t)' = Opens(t)
         /\ CatalogInv => CatalogInv'
         /\ TablesFirst => TablesFirst'
<1>1. disk' = disk
  BY DEF vars
<1>2. \A t, a : Listings(t, a)' = Listings(t, a)
  BY <1>1 DEF Listings, RowsOf, Copies, BagIn, BagToSet
<1> QED
  BY <1>1, <1>2, Stutter DEF Listed, RowsOf, Attrs, Indexed, Opens, HasCatalog, TablesFirst,
                            BagIn, BagToSet

-----------------------------------------------------------------------------
(* The calls on tuples. *)

LEMMA TypedHeap ==
  ASSUME TablesInv, NEW t \in TableNames, Opens(t)
  PROVE  /\ IsHeap(heaps[t])
         /\ Range(heaps[t].records) \subseteq Tuples(Attrs(t))
         /\ \A rid \in Home(heaps[t]) : Read(heaps[t], rid) \in Tuples(Attrs(t))
<1>1. IsHeap(heaps[t]) /\ Range(heaps[t].records) \subseteq Tuples(Attrs(t))
  BY DEF TablesInv, HeapsHold, Opens
<1> QED
  BY <1>1, HomeLeads DEF Read, Range

\* A call on the tuples of one table, which leaves its file as h.
LEMMA TablesKeep ==
  ASSUME TablesInv, UNCHANGED vars, NEW t \in TableNames, Opens(t), NEW h,
         heaps' = [heaps EXCEPT ![t] = h],
         IsHeap(h), Range(h.records) \subseteq Tuples(Attrs(t))
  PROVE  TablesInv'
<1>1. CatalogInv' /\ TablesFirst'
  BY CatalogStays DEF TablesInv
<1>2. DOMAIN heaps = TableNames /\ heaps = [u \in TableNames |-> heaps[u]]
  BY DEF TablesInv, HeapsHold
<1>3. heaps'[t] = h /\ \A u \in TableNames \ {t} : heaps'[u] = heaps[u]
  BY <1>2
<1>4. disk' = disk /\ t \in disk.files
  BY DEF vars, Opens
<1>5. heaps' = [u \in TableNames |-> heaps'[u]]
  BY <1>2
<1>6. ASSUME NEW u \in TableNames
      PROVE  /\ IsHeap(heaps'[u])
             /\ u \notin disk.files => heaps'[u] = Empty
             /\ Listed(u) => Range(heaps'[u].records) \subseteq Tuples(Attrs(u))
  BY <1>3, <1>4 DEF TablesInv, HeapsHold
<1>7. HeapsHold'
  BY <1>4, <1>5, <1>6, CatalogStays DEF HeapsHold
<1> QED
  BY <1>1, <1>7 DEF TablesInv

LEMMA InsertTables ==
  ASSUME TablesInv, NEW t \in TableNames, NEW rid, NEW tuple, NEW A, Insert(t, rid, tuple, A)
  PROVE  LET h == Inserted(heaps[t], rid, tuple)
         IN  /\ TablesInv'
             /\ heaps' = [heaps EXCEPT ![t] = h]
             /\ Seen(h) = With(Seen(heaps[t]), rid, tuple)
             /\ rid \notin DOMAIN Seen(heaps[t])
<1> DEFINE h == Inserted(heaps[t], rid, tuple)
<1>1. /\ Opens(t) /\ UNCHANGED vars
      /\ rid \in Rids \ Used(heaps[t])
      /\ tuple \in Tuples(Attrs(t))
  BY DEF Insert
<1>2. heaps' = [heaps EXCEPT ![t] = h]
  BY DEF Insert, TablesInv, HeapsHold
<1>3. IsHeap(heaps[t]) /\ Range(heaps[t].records) \subseteq Tuples(Attrs(t))
  BY <1>1, TypedHeap
<1>4. IsHeap(h) /\ Seen(h) = With(Seen(heaps[t]), rid, tuple)
  BY <1>1, <1>3, InsertedSeen
<1>5. Range(h.records) \subseteq Tuples(Attrs(t))
  <2>1. h.records = With(heaps[t].records, rid, tuple)
    BY <1>3 DEF Inserted, IsHeap
  <2> QED
    BY <1>1, <1>3, <2>1 DEF With, Range
<1>6. rid \notin DOMAIN Seen(heaps[t])
  BY <1>1 DEF Seen, Home
<1> HIDE DEF h
<1>7. TablesInv'
  BY <1>1, <1>2, <1>4, <1>5, TablesKeep
<1> QED
  BY <1>2, <1>4, <1>6, <1>7 DEF h

LEMMA DeleteTables ==
  ASSUME TablesInv, NEW t \in TableNames, NEW rid, deleteTuple(t, rid)
  PROVE  LET h == Deleted(heaps[t], rid)
         IN  /\ TablesInv'
             /\ heaps' = [heaps EXCEPT ![t] = h]
             /\ Seen(h) = Restrict(Seen(heaps[t]), Home(heaps[t]) \ {rid})
<1> DEFINE h == Deleted(heaps[t], rid)
<1>1. Opens(t) /\ UNCHANGED vars /\ rid \in Home(heaps[t])
  BY DEF deleteTuple
<1>2. heaps' = [heaps EXCEPT ![t] = h]
  BY DEF deleteTuple, TablesInv, HeapsHold
<1>3. IsHeap(heaps[t]) /\ Range(heaps[t].records) \subseteq Tuples(Attrs(t))
  BY <1>1, TypedHeap
<1>4. IsHeap(h) /\ Seen(h) = Restrict(Seen(heaps[t]), Home(heaps[t]) \ {rid})
  BY <1>1, <1>3, DeletedSeen
<1>5. Range(h.records) \subseteq Tuples(Attrs(t))
  BY <1>1, <1>3, DeletedSeen DEF Range
<1> HIDE DEF h
<1>6. TablesInv'
  BY <1>1, <1>2, <1>4, <1>5, TablesKeep
<1> QED
  BY <1>2, <1>4, <1>6 DEF h

LEMMA UpdateTables ==
  ASSUME TablesInv, NEW t \in TableNames, NEW rid, NEW tuple, NEW at, NEW A,
         Update(t, rid, tuple, at, A)
  PROVE  LET h == Updated(heaps[t], rid, tuple, at)
         IN  /\ TablesInv'
             /\ heaps' = [heaps EXCEPT ![t] = h]
             /\ Seen(h) = With(Restrict(Seen(heaps[t]), Home(heaps[t]) \ {rid}), rid, tuple)
             /\ rid \in Home(heaps[t])
<1> DEFINE h == Updated(heaps[t], rid, tuple, at)
<1>1. /\ Opens(t) /\ UNCHANGED vars
      /\ rid \in Home(heaps[t]) \ Moved(heaps[t])
      /\ tuple \in Tuples(Attrs(t))
      /\ at = rid \/ at \in Rids \ Used(heaps[t])
  BY DEF Update
<1>2. heaps' = [heaps EXCEPT ![t] = h]
  BY DEF Update, TablesInv, HeapsHold
<1>3. IsHeap(heaps[t]) /\ Range(heaps[t].records) \subseteq Tuples(Attrs(t))
  BY <1>1, TypedHeap
<1>4. /\ IsHeap(h) /\ Seen(h) = With(Restrict(Seen(heaps[t]), Home(heaps[t]) \ {rid}), rid, tuple)
      /\ \A p \in DOMAIN h.records : h.records[p] \in {tuple} \cup Range(heaps[t].records)
  BY <1>1, <1>3, UpdatedSeen
<1>5. Range(h.records) \subseteq Tuples(Attrs(t))
  BY <1>1, <1>3, <1>4 DEF Range
<1> HIDE DEF h
<1>6. TablesInv'
  BY <1>1, <1>2, <1>4, <1>5, TablesKeep
<1> QED
  BY <1>1, <1>2, <1>4, <1>6 DEF h

LEMMA OwnTyped ==
  ASSUME NEW t \in TableNames, NEW a \in Attrs(t), NEW tuple \in Tuples(Attrs(t)), NEW rid \in Rids
  PROVE  Own(tuple, a, rid) \subseteq IndexEntry
  BY DEF Own, Tuples, Entry, IndexEntry

\* A call on the tuples of one table, which leaves its file as h and what its indexes hold
\* where h is owed it.
LEMMA TupleKeeps ==
  ASSUME DistinctFiles, RelationInv, TablesInv', UNCHANGED vars, NEW t \in TableNames, Opens(t), NEW h,
         heaps' = [heaps EXCEPT ![t] = h],
         torn' \in BOOLEAN, torn => torn',
         entries' = [f \in IndexFiles |-> entries'[f]],
         \A u \in TableNames, b \in AttrNames :
           ~(u = t /\ b \in Indexed(t)) =>
             entries'[IndexFile[<<u, b>>]] = entries[IndexFile[<<u, b>>]],
         \A b \in Indexed(t) :
           /\ IsIndex(entries'[IndexFile[<<t, b>>]])
           /\ Fits(entries'[IndexFile[<<t, b>>]], Listings(t, b), Due(Seen(h), b))
           /\ "createIndex" \notin cut /\ ~torn' =>
                DOMAIN entries'[IndexFile[<<t, b>>]] = Due(Seen(h), b)
  PROVE  RelationInv'
<1>1. DOMAIN heaps = TableNames /\ heaps = [u \in TableNames |-> heaps[u]]
  BY DEF RelationInv, TablesInv, HeapsHold
<1>2. heaps'[t] = h /\ \A u \in TableNames \ {t} : heaps'[u] = heaps[u]
  BY <1>1
<1>3. disk' = disk /\ cut' = cut /\ t \in disk.files
  BY DEF vars, Opens
<1>4. ASSUME NEW u \in TableNames, NEW b \in AttrNames
      PROVE  /\ IsIndex(entries'[IndexFile[<<u, b>>]])
             /\ IndexFile[<<u, b>>] \notin disk.files => entries'[IndexFile[<<u, b>>]] = EmptyBag
             /\ entries'[IndexFile[<<u, b>>]] # EmptyBag =>
                  u \in disk.files /\ (Listed(u) => b \in Attrs(u))
  <2>1. CASE u = t /\ b \in Indexed(t)
    BY <1>3, <2>1 DEF Indexed
  <2>2. CASE ~(u = t /\ b \in Indexed(t))
    <3>1. IndexFile[<<u, b>>] \in IndexFiles
      BY DEF IndexFiles
    <3> QED
      BY <2>2, <3>1 DEF RelationInv, EntriesHold, NothingInherited
  <2> QED
    BY <2>1, <2>2
<1>5. EntriesHold'
  <2>1. ASSUME NEW f \in IndexFiles
        PROVE  IsIndex(entries'[f]) /\ (f \notin disk.files => entries'[f] = EmptyBag)
    <3>1. PICK u \in TableNames, b \in AttrNames : f = IndexFile[<<u, b>>]
      BY FileOf
    <3> QED
      BY <1>4, <3>1
  <2> QED
    BY <1>3, <2>1 DEF EntriesHold
<1>6. NothingInherited'
  BY <1>3, <1>4, CatalogStays DEF NothingInherited
<1>7. Matching'
  <2>1. ASSUME NEW u \in TableNames, NEW b \in Indexed(u)
        PROVE  /\ Fits(entries'[IndexFile[<<u, b>>]], Listings(u, b), Due(Seen(heaps'[u]), b))
               /\ "createIndex" \notin cut /\ ~torn' =>
                     DOMAIN entries'[IndexFile[<<u, b>>]] = Due(Seen(heaps'[u]), b)
    <3>1. b \in AttrNames
      BY DEF Indexed, Attrs
    <3>2. CASE u = t
      BY <1>2, <3>2
    <3>3. CASE u # t
      <4>1. entries'[IndexFile[<<u, b>>]] = entries[IndexFile[<<u, b>>]] /\ heaps'[u] = heaps[u]
        BY <1>2, <3>1, <3>3
      <4> QED
        BY <4>1 DEF RelationInv, Matching
    <3> QED
      BY <3>2, <3>3
  <2>2. \A u : Indexed(u)' = Indexed(u) /\ \A b : Listings(u, b)' = Listings(u, b)
    BY CatalogStays
  <2> QED
    BY <1>3, <2>1, <2>2 DEF Matching
<1> QED
  BY <1>5, <1>6, <1>7 DEF RelationInv

\* A call enters the tuple in all indexes of the table, or is cut short.
Reaches(t, A) ==
  /\ IsABag(A) /\ A \sqsubseteq indexedAttrs(t) /\ (torn' \/ A = indexedAttrs(t))
  /\ torn' \in BOOLEAN /\ (torn => torn')

LEMMA Held ==
  ASSUME RelationInv, NEW t \in TableNames, NEW b \in Indexed(t)
  PROVE  LET held == entries[IndexFile[<<t, b>>]]
             due  == Due(Seen(heaps[t]), b)
         IN  /\ b \in AttrNames /\ IndexFile[<<t, b>>] \in IndexFiles
             /\ IsABag(held) /\ DOMAIN held \subseteq IndexEntry
             /\ DOMAIN held \subseteq due
             /\ \A e \in DOMAIN held : held[e] <= Listings(t, b)
             /\ "createIndex" \notin cut /\ ~torn => DOMAIN held = due
<1>1. b \in AttrNames
  BY DEF Indexed, Attrs
<1>2. IndexFile[<<t, b>>] \in IndexFiles
  BY <1>1 DEF IndexFiles
<1>3. IsABag(entries[IndexFile[<<t, b>>]]) /\ DOMAIN entries[IndexFile[<<t, b>>]] \subseteq IndexEntry
  BY <1>2 DEF RelationInv, EntriesHold, IsIndex
<1> QED
  BY <1>1, <1>2, <1>3 DEF RelationInv, Matching, Fits

LEMMA Unheld ==
  ASSUME RelationInv
  PROVE  /\ TypeOK /\ RowsUnique /\ EntriesHold
         /\ \A u \in TableNames, b \in AttrNames : IsABag(entries[IndexFile[<<u, b>>]])
BY DEF RelationInv, TablesInv, CatalogInv, EntriesHold, IsIndex, IndexFiles

LEMMA InsertKeeps ==
  ASSUME DistinctFiles, RelationInv, NEW t \in TableNames, NEW rid \in Rids,
         NEW tuple, NEW A, Reaches(t, A), Insert(t, rid, tuple, A)
  PROVE  RelationInv'
<1> DEFINE h == Inserted(heaps[t], rid, tuple)
<1>1. /\ Opens(t) /\ UNCHANGED vars
      /\ rid \in Rids \ Used(heaps[t])
      /\ tuple \in Tuples(Attrs(t))
      /\ entries' = Entered(entries, EntriesFor(t, A, tuple, rid))
  BY DEF Insert
<1>2. /\ TablesInv'
      /\ heaps' = [heaps EXCEPT ![t] = h]
      /\ Seen(h) = With(Seen(heaps[t]), rid, tuple)
      /\ rid \notin DOMAIN Seen(heaps[t])
  BY InsertTables DEF RelationInv
<1>3. /\ IsABag(A) /\ DOMAIN A \subseteq Indexed(t) /\ DOMAIN A \subseteq AttrNames
      /\ \A a \in DOMAIN A : A[a] <= Listings(t, a)
  BY Unheld, PartOfIndexed DEF Reaches
<1> HIDE DEF h
<1>4. ASSUME NEW u \in TableNames, NEW b \in AttrNames
      PROVE  LET n    == entries'[IndexFile[<<u, b>>]]
                 held == entries[IndexFile[<<u, b>>]]
                 own  == IF u = t /\ b \in DOMAIN A THEN Own(tuple, b, rid) ELSE {}
             IN  /\ IsABag(n) /\ DOMAIN n = DOMAIN held \cup own
                 /\ ~(u = t /\ b \in DOMAIN A) => n = held
                 /\ \A e \in DOMAIN held \ own : n[e] = held[e]
                 /\ \A e \in own \ DOMAIN held : n[e] = A[b]
  <2>1. IsABag(entries[IndexFile[<<u, b>>]])
    BY Unheld
  <2> QED
    BY <1>1, <1>3, <2>1, EnteredAre
<1>5. ASSUME NEW u \in TableNames, NEW b \in AttrNames, ~(u = t /\ b \in Indexed(t))
      PROVE  entries'[IndexFile[<<u, b>>]] = entries[IndexFile[<<u, b>>]]
  BY <1>3, <1>4, <1>5
<1>6. ASSUME NEW b \in Indexed(t)
      PROVE  /\ IsIndex(entries'[IndexFile[<<t, b>>]])
             /\ Fits(entries'[IndexFile[<<t, b>>]], Listings(t, b), Due(Seen(h), b))
             /\ "createIndex" \notin cut /\ ~torn' =>
                  DOMAIN entries'[IndexFile[<<t, b>>]] = Due(Seen(h), b)
  <2> DEFINE held == entries[IndexFile[<<t, b>>]]
             n    == entries'[IndexFile[<<t, b>>]]
             own  == IF b \in DOMAIN A THEN Own(tuple, b, rid) ELSE {}
             due  == Due(Seen(heaps[t]), b)
  <2>1. Due(Seen(h), b) = due \cup Own(tuple, b, rid) /\ due \cap Own(tuple, b, rid) = {}
    BY <1>2, DueWith
  <2>2. /\ b \in AttrNames /\ IsABag(held) /\ DOMAIN held \subseteq IndexEntry
        /\ DOMAIN held \subseteq due
        /\ \A e \in DOMAIN held : held[e] <= Listings(t, b)
        /\ "createIndex" \notin cut /\ ~torn => DOMAIN held = due
    BY Held
  <2>3. b \in Attrs(t)
    BY DEF Indexed
  <2>4. Own(tuple, b, rid) \subseteq IndexEntry
    BY <1>1, <2>3, OwnTyped
  <2>5. /\ IsABag(n) /\ DOMAIN n = DOMAIN held \cup own
        /\ \A e \in DOMAIN held \ own : n[e] = held[e]
        /\ \A e \in own \ DOMAIN held : n[e] = A[b]
    <3>1. LET own1 == IF t = t /\ b \in DOMAIN A THEN Own(tuple, b, rid) ELSE {}
          IN  /\ IsABag(n) /\ DOMAIN n = DOMAIN held \cup own1
              /\ \A e \in DOMAIN held \ own1 : n[e] = held[e]
              /\ \A e \in own1 \ DOMAIN held : n[e] = A[b]
      BY <1>4, <2>2
    <3> QED
      BY <3>1
  <2>6. own \subseteq Own(tuple, b, rid) /\ (own # {} => A[b] <= Listings(t, b))
    BY <1>3
  <2>7. torn' \/ (~torn /\ own = Own(tuple, b, rid))
    <3>1. A = indexedAttrs(t) => b \in DOMAIN A
      BY Unheld, IndexedAttrs
    <3> QED
      BY <3>1 DEF Reaches
  <2> HIDE DEF held, n, own, due
  <2>8. IsIndex(n)
    BY <2>2, <2>4, <2>5, <2>6 DEF IsIndex
  <2>9. \A e \in DOMAIN n : n[e] <= Listings(t, b)
    BY <2>1, <2>2, <2>5, <2>6
  <2>10. DOMAIN n \subseteq Due(Seen(h), b)
    BY <2>1, <2>2, <2>5, <2>6
  <2>11. "createIndex" \notin cut /\ ~torn' => DOMAIN n = Due(Seen(h), b)
    BY <2>1, <2>2, <2>5, <2>7
  <2> QED
    BY <2>8, <2>9, <2>10, <2>11 DEF Fits, n
<1>7. torn' \in BOOLEAN /\ (torn => torn')
  BY DEF Reaches
<1>8. entries' = [f \in IndexFiles |-> entries'[f]]
  BY <1>1 DEF Entered
<1> QED
  BY <1>1, <1>2, <1>5, <1>6, <1>7, <1>8, TupleKeeps

\* What a tuple's withdrawal leaves in an index: entries that were there, and of a whole
\* withdrawal those of the other tuples, since no entry is there more often than it is
\* withdrawn.
LEMMA WithdrawnKeeps ==
  ASSUME DistinctFiles, RelationInv, NEW t \in TableNames, Opens(t), NEW rid \in Home(heaps[t]),
         NEW A, IsABag(A), A \sqsubseteq indexedAttrs(t), NEW b \in Indexed(t)
  PROVE  LET w    == Withdrawn(t, rid, A)[IndexFile[<<t, b>>]]
             left == Restrict(Seen(heaps[t]), Home(heaps[t]) \ {rid})
         IN  /\ IsIndex(w)
             /\ Fits(w, Listings(t, b), Due(Seen(heaps[t]), b))
             /\ A = indexedAttrs(t) => Fits(w, Listings(t, b), Due(left, b))
             /\ A = indexedAttrs(t) /\ "createIndex" \notin cut /\ ~torn => DOMAIN w = Due(left, b)
<1> DEFINE w    == Withdrawn(t, rid, A)[IndexFile[<<t, b>>]]
           left == Restrict(Seen(heaps[t]), Home(heaps[t]) \ {rid})
           own  == Own(Read(heaps[t], rid), b, rid)
           held == entries[IndexFile[<<t, b>>]]
           due  == Due(Seen(heaps[t]), b)
<1>1. /\ b \in AttrNames /\ IsABag(held) /\ DOMAIN held \subseteq IndexEntry
      /\ DOMAIN held \subseteq due
      /\ \A e \in DOMAIN held : held[e] <= Listings(t, b)
      /\ "createIndex" \notin cut /\ ~torn => DOMAIN held = due
  BY Held
<1>2. DOMAIN A \subseteq AttrNames
  BY Unheld, PartOfIndexed
<1>3. /\ IsABag(w) /\ w \sqsubseteq held
      /\ (b \in DOMAIN A /\ \A e \in DOMAIN held : held[e] <= A[b]) => DOMAIN w = DOMAIN held \ own
  <2>1. /\ IsABag(w) /\ w \sqsubseteq held
        /\ t = t /\ b \in DOMAIN A /\ (\A e \in DOMAIN held : held[e] <= A[b])
             => DOMAIN w = DOMAIN held \ own
    BY <1>1, <1>2, Unheld, WithdrawnAre
  <2> QED
    BY <2>1
<1>4. A = indexedAttrs(t) => b \in DOMAIN A /\ A[b] = Listings(t, b)
  BY Unheld, IndexedAttrs
<1>5. DOMAIN Seen(heaps[t]) = Home(heaps[t]) /\ Seen(heaps[t])[rid] = Read(heaps[t], rid)
  BY DEF Seen
<1>6. Due(left, b) = due \ own
  BY <1>5, DueWithout
<1>7. Listings(t, b) \in Nat
  BY Unheld, IndexedAttrs
<1> HIDE DEF w, left, own, held, due
<1>8. DOMAIN w \subseteq DOMAIN held /\ \A e \in DOMAIN w : w[e] <= held[e]
  BY <1>3 DEF \sqsubseteq
<1>9. \A e \in DOMAIN w : w[e] <= Listings(t, b)
  BY <1>1, <1>3, <1>7, <1>8 DEF IsABag
<1>10. A = indexedAttrs(t) => DOMAIN w = DOMAIN held \ own
  BY <1>1, <1>3, <1>4
<1>11. IsIndex(w)
  BY <1>1, <1>3, <1>8 DEF IsIndex
<1>12. Fits(w, Listings(t, b), due)
  BY <1>1, <1>8, <1>9 DEF Fits
<1>13. A = indexedAttrs(t) => Fits(w, Listings(t, b), Due(left, b))
  BY <1>1, <1>6, <1>9, <1>10 DEF Fits
<1>14. A = indexedAttrs(t) /\ "createIndex" \notin cut /\ ~torn => DOMAIN w = Due(left, b)
  BY <1>1, <1>6, <1>10
<1> QED
  BY <1>11, <1>12, <1>13, <1>14 DEF w, left, due

LEMMA WithdrawnElsewhere ==
  ASSUME DistinctFiles, RelationInv, NEW t \in TableNames, NEW rid,
         NEW A, IsABag(A), A \sqsubseteq indexedAttrs(t), NEW u \in TableNames, NEW b \in AttrNames,
         ~(u = t /\ b \in Indexed(t))
  PROVE  Withdrawn(t, rid, A)[IndexFile[<<u, b>>]] = entries[IndexFile[<<u, b>>]]
<1>1. DOMAIN A \subseteq AttrNames /\ DOMAIN A \subseteq Indexed(t)
  BY Unheld, PartOfIndexed
<1>2. ~(u = t /\ b \in DOMAIN A)
  BY <1>1
<1> QED
  BY <1>1, <1>2, Unheld, WithdrawnAre

LEMMA DeleteKeeps ==
  ASSUME DistinctFiles, RelationInv, NEW t \in TableNames, NEW rid, deleteTuple(t, rid)
  PROVE  RelationInv'
<1> DEFINE h == Deleted(heaps[t], rid)
<1>1. /\ Opens(t) /\ UNCHANGED <<torn, vars>>
      /\ rid \in Home(heaps[t])
      /\ entries' = Withdrawn(t, rid, indexedAttrs(t))
  BY DEF deleteTuple
<1>2. /\ TablesInv'
      /\ heaps' = [heaps EXCEPT ![t] = h]
      /\ Seen(h) = Restrict(Seen(heaps[t]), Home(heaps[t]) \ {rid})
  BY DeleteTables DEF RelationInv
<1> HIDE DEF h
<1>3. IsABag(indexedAttrs(t)) /\ indexedAttrs(t) \sqsubseteq indexedAttrs(t)
  BY Unheld, AllIndexed
<1>4. \A u \in TableNames, b \in AttrNames :
        ~(u = t /\ b \in Indexed(t)) =>
          entries'[IndexFile[<<u, b>>]] = entries[IndexFile[<<u, b>>]]
  BY <1>1, <1>3, WithdrawnElsewhere
<1>5. \A b \in Indexed(t) :
        /\ IsIndex(entries'[IndexFile[<<t, b>>]])
        /\ Fits(entries'[IndexFile[<<t, b>>]], Listings(t, b), Due(Seen(h), b))
        /\ "createIndex" \notin cut /\ ~torn' =>
             DOMAIN entries'[IndexFile[<<t, b>>]] = Due(Seen(h), b)
  <2> TAKE b \in Indexed(t)
  <2>1. LET w == Withdrawn(t, rid, indexedAttrs(t))[IndexFile[<<t, b>>]]
        IN  /\ IsIndex(w)
            /\ Fits(w, Listings(t, b), Due(Seen(h), b))
            /\ "createIndex" \notin cut /\ ~torn => DOMAIN w = Due(Seen(h), b)
    BY <1>1, <1>2, <1>3, WithdrawnKeeps
  <2> QED
    BY <1>1, <2>1
<1>6. entries' = [f \in IndexFiles |-> entries'[f]]
  BY <1>1 DEF Withdrawn, Removed
<1>7. torn' \in BOOLEAN /\ (torn => torn')
  BY <1>1 DEF RelationInv
<1> QED
  BY <1>1, <1>2, <1>4, <1>5, <1>6, <1>7, TupleKeeps

LEMMA WithdrawCutKeeps ==
  ASSUME DistinctFiles, RelationInv, NEW t \in TableNames, NEW rid, withdrawCut(t, rid)
  PROVE  RelationInv'
<1> DEFINE h == heaps[t]
<1>1. /\ Opens(t) /\ UNCHANGED vars /\ torn' = TRUE
      /\ rid \in Home(h)
  BY DEF withdrawCut
<1>2. PICK A \in SomeOf(indexedAttrs(t)) : entries' = Withdrawn(t, rid, A)
  BY DEF withdrawCut
<1>3. heaps' = [heaps EXCEPT ![t] = h]
  BY DEF withdrawCut, RelationInv, TablesInv, HeapsHold
<1>4. TablesInv'
  <2>1. IsHeap(h) /\ Range(h.records) \subseteq Tuples(Attrs(t))
    BY <1>1, TypedHeap DEF RelationInv
  <2> QED
    BY <1>1, <1>3, <2>1, TablesKeep DEF RelationInv
<1>5. IsABag(A) /\ A \sqsubseteq indexedAttrs(t)
  BY Unheld, AllIndexed, PartIsBag
<1>6. \A u \in TableNames, b \in AttrNames :
        ~(u = t /\ b \in Indexed(t)) =>
          entries'[IndexFile[<<u, b>>]] = entries[IndexFile[<<u, b>>]]
  BY <1>2, <1>5, WithdrawnElsewhere
<1>7. \A b \in Indexed(t) :
        /\ IsIndex(entries'[IndexFile[<<t, b>>]])
        /\ Fits(entries'[IndexFile[<<t, b>>]], Listings(t, b), Due(Seen(h), b))
  BY <1>1, <1>2, <1>5, WithdrawnKeeps
<1>8. entries' = [f \in IndexFiles |-> entries'[f]]
  BY <1>2 DEF Withdrawn, Removed
<1> QED
  BY <1>1, <1>3, <1>4, <1>6, <1>7, <1>8, TupleKeeps

LEMMA UpdateKeeps ==
  ASSUME DistinctFiles, RelationInv, NEW t \in TableNames, NEW rid,
         NEW tuple, NEW at, NEW A, Reaches(t, A), Update(t, rid, tuple, at, A)
  PROVE  RelationInv'
<1> DEFINE h    == Updated(heaps[t], rid, tuple, at)
           left == Restrict(Seen(heaps[t]), Home(heaps[t]) \ {rid})
           w    == Withdrawn(t, rid, indexedAttrs(t))
<1>1. /\ Opens(t) /\ UNCHANGED vars
      /\ rid \in Home(heaps[t]) \ Moved(heaps[t])
      /\ tuple \in Tuples(Attrs(t))
      /\ at = rid \/ at \in Rids \ Used(heaps[t])
      /\ entries' = Entered(w, EntriesFor(t, A, tuple, rid))
  BY DEF Update
<1>2. /\ TablesInv'
      /\ heaps' = [heaps EXCEPT ![t] = h]
      /\ Seen(h) = With(left, rid, tuple)
  BY UpdateTables DEF RelationInv
<1>3. rid \notin DOMAIN left /\ rid \in Rids
  BY <1>1, TypedHeap, HomeLeads DEF Restrict, RelationInv
<1>4. /\ IsABag(A) /\ DOMAIN A \subseteq Indexed(t) /\ DOMAIN A \subseteq AttrNames
      /\ \A a \in DOMAIN A : A[a] <= Listings(t, a)
  BY Unheld, PartOfIndexed DEF Reaches
<1>5. IsABag(indexedAttrs(t)) /\ indexedAttrs(t) \sqsubseteq indexedAttrs(t)
  BY Unheld, AllIndexed
<1>6. \A b \in Indexed(t) :
        LET e == w[IndexFile[<<t, b>>]]
        IN  /\ IsIndex(e)
            /\ Fits(e, Listings(t, b), Due(left, b))
            /\ "createIndex" \notin cut /\ ~torn => DOMAIN e = Due(left, b)
  BY <1>1, <1>5, WithdrawnKeeps
<1>7. ASSUME NEW u \in TableNames, NEW b \in AttrNames, ~(u = t /\ b \in Indexed(t))
      PROVE  w[IndexFile[<<u, b>>]] = entries[IndexFile[<<u, b>>]]
  BY <1>5, <1>7, WithdrawnElsewhere
<1> HIDE DEF h, left, w
<1>8. ASSUME NEW u \in TableNames, NEW b \in AttrNames, IsABag(w[IndexFile[<<u, b>>]])
      PROVE  LET n    == entries'[IndexFile[<<u, b>>]]
                 held == w[IndexFile[<<u, b>>]]
                 own  == IF u = t /\ b \in DOMAIN A THEN Own(tuple, b, rid) ELSE {}
             IN  /\ IsABag(n) /\ DOMAIN n = DOMAIN held \cup own
                 /\ ~(u = t /\ b \in DOMAIN A) => n = held
                 /\ \A e \in DOMAIN held \ own : n[e] = held[e]
                 /\ \A e \in own \ DOMAIN held : n[e] = A[b]
  BY <1>1, <1>4, <1>8, EnteredAre
<1>9. ASSUME NEW u \in TableNames, NEW b \in AttrNames, ~(u = t /\ b \in Indexed(t))
      PROVE  entries'[IndexFile[<<u, b>>]] = entries[IndexFile[<<u, b>>]]
  <2>1. IsABag(w[IndexFile[<<u, b>>]])
    BY <1>7, <1>9, Unheld
  <2>2. ~(u = t /\ b \in DOMAIN A)
    BY <1>4, <1>9
  <2>3. entries'[IndexFile[<<u, b>>]] = w[IndexFile[<<u, b>>]]
    BY <1>8, <2>1, <2>2
  <2> QED
    BY <1>7, <1>9, <2>3
<1>10. ASSUME NEW b \in Indexed(t)
      PROVE  /\ IsIndex(entries'[IndexFile[<<t, b>>]])
             /\ Fits(entries'[IndexFile[<<t, b>>]], Listings(t, b), Due(Seen(h), b))
             /\ "createIndex" \notin cut /\ ~torn' =>
                  DOMAIN entries'[IndexFile[<<t, b>>]] = Due(Seen(h), b)
  <2> DEFINE held == w[IndexFile[<<t, b>>]]
             n    == entries'[IndexFile[<<t, b>>]]
             own  == IF b \in DOMAIN A THEN Own(tuple, b, rid) ELSE {}
             due  == Due(left, b)
  <2>1. Due(Seen(h), b) = due \cup Own(tuple, b, rid) /\ due \cap Own(tuple, b, rid) = {}
    BY <1>2, <1>3, DueWith
  <2>2. b \in Attrs(t) /\ b \in AttrNames
    BY DEF Indexed, Attrs
  <2>3. /\ IsABag(held) /\ DOMAIN held \subseteq IndexEntry
        /\ DOMAIN held \subseteq due
        /\ \A e \in DOMAIN held : held[e] <= Listings(t, b)
        /\ "createIndex" \notin cut /\ ~torn => DOMAIN held = due
    BY <1>6 DEF IsIndex, Fits
  <2>4. Own(tuple, b, rid) \subseteq IndexEntry
    BY <1>1, <1>3, <2>2, OwnTyped
  <2>5. /\ IsABag(n) /\ DOMAIN n = DOMAIN held \cup own
        /\ \A e \in DOMAIN held \ own : n[e] = held[e]
        /\ \A e \in own \ DOMAIN held : n[e] = A[b]
    <3>1. LET own1 == IF t = t /\ b \in DOMAIN A THEN Own(tuple, b, rid) ELSE {}
          IN  /\ IsABag(n) /\ DOMAIN n = DOMAIN held \cup own1
              /\ \A e \in DOMAIN held \ own1 : n[e] = held[e]
              /\ \A e \in own1 \ DOMAIN held : n[e] = A[b]
      BY <1>8, <2>2, <2>3
    <3> QED
      BY <3>1
  <2>6. own \subseteq Own(tuple, b, rid) /\ (own # {} => A[b] <= Listings(t, b))
    BY <1>4
  <2>7. torn' \/ (~torn /\ own = Own(tuple, b, rid))
    <3>1. A = indexedAttrs(t) => b \in DOMAIN A
      BY Unheld, IndexedAttrs
    <3> QED
      BY <3>1 DEF Reaches
  <2> HIDE DEF held, n, own, due
  <2>8. IsIndex(n)
    BY <2>3, <2>4, <2>5, <2>6 DEF IsIndex
  <2>9. \A e \in DOMAIN n : n[e] <= Listings(t, b)
    BY <2>1, <2>3, <2>5, <2>6
  <2>10. DOMAIN n \subseteq Due(Seen(h), b)
    BY <2>1, <2>3, <2>5, <2>6
  <2>11. "createIndex" \notin cut /\ ~torn' => DOMAIN n = Due(Seen(h), b)
    BY <2>1, <2>3, <2>5, <2>7
  <2> QED
    BY <2>8, <2>9, <2>10, <2>11 DEF Fits, n
<1>11. torn' \in BOOLEAN /\ (torn => torn')
  BY DEF Reaches
<1>12. entries' = [f \in IndexFiles |-> entries'[f]]
  BY <1>1 DEF Entered
<1> QED
  BY <1>1, <1>2, <1>9, <1>10, <1>11, <1>12, TupleKeeps

LEMMA TupleCallsKeep ==
  ASSUME DistinctFiles, RelationInv, TupleCalls
  PROVE  RelationInv'
<1>1. PICK t \in TableNames, rid \in Rids :
        \/ deleteTuple(t, rid)
        \/ withdrawCut(t, rid)
        \/ \E tuple \in Tuples(Attrs(t)) :
             \/ insertTuple(t, rid, tuple)
             \/ insertTupleCut(t, rid, tuple)
             \/ \E at \in Rids : \/ updateTuple(t, rid, tuple, at)
                                \/ updateTupleCut(t, rid, tuple, at)
  BY DEF TupleCalls
<1>2. CASE deleteTuple(t, rid)
  BY <1>2, DeleteKeeps
<1>3. CASE withdrawCut(t, rid)
  BY <1>3, WithdrawCutKeeps
<1>4. torn \in BOOLEAN /\ IsABag(indexedAttrs(t)) /\ indexedAttrs(t) \sqsubseteq indexedAttrs(t)
  BY Unheld, AllIndexed DEF RelationInv
<1>5. ASSUME NEW tuple, insertTuple(t, rid, tuple)
      PROVE  RelationInv'
  <2>1. Reaches(t, indexedAttrs(t)) /\ Insert(t, rid, tuple, indexedAttrs(t))
    BY <1>4, <1>5 DEF insertTuple, Reaches
  <2> QED
    BY <2>1, InsertKeeps
<1>6. ASSUME NEW tuple, insertTupleCut(t, rid, tuple)
      PROVE  RelationInv'
  <2>1. PICK A \in SomeOf(indexedAttrs(t)) : Insert(t, rid, tuple, A)
    BY <1>6 DEF insertTupleCut
  <2>2. IsABag(A) /\ A \sqsubseteq indexedAttrs(t)
    BY <1>4, PartIsBag
  <2>3. Reaches(t, A)
    BY <1>6, <2>2 DEF insertTupleCut, Reaches
  <2> QED
    BY <2>1, <2>3, InsertKeeps
<1>7. ASSUME NEW tuple, NEW at, updateTuple(t, rid, tuple, at)
      PROVE  RelationInv'
  <2>1. Reaches(t, indexedAttrs(t)) /\ Update(t, rid, tuple, at, indexedAttrs(t))
    BY <1>4, <1>7 DEF updateTuple, Reaches
  <2> QED
    BY <2>1, UpdateKeeps
<1>8. ASSUME NEW tuple, NEW at, updateTupleCut(t, rid, tuple, at)
      PROVE  RelationInv'
  <2>1. PICK A \in SomeOf(indexedAttrs(t)) : Update(t, rid, tuple, at, A)
    BY <1>8 DEF updateTupleCut
  <2>2. IsABag(A) /\ A \sqsubseteq indexedAttrs(t)
    BY <1>4, PartIsBag
  <2>3. Reaches(t, A)
    BY <1>8, <2>2 DEF updateTupleCut, Reaches
  <2> QED
    BY <2>1, <2>3, UpdateKeeps
<1> QED
  BY <1>1, <1>2, <1>3, <1>5, <1>6, <1>7, <1>8

-----------------------------------------------------------------------------
(* The calls on the catalog, and what becomes of the files. *)

SameListings(t) == Attrs(t)' = Attrs(t) /\ \A a : Listings(t, a)' = Listings(t, a)

\* The rows of Tables and of Columns say what they said of table t.
LEMMA ListingsStay ==
  ASSUME NEW t, RowsOf(t)' = RowsOf(t), \A r \in RowsOf(t) : SameRows(r.id), Listed(t)
  PROVE  SameListings(t)
BY AttrsKeep DEF SameListings, Listed

LEMMA ColumnsStay ==
  ASSUME disk'.columns = disk.columns
  PROVE  \A id : SameRows(id)
BY DEF SameRows

\* A table that is listed after a call was listed with the same attributes, or had no
\* file; with the file of a table its indexes go; only a createIndex cut short leaves an
\* index file that was not there.
CatalogEffect ==
  /\ cut \subseteq cut'
  /\ \A t \in TableNames :
       /\ Listed(t)' => \/ Listed(t) /\ SameListings(t)
                        \/ ~Listed(t) /\ t \notin disk.files
       /\ t \in disk.files \ disk'.files =>
            \A a \in AttrNames : IndexFile[<<t, a>>] \in disk.files \cap disk'.files =>
                                  Listed(t) /\ a \notin Attrs(t)
  /\ \A f \in (IndexFiles \cap disk'.files) \ disk.files : "createIndex" \in cut'

LEMMA CreateCatalogEffect ==
  ASSUME CatalogInv, createCatalog
  PROVE  CatalogEffect
<1>1. disk.tables = {} /\ cut \subseteq cut'
  BY CreateCatalogLeaves DEF CatalogInv, NoFileNoRows
<1>2. disk'.tables \subseteq CatalogRows /\ disk.files \subseteq disk'.files
  BY <1>1, CreateCatalogLeaves DEF CatalogInv
<1>3. \A t \in TableNames : ~Listed(t)'
  BY <1>2, NamesAssumption DEF Listed, RowsOf, CatalogRows, CatalogFiles
<1>4. disk'.files \subseteq disk.files \cup CatalogFiles
  BY CreateCatalogLeaves DEF CatalogInv, CatalogFiles
<1> QED
  BY <1>1, <1>2, <1>3, <1>4, NamesAssumption DEF CatalogEffect

LEMMA DeleteCatalogEffect ==
  ASSUME CatalogInv, TablesFirst, deleteCatalog, IndexFiles \cap disk.files = {}
  PROVE  CatalogEffect
<1>1. PICK F : /\ disk' = Without(disk, F)
               /\ cut' \in {cut, cut \cup {"deleteCatalog"}}
               /\ "Columns" \in F => "Tables" \in F
  BY DeleteCatalogLeaves DEF CatalogInv
<1>2. ASSUME NEW t \in TableNames, Listed(t)'
      PROVE  Listed(t) /\ SameListings(t)
  <2>1. "Tables" \notin F /\ "Columns" \notin F
    BY <1>1, <1>2 DEF Without, Listed, RowsOf
  <2>2. disk'.tables = disk.tables /\ disk'.columns = disk.columns
    BY <1>1, <2>1 DEF Without
  <2>3. RowsOf(t)' = RowsOf(t) /\ Listed(t)
    BY <1>2, <2>2 DEF Listed, RowsOf
  <2> QED
    BY <2>2, <2>3, ColumnsStay, ListingsStay
<1>3. disk'.files \subseteq disk.files
  BY <1>1 DEF Without
<1>4. \A t \in TableNames, a \in AttrNames : IndexFile[<<t, a>>] \notin disk.files
  BY DEF IndexFiles
<1> QED
  BY <1>1, <1>2, <1>3, <1>4 DEF CatalogEffect

LEMMA CreateTableEffect ==
  ASSUME DistinctFiles, CatalogInv, NEW u \in TableNames, NEW attrs \in SUBSET AttrNames,
         createTable(u, attrs)
  PROVE  CatalogEffect
<1>1. /\ ~Listed(u) /\ u \notin disk.files
      /\ disk'.files = disk.files \cup {u}
      /\ cut \subseteq cut'
      /\ \/ disk'.tables = disk.tables /\ disk'.columns = disk.columns
         \/ \E id \in Nat, as \in SUBSET AttrNames :
              /\ \A r \in disk.tables : r.id < id
              /\ disk'.tables = disk.tables \cup {[id |-> id, name |-> u]}
              /\ disk'.columns = disk.columns (+) SetToBag(Rows(id, as))
  BY CreateTableLeaves DEF CatalogInv
<1>2. ASSUME NEW t \in TableNames, t # u
      PROVE  RowsOf(t)' = RowsOf(t) /\ \A r \in RowsOf(t) : SameRows(r.id)
  <2>1. CASE disk'.tables = disk.tables /\ disk'.columns = disk.columns
    BY <2>1, ColumnsStay DEF RowsOf
  <2>2. ASSUME NEW id \in Nat, NEW as \in SUBSET AttrNames,
               \A r \in disk.tables : r.id < id,
               disk'.tables = disk.tables \cup {[id |-> id, name |-> u]},
               disk'.columns = disk.columns (+) SetToBag(Rows(id, as))
        PROVE  RowsOf(t)' = RowsOf(t) /\ \A r \in RowsOf(t) : SameRows(r.id)
    <3>1. RowsOf(t)' = RowsOf(t)
      BY <1>2, <2>2 DEF RowsOf
    <3>2. \A r \in RowsOf(t) : r.id # id
      BY <2>2 DEF RowsOf, CatalogInv, TypeOK, TableRow
    <3>3. \A other : other # id => SameRows(other)
      BY <2>2, RowsAdded DEF CatalogInv
    <3> QED
      BY <3>1, <3>2, <3>3
  <2> QED
    BY <1>1, <2>1, <2>2
<1>3. u \notin IndexFiles
  BY DEF DistinctFiles
<1>4. ASSUME NEW t \in TableNames, t # u, Listed(t)'
      PROVE  Listed(t) /\ SameListings(t)
  <2>1. Listed(t)
    BY <1>2, <1>4 DEF Listed
  <2> QED
    BY <1>2, <1>4, <2>1, ListingsStay
<1> QED
  BY <1>1, <1>3, <1>4 DEF CatalogEffect

LEMMA DeleteTableEffect ==
  ASSUME DistinctFiles, CatalogInv, NEW u \in TableNames, deleteTable(u)
  PROVE  CatalogEffect
<1>1. PICK r \in RowsOf(u), F \in SUBSET ({u} \cup IndexFiles) :
        /\ disk'.files = disk.files \ F
        /\ disk'.tables = disk.tables \ {r}
        /\ Fewer(r.id)
        /\ F \subseteq IndexFiles \/ F = {IndexFile[<<u, a>>] : a \in Attrs(u)} \cup {u}
        /\ cut \subseteq cut'
  BY DeleteTableLeaves DEF CatalogInv
<1>2. ~Listed(u)' /\ Listed(u)
  BY <1>1 DEF Listed, RowsOf, CatalogInv, RowsUnique
<1>3. ASSUME NEW t \in TableNames, t # u
      PROVE  /\ Listed(t)' => Listed(t) /\ SameListings(t)
             /\ t \notin disk.files \ disk'.files
  <2>1. RowsOf(t)' = RowsOf(t)
    BY <1>1, <1>3 DEF RowsOf
  <2>2. \A q \in RowsOf(t) : q.id # r.id
    BY <1>3 DEF RowsOf, CatalogInv, RowsUnique
  <2>3. \A q \in RowsOf(t) : SameRows(q.id)
    BY <1>1, <2>2, RowsKept
  <2>4. Listed(t)' => Listed(t) /\ SameListings(t)
    BY <2>1, <2>3, ListingsStay DEF Listed
  <2> QED
    BY <1>1, <1>3, <2>4 DEF DistinctFiles
<1>4. u \in disk.files \ disk'.files =>
        \A a \in AttrNames : IndexFile[<<u, a>>] \in disk.files \cap disk'.files => a \notin Attrs(u)
  BY <1>1 DEF DistinctFiles
<1> QED
  BY <1>1, <1>2, <1>3, <1>4 DEF CatalogEffect

LEMMA IndexEffect ==
  ASSUME DistinctFiles, CatalogInv, NEW u \in TableNames, NEW b \in AttrNames,
         createIndexCut(u, b) \/ destroyIndex(u, b)
  PROVE  CatalogEffect
<1>1. /\ disk'.tables = disk.tables /\ disk'.columns = disk.columns
      /\ cut \subseteq cut'
      /\ IndexFile[<<u, b>>] \in IndexFiles
      /\ disk'.files \subseteq disk.files \cup IndexFiles
      /\ disk.files \ IndexFiles \subseteq disk'.files
      /\ "createIndex" \in cut' \/ disk'.files \subseteq disk.files
  BY IndexesLeave DEF CatalogInv
<1>2. ASSUME NEW t \in TableNames, Listed(t)'
      PROVE  Listed(t) /\ SameListings(t)
  <2>1. RowsOf(t)' = RowsOf(t) /\ Listed(t)
    BY <1>1, <1>2 DEF Listed, RowsOf
  <2> QED
    BY <1>1, <2>1, ColumnsStay, ListingsStay
<1>3. \A t \in TableNames : t \notin disk.files \ disk'.files
  BY <1>1 DEF DistinctFiles
<1> QED
  BY <1>1, <1>2, <1>3 DEF CatalogEffect

LEMMA CatalogCallsEffect ==
  ASSUME DistinctFiles, CatalogInv, TablesFirst, CatalogCalls
  PROVE  CatalogEffect
<1> QED
  BY CreateCatalogEffect, DeleteCatalogEffect, CreateTableEffect, DeleteTableEffect, IndexEffect
     DEF CatalogCalls

LEMMA CatalogCallsTables ==
  ASSUME DistinctFiles, TablesInv, CatalogCalls, KeepFiles
  PROVE  TablesInv'
<1>1. CatalogInv' /\ TablesFirst'
  <2>1. Next
    BY DEF Next
  <2> QED
    BY <2>1, TypeStep, NoFileNoRowsStep, RowsUniqueStep, NothingStrayStep, CatalogDeletableStep,
       TablesFirstStep DEF TablesInv, CatalogInv
<1>2. CatalogEffect
  BY CatalogCallsEffect DEF TablesInv
<1>3. /\ \A t \in TableNames : heaps'[t] = IF t \in disk'.files THEN heaps[t] ELSE Empty
      /\ heaps' = [t \in TableNames |-> heaps'[t]]
  BY DEF KeepFiles
<1>4. HeapsHold'
  <2>1. ASSUME NEW t \in TableNames
        PROVE  /\ IsHeap(heaps'[t])
               /\ t \notin disk'.files => heaps'[t] = Empty
               /\ Listed(t)' => Range(heaps'[t].records) \subseteq Tuples(Attrs(t)')
    <3>1. IsHeap(heaps'[t]) /\ (t \notin disk'.files => heaps'[t] = Empty)
      BY <1>3, EmptyIsHeap DEF TablesInv, HeapsHold
    <3>2. CASE heaps'[t] = Empty
      BY <3>1, <3>2 DEF Empty, Range
    <3>3. CASE heaps'[t] # Empty
      BY <1>2, <1>3, <3>1, <3>3 DEF TablesInv, HeapsHold, CatalogEffect, SameListings
    <3> QED
      BY <3>2, <3>3
  <2> QED
    BY <1>3, <2>1 DEF HeapsHold, Tuples
<1> QED
  BY <1>1, <1>4 DEF TablesInv

LEMMA CatalogCallsKeep ==
  ASSUME DistinctFiles, RelationInv, CatalogCalls, KeepFiles
  PROVE  RelationInv'
<1>1. TablesInv'
  BY CatalogCallsTables DEF RelationInv
<1>2. CatalogEffect
  BY CatalogCallsEffect DEF RelationInv, TablesInv
<1>3. /\ \A t \in TableNames : heaps'[t] = IF t \in disk'.files THEN heaps[t] ELSE Empty
      /\ \A f \in IndexFiles : entries'[f] = IF f \in disk'.files THEN entries[f] ELSE EmptyBag
      /\ heaps' = [t \in TableNames |-> heaps'[t]]
      /\ entries' = [f \in IndexFiles |-> entries'[f]]
      /\ torn' = torn
  BY DEF KeepFiles
<1>4. EntriesHold'
  <2>1. IsIndex(EmptyBag)
    BY DEF IsIndex, EmptyBag, SetToBag, IsABag
  <2> QED
    BY <1>3, <2>1 DEF RelationInv, EntriesHold
<1>5. ASSUME NEW t \in TableNames, NEW a \in AttrNames, entries'[IndexFile[<<t, a>>]] # EmptyBag
      PROVE  t \in disk'.files /\ (Listed(t)' => a \in Attrs(t)')
  <2> DEFINE f == IndexFile[<<t, a>>]
  <2>1. f \in IndexFiles
    BY DEF IndexFiles
  <2>2. f \in disk.files \cap disk'.files /\ entries[f] # EmptyBag
    BY <1>3, <1>5, <2>1 DEF RelationInv, EntriesHold
  <2>3. t \in disk.files /\ (Listed(t) => a \in Attrs(t))
    BY <2>2 DEF RelationInv, NothingInherited
  <2> QED
    BY <1>2, <2>2, <2>3 DEF CatalogEffect, SameListings
<1>6. ASSUME NEW t \in TableNames, NEW a \in Indexed(t)'
      PROVE  /\ Fits(entries'[IndexFile[<<t, a>>]], Listings(t, a)', Due(Seen(heaps'[t]), a))
             /\ "createIndex" \notin cut' /\ ~torn' =>
                  DOMAIN entries'[IndexFile[<<t, a>>]] = Due(Seen(heaps'[t]), a)
  <2> DEFINE f == IndexFile[<<t, a>>]
  <2>1. f \in disk'.files /\ a \in Attrs(t)' /\ a \in AttrNames /\ Listed(t)'
    BY DEF Indexed, Attrs, Listed, RowsOf
  <2>2. f \in IndexFiles
    BY <2>1 DEF IndexFiles
  <2>3. entries'[f] = entries[f]
    BY <1>3, <2>1, <2>2
  <2>4. CASE heaps'[t] = Empty /\ entries'[f] = EmptyBag
    <3>1. DOMAIN entries'[f] = {} /\ DOMAIN Seen(Empty) = {}
      BY <2>4, EmptyIsHeap DEF EmptyBag, SetToBag
    <3>2. Due(Seen(heaps'[t]), a) = {}
      BY <2>4, <3>1 DEF Due
    <3> QED
      BY <3>1, <3>2 DEF Fits
  <2>5. CASE t \notin disk'.files \/ t \notin disk.files
    <3>1. heaps'[t] = Empty
      BY <1>3, <2>5 DEF RelationInv, TablesInv, HeapsHold
    <3>2. entries'[f] = EmptyBag
      BY <1>5, <2>1, <2>3, <2>5 DEF RelationInv, NothingInherited
    <3> QED
      BY <2>4, <3>1, <3>2
  <2>6. CASE t \in disk'.files /\ t \in disk.files
    <3>1. heaps'[t] = heaps[t] /\ cut \subseteq cut' /\ torn' = torn
      BY <1>2, <1>3, <2>6 DEF CatalogEffect
    <3>2. Listed(t) /\ a \in Attrs(t) /\ Listings(t, a)' = Listings(t, a)
      BY <1>2, <2>1, <2>6 DEF CatalogEffect, SameListings
    <3>3. CASE f \in disk.files
      <4>1. a \in Indexed(t)
        BY <3>2, <3>3 DEF Indexed
      <4> QED
        BY <2>3, <3>1, <3>2, <4>1 DEF RelationInv, Matching
    <3>4. CASE f \notin disk.files
      <4>1. "createIndex" \in cut'
        BY <1>2, <2>1, <2>2, <3>4 DEF CatalogEffect
      <4>2. DOMAIN entries'[f] = {}
        BY <2>2, <2>3, <3>4 DEF RelationInv, EntriesHold, EmptyBag, SetToBag
      <4> QED
        BY <4>1, <4>2 DEF Fits
    <3> QED
      BY <3>3, <3>4
  <2> QED
    BY <2>5, <2>6
<1>7. NothingInherited' /\ Matching'
  BY <1>5, <1>6 DEF NothingInherited, Matching
<1> QED
  BY <1>1, <1>3, <1>4, <1>7 DEF RelationInv

\* A scan of a file in which nothing has moved returns what its client sees.
LEMMA ScanSees ==
  ASSUME NEW h, IsHeap(h), Moved(h) = {}, NEW a
  PROVE  {Entry(h.records[rid][a], rid) : rid \in {rid \in DOMAIN h.records : h.records[rid][a] # NULL}}
           = Due(Seen(h), a)
<1>1. Home(h) = DOMAIN h.records /\ \A rid \in Home(h) : Read(h, rid) = h.records[rid]
  BY DEF Home, Used, Moved, Range, Read, Target
<1>2. DOMAIN Seen(h) = DOMAIN h.records /\ \A rid \in DOMAIN h.records : Seen(h)[rid] = h.records[rid]
  BY <1>1 DEF Seen
<1> HIDE DEF Seen
<1>3. \A e : e \in {Entry(h.records[rid][a], rid) :
                       rid \in {rid \in DOMAIN h.records : h.records[rid][a] # NULL}}
             <=> \E rid \in DOMAIN h.records : e \in Own(h.records[rid], a, rid)
  BY DEF Own
<1> QED
  BY <1>2, <1>3, InDue

LEMMA CreateIndexTables ==
  ASSUME DistinctFiles, TablesInv, NEW t \in TableNames, NEW a \in AttrNames,
         createIndex(t, a), fillIndex(t, a)
  PROVE  TablesInv'
<1>1. CatalogInv' /\ TablesFirst'
  <2>1. Next
    BY DEF Next
  <2> QED
    BY <2>1, TypeStep, NoFileNoRowsStep, RowsUniqueStep, NothingStrayStep, CatalogDeletableStep,
       TablesFirstStep DEF TablesInv, CatalogInv
<1>2. /\ disk'.tables = disk.tables /\ disk'.columns = disk.columns
      /\ disk'.files = disk.files \cup {IndexFile[<<t, a>>]}
      /\ heaps' = heaps
  BY DEF createIndex, Created, fillIndex
<1>3. \A u : Listed(u)' = Listed(u) /\ Attrs(u)' = Attrs(u)
  BY <1>2 DEF Listed, RowsOf, Attrs
<1>4. HeapsHold'
  BY <1>2, <1>3 DEF TablesInv, HeapsHold
<1> QED
  BY <1>1, <1>4 DEF TablesInv

LEMMA CreateIndexKeeps ==
  ASSUME DistinctFiles, RelationInv, NEW t \in TableNames, NEW a \in AttrNames,
         Moved(heaps[t]) = {}, createIndex(t, a), fillIndex(t, a)
  PROVE  RelationInv'
<1> DEFINE f == IndexFile[<<t, a>>]
<1>1. TablesInv'
  BY CreateIndexTables DEF RelationInv
<1>2. /\ disk'.tables = disk.tables /\ disk'.columns = disk.columns /\ cut' = cut
      /\ disk'.files = disk.files \cup {f}
      /\ a \in Attrs(t) /\ t \in disk.files /\ f \notin disk.files
  BY DEF createIndex, Created
<1>3. f \in IndexFiles /\ f \notin TableNames
  BY DEF IndexFiles, DistinctFiles
<1>4. \A u : /\ Listed(u)' = Listed(u) /\ Attrs(u)' = Attrs(u)
             /\ \A b : Listings(u, b)' = Listings(u, b)
  BY <1>2 DEF Listed, RowsOf, Attrs, Listings
<1>5. Listed(t)
  BY <1>2 DEF Listed, RowsOf, Attrs
<1>6. IsHeap(heaps[t]) /\ Range(heaps[t].records) \subseteq Tuples(Attrs(t))
  BY <1>5 DEF RelationInv, TablesInv, HeapsHold
<1>7. /\ heaps' = heaps /\ torn' = torn
      /\ entries' = [entries EXCEPT ![f] = SetToBag(Due(Seen(heaps[t]), a))]
  BY <1>6, ScanSees DEF fillIndex
<1>8. DOMAIN entries = IndexFiles /\ entries = [g \in IndexFiles |-> entries[g]]
  BY DEF RelationInv, EntriesHold
<1>9. /\ entries'[f] = SetToBag(Due(Seen(heaps[t]), a))
      /\ DOMAIN entries'[f] = Due(Seen(heaps[t]), a)
      /\ \A g \in IndexFiles \ {f} : entries'[g] = entries[g]
  BY <1>3, <1>7, <1>8 DEF SetToBag
<1>10. Due(Seen(heaps[t]), a) \subseteq IndexEntry
  <2>1. \A rid \in DOMAIN Seen(heaps[t]) :
          Seen(heaps[t])[rid] \in Tuples(Attrs(t)) /\ rid \in Rids
    BY <1>6, HomeLeads DEF Seen, Read, Range
  <2>2. \A e \in Due(Seen(heaps[t]), a) : e \in IndexEntry
    BY <1>2, <2>1, InDue, OwnTyped
  <2> QED
    BY <2>2
<1>11. EntriesHold'
  <2>1. IsIndex(SetToBag(Due(Seen(heaps[t]), a)))
    BY <1>10 DEF IsIndex, IsABag, SetToBag
  <2> QED
    BY <1>2, <1>7, <1>8, <1>9, <2>1 DEF RelationInv, EntriesHold
<1>12. NothingInherited'
  <2>1. ASSUME NEW u \in TableNames, NEW b \in AttrNames, entries'[IndexFile[<<u, b>>]] # EmptyBag
        PROVE  u \in disk.files /\ (Listed(u) => b \in Attrs(u))
    <3>1. CASE u = t /\ b = a
      BY <1>2, <3>1
    <3>2. CASE ~(u = t /\ b = a)
      <4>1. IndexFile[<<u, b>>] \in IndexFiles \ {f}
        BY <3>2, FilesDiffer DEF IndexFiles
      <4> QED
        BY <1>9, <2>1, <4>1 DEF RelationInv, NothingInherited
    <3> QED
      BY <3>1, <3>2
  <2> QED
    BY <1>2, <1>4, <2>1 DEF NothingInherited
<1>13. Matching'
  <2>1. ASSUME NEW u \in TableNames, NEW b \in Indexed(u)'
        PROVE  /\ Fits(entries'[IndexFile[<<u, b>>]], Listings(u, b), Due(Seen(heaps[u]), b))
               /\ "createIndex" \notin cut /\ ~torn =>
                    DOMAIN entries'[IndexFile[<<u, b>>]] = Due(Seen(heaps[u]), b)
    <3>1. b \in AttrNames /\ b \in Attrs(u) /\ IndexFile[<<u, b>>] \in disk'.files
      BY <1>4 DEF Indexed, Attrs
    <3>2. CASE u = t /\ b = a
      <4>1. Listings(t, a) \in Nat /\ Listings(t, a) >= 1
        BY <1>2, Unheld, IndexedAttrs
      <4>2. \A e \in DOMAIN entries'[f] : entries'[f][e] = 1
        BY <1>9 DEF SetToBag
      <4> QED
        BY <1>9, <3>2, <4>1, <4>2 DEF Fits
    <3>3. CASE ~(u = t /\ b = a)
      <4>1. IndexFile[<<u, b>>] \in IndexFiles \ {f}
        BY <3>1, <3>3, FilesDiffer DEF IndexFiles
      <4>2. b \in Indexed(u)
        BY <1>2, <3>1, <4>1 DEF Indexed
      <4> QED
        BY <1>9, <4>1, <4>2 DEF RelationInv, Matching
    <3> QED
      BY <3>2, <3>3
  <2> QED
    BY <1>2, <1>4, <1>7, <2>1 DEF Matching
<1> QED
  BY <1>1, <1>7, <1>11, <1>12, <1>13 DEF RelationInv

-----------------------------------------------------------------------------
(* Theorems on the invariants. *)

LEMMA TablesStep ==
  ASSUME DistinctFiles, TablesInv, [RNext]_rvars
  PROVE  TablesInv'
<1>1. CASE CatalogCalls /\ KeepFiles
  BY <1>1, CatalogCallsTables
<1>2. CASE TupleCalls
  <2>1. PICK t \in TableNames, rid \in Rids :
          \/ deleteTuple(t, rid)
          \/ withdrawCut(t, rid)
          \/ \E tuple \in Tuples(Attrs(t)) :
               \/ insertTuple(t, rid, tuple)
               \/ insertTupleCut(t, rid, tuple)
               \/ \E at \in Rids : \/ updateTuple(t, rid, tuple, at)
                                  \/ updateTupleCut(t, rid, tuple, at)
    BY <1>2 DEF TupleCalls
  <2>2. CASE withdrawCut(t, rid)
    <3>1. UNCHANGED <<heaps, vars>>
      BY <2>2 DEF withdrawCut
    <3>2. HeapsHold'
      BY <3>1, CatalogStays DEF TablesInv, HeapsHold, vars
    <3> QED
      BY <3>1, <3>2, CatalogStays DEF TablesInv
  <2> QED
    BY <2>1, <2>2, DeleteTables, InsertTables, UpdateTables
       DEF insertTuple, insertTupleCut, updateTuple, updateTupleCut
<1>3. ASSUME NEW t \in TableNames, NEW a \in AttrNames, createIndex(t, a), fillIndex(t, a)
      PROVE  TablesInv'
  BY <1>3, CreateIndexTables
<1>4. CASE UNCHANGED rvars
  <2>1. UNCHANGED <<vars, disk, heaps>>
    BY <1>4 DEF rvars, vars
  <2>2. HeapsHold'
    BY <2>1, CatalogStays DEF TablesInv, HeapsHold
  <2> QED
    BY <2>1, <2>2, CatalogStays DEF TablesInv
<1> QED
  BY <1>1, <1>2, <1>3, <1>4 DEF RNext

LEMMA TablesStart ==
  ASSUME RInit
  PROVE  TablesInv
<1>1. Init /\ heaps = [t \in TableNames |-> Empty]
  BY DEF RInit
<1>2. disk.tables = {} /\ disk.files = {}
  BY <1>1 DEF Init
<1>3. CatalogInv /\ TablesFirst
  BY <1>1, <1>2, InitHolds DEF TablesFirst, Listed, RowsOf
<1>4. \A t : ~Listed(t)
  BY <1>2 DEF Listed, RowsOf
<1>5. HeapsHold
  BY <1>1, <1>4, EmptyIsHeap DEF HeapsHold
<1> QED
  BY <1>3, <1>5 DEF TablesInv

\* For any client: no two tombstones lead to one record and each leads to one, every tuple
\* has the attributes of its table, and what was in a file is gone with the file.
THEOREM TablesInvariant ==
  ASSUME DistinctFiles
  PROVE  RSpec => []TablesInv
<1>1. RInit => TablesInv
  BY TablesStart
<1>2. TablesInv /\ [RNext]_rvars => TablesInv'
  BY TablesStep
<1> QED
  BY <1>1, <1>2, PTL DEF RSpec

LEMMA RelationStays ==
  ASSUME RelationInv, UNCHANGED rvars, TablesInv'
  PROVE  RelationInv'
<1>1. UNCHANGED <<vars, disk, cut, heaps, entries, torn>>
  BY DEF rvars, vars
<1>2. EntriesHold'
  BY <1>1, CatalogStays DEF RelationInv, EntriesHold
<1>3. NothingInherited' /\ Matching'
  BY <1>1, CatalogStays DEF RelationInv, NothingInherited, Matching
<1> QED
  BY <1>1, <1>2, <1>3 DEF RelationInv

LEMMA RelationStep ==
  ASSUME DistinctFiles, RelationInv, [CarefulNext]_rvars
  PROVE  RelationInv'
<1>1. CASE UNCHANGED rvars
  BY <1>1, TablesStep, RelationStays DEF RelationInv
<1> QED
  BY <1>1, CatalogCallsKeep, TupleCallsKeep, CreateIndexKeeps DEF CarefulNext

LEMMA RelationStarts ==
  ASSUME RInit
  PROVE  RelationInv
<1>1. /\ disk = [files |-> {}, tables |-> {}, columns |-> EmptyBag]
      /\ entries = [f \in IndexFiles |-> EmptyBag]
      /\ torn = FALSE
  BY DEF RInit, Init
<1>2. \A t : Indexed(t) = {}
  BY <1>1 DEF Indexed
<1>3. EntriesHold
  BY <1>1 DEF EntriesHold, IsIndex, EmptyBag, SetToBag, IsABag
<1>4. NothingInherited /\ Matching
  BY <1>1, <1>2 DEF NothingInherited, Matching, IndexFiles
<1> QED
  BY <1>1, <1>3, <1>4, TablesStart DEF RelationInv

\* For clients that create indexes on tables whose tuples have not moved: no index holds
\* an entry that no tuple of its table has, nor one more often than the catalog lists the
\* attribute, and a new table finds nothing in the index files that crashes have left
\* under its name.
THEOREM RelationInvariant ==
  ASSUME DistinctFiles
  PROVE  CarefulSpec => []RelationInv
<1>1. RInit => RelationInv
  BY RelationStarts
<1>2. RelationInv /\ [CarefulNext]_rvars => RelationInv'
  BY RelationStep
<1> QED
  BY <1>1, <1>2, PTL DEF CarefulSpec

\* Record files and index files hold what belongs in them: every tombstone leads to a
\* record, every tuple has the attributes of its table, files that are gone are empty.
THEOREM RelationTypeCorrect ==
  ASSUME DistinctFiles
  PROVE  CarefulSpec => []RTypeOK
<1>1. RelationInv => RTypeOK
  <2> SUFFICES ASSUME RelationInv
               PROVE  RTypeOK
    OBVIOUS
  <2>1. TypeOK /\ torn \in BOOLEAN
    BY DEF RelationInv, TablesInv, CatalogInv
  <2>2. ASSUME NEW t \in TableNames
        PROVE  /\ DOMAIN heaps[t].records \subseteq Rids
               /\ DOMAIN heaps[t].tombstones \subseteq Rids \ DOMAIN heaps[t].records
               /\ Range(heaps[t].tombstones) \subseteq DOMAIN heaps[t].records
               /\ t \notin disk.files => heaps[t] = Empty
               /\ Listed(t) => Range(heaps[t].records) \subseteq Tuples(Attrs(t))
    <3>1. /\ IsHeap(heaps[t])
          /\ t \notin disk.files => heaps[t] = Empty
          /\ Listed(t) => Range(heaps[t].records) \subseteq Tuples(Attrs(t))
      BY DEF RelationInv, TablesInv, HeapsHold
    <3>2. /\ DOMAIN heaps[t].records \subseteq Rids
          /\ DOMAIN heaps[t].tombstones \subseteq Rids \ DOMAIN heaps[t].records
          /\ Range(heaps[t].tombstones) \subseteq DOMAIN heaps[t].records
      BY <3>1 DEF IsHeap, IsMap, Moved, Range
    <3> QED
      BY <3>1, <3>2
  <2>3. ASSUME NEW f \in IndexFiles
        PROVE  /\ IsABag(entries[f])
               /\ f \notin disk.files => entries[f] = EmptyBag
               /\ BagToSet(entries[f]) \subseteq [key : Keys, rid : Rids]
    BY DEF RelationInv, EntriesHold, IsIndex, IndexEntry, BagToSet
  <2> QED
    BY <2>1, <2>2, <2>3 DEF RTypeOK
<1> QED
  BY <1>1, RelationInvariant, PTL

\* No index leads astray, through any calls and crashes, for clients that create indexes
\* on tables whose tuples have not moved: every entry is that of a tuple, under the RID
\* and the value it has, and there no more often than its attribute is listed; and while
\* no call is cut short none misses a tuple.
THEOREM IndexesStayMatched ==
  ASSUME DistinctFiles
  PROVE  CarefulSpec => []IndexesMatch
<1>1. RelationInv => IndexesMatch
  <2> SUFFICES ASSUME RelationInv, NEW t \in TableNames, NEW a \in Indexed(t)
               PROVE  LET index == entries[IndexFile[<<t, a>>]]
                          due   == Due(Seen(heaps[t]), a)
                      IN  /\ BagToSet(index) \subseteq due
                          /\ \A e \in due : Copies(e, index) <= Listings(t, a)
                          /\ "createIndex" \notin cut /\ ~torn => due \subseteq BagToSet(index)
    <3>1. ASSUME RelationInv, NEW t \in TableNames
          PROVE  BagToSet(indexedAttrs(t)) = Indexed(t)
      BY <3>1, Unheld, IndexedAttrs DEF BagToSet
    <3> QED
      BY <3>1 DEF IndexesMatch, Due, Seen, Tuple
  <2> DEFINE f == IndexFile[<<t, a>>]
  <2>1. /\ DOMAIN entries[f] \subseteq Due(Seen(heaps[t]), a)
        /\ \A e \in DOMAIN entries[f] : entries[f][e] <= Listings(t, a)
        /\ "createIndex" \notin cut /\ ~torn => DOMAIN entries[f] = Due(Seen(heaps[t]), a)
    BY Held
  <2>2. Listings(t, a) \in Nat
    BY Unheld, IndexedAttrs
  <2> HIDE DEF f
  <2>3. \A e : Copies(e, entries[f]) <= Listings(t, a)
    BY <2>1, <2>2 DEF Copies, BagIn, BagToSet
  <2> QED
    BY <2>1, <2>3 DEF BagToSet, f
<1> QED
  BY <1>1, RelationInvariant, PTL

-----------------------------------------------------------------------------
(* The relation manager implements the abstract tables. *)

\* What the refinement maps the state to.
Stored == [t \in {t \in TableNames : Opens(t)} |-> [attrs |-> Attrs(t), tuples |-> Tuple(t)]]

LEMMA DropMaps ==
  ASSUME \A t \in TableNames : Opens(t)' => Opens(t) /\ Attrs(t)' = Attrs(t) /\ Tuple(t)' = Tuple(t)
  PROVE  Store!Drop
<1>1. DOMAIN Stored' \subseteq DOMAIN Stored
  BY DEF Stored
<1>2. \A t \in DOMAIN Stored' : Stored'[t] = Stored[t]
  BY DEF Stored
<1>3. Stored' = [t \in DOMAIN Stored' |-> Stored'[t]]
  BY DEF Stored
<1>4. Stored' = Store!Restrict(Stored, DOMAIN Stored')
  BY <1>2, <1>3 DEF Store!Restrict
<1> QED
  BY <1>1, <1>4 DEF Store!Drop, Stored

LEMMA CreateMaps ==
  ASSUME NEW t \in TableNames, ~Opens(t), Opens(t)', Attrs(t)' \subseteq AttrNames, Tuple(t)' = << >>,
         \A u \in TableNames \ {t} :
           Opens(u)' = Opens(u) /\ (Opens(u) => Attrs(u)' = Attrs(u) /\ Tuple(u)' = Tuple(u))
  PROVE  Store!Create
<1>1. /\ DOMAIN Stored' = DOMAIN Stored \cup {t} /\ t \notin DOMAIN Stored
      /\ Stored'[t] = [attrs |-> Attrs(t)', tuples |-> << >>]
      /\ \A u \in DOMAIN Stored : Stored'[u] = Stored[u]
      /\ Stored' = [u \in DOMAIN Stored' |-> Stored'[u]]
  BY DEF Stored
<1> HIDE DEF Stored
<1>2. Stored' = Store!With(Stored, t, [attrs |-> Attrs(t)', tuples |-> << >>])
  BY <1>1 DEF Store!With
<1>3. Attrs(t)' \in SUBSET AttrNames /\ t \in DOMAIN Stored' \ DOMAIN Stored
  BY <1>1
<1> QED
  BY <1>2, <1>3 DEF Store!Create, Stored

LEMMA ChangeMaps ==
  ASSUME UNCHANGED vars, NEW t \in TableNames, Opens(t), NEW new, Tuple(t)' = new,
         \A u \in TableNames \ {t} : Tuple(u)' = Tuple(u),
         \/ \E rid \in DOMAIN new \ DOMAIN Tuple(t) : new = With(Tuple(t), rid, new[rid])
         \/ \E rid \in DOMAIN Tuple(t) \ DOMAIN new :
              DOMAIN Tuple(t) = DOMAIN new \cup {rid} /\ new = Restrict(Tuple(t), DOMAIN new)
         \/ \E rid \in DOMAIN Tuple(t) \cap DOMAIN new : new = [Tuple(t) EXCEPT ![rid] = new[rid]]
  PROVE  Store!Change
<1>1. /\ DOMAIN Stored' = DOMAIN Stored /\ t \in DOMAIN Stored
      /\ Stored[t] = [attrs |-> Attrs(t), tuples |-> Tuple(t)]
      /\ Stored'[t] = [attrs |-> Attrs(t), tuples |-> new]
      /\ \A u \in DOMAIN Stored \ {t} : Stored'[u] = Stored[u]
      /\ Stored' = [u \in DOMAIN Stored |-> Stored'[u]]
      /\ Stored = [u \in DOMAIN Stored |-> Stored[u]]
  BY CatalogStays DEF Stored
<1> HIDE DEF Stored
<1>2. Stored' = [Stored EXCEPT ![t].tuples = new]
  BY <1>1
<1>3. Stored[t].tuples = Tuple(t) /\ Stored'[t].tuples = new /\ t \in DOMAIN Stored \cap DOMAIN Stored'
  BY <1>1
<1>4. \/ \E rid \in DOMAIN new \ DOMAIN Tuple(t) : new = Store!With(Tuple(t), rid, new[rid])
      \/ \E rid \in DOMAIN Tuple(t) \ DOMAIN new :
           DOMAIN Tuple(t) = DOMAIN new \cup {rid} /\ new = Store!Restrict(Tuple(t), DOMAIN new)
      \/ \E rid \in DOMAIN Tuple(t) \cap DOMAIN new : new = [Tuple(t) EXCEPT ![rid] = new[rid]]
  BY DEF Store!With, Store!Restrict, With, Restrict
<1>5. LET old == Stored[t].tuples
          now == Stored'[t].tuples
      IN  /\ Stored' = [Stored EXCEPT ![t].tuples = now]
          /\ \/ \E rid \in DOMAIN now \ DOMAIN old : now = Store!With(old, rid, now[rid])
             \/ \E rid \in DOMAIN old \ DOMAIN now :
                  DOMAIN old = DOMAIN now \cup {rid} /\ now = Store!Restrict(old, DOMAIN now)
             \/ \E rid \in DOMAIN old \cap DOMAIN now : now = [old EXCEPT ![rid] = now[rid]]
  BY <1>2, <1>3, <1>4
<1> QED
  BY <1>3, <1>5 DEF Store!Change, Stored

\* A call that makes no file of a table opens none, and leaves the tables it does not close.
LEMMA NoneOpened ==
  ASSUME DistinctFiles, TablesInv, CatalogEffect, KeepFiles,
         disk'.files \ IndexFiles \subseteq disk.files
  PROVE  Store!Drop
<1>1. ASSUME NEW t \in TableNames, Opens(t)'
      PROVE  Opens(t) /\ Attrs(t)' = Attrs(t) /\ Tuple(t)' = Tuple(t)
  <2>1. HasCatalog' /\ Listed(t)' /\ t \in disk'.files
    BY <1>1 DEF Opens
  <2>2. HasCatalog /\ t \in disk.files
    BY <2>1, NamesAssumption DEF HasCatalog, DistinctFiles, CatalogFiles
  <2>3. Listed(t) /\ Attrs(t)' = Attrs(t)
    BY <2>1, <2>2 DEF CatalogEffect, SameListings
  <2>4. heaps'[t] = heaps[t]
    BY <2>1 DEF KeepFiles
  <2>5. Tuple(t)' = Seen(heaps'[t]) /\ Tuple(t) = Seen(heaps[t])
    BY DEF Tuple, Seen
  <2> QED
    BY <2>2, <2>3, <2>4, <2>5 DEF Opens
<1> QED
  BY <1>1, DropMaps

LEMMA CreateTableMaps ==
  ASSUME DistinctFiles, TablesInv, NEW t \in TableNames, NEW attrs \in SUBSET AttrNames,
         createTable(t, attrs), KeepFiles
  PROVE  Store!Create \/ Store!Drop
<1>1. /\ HasCatalog /\ ~Listed(t) /\ t \notin disk.files
      /\ disk'.files = disk.files \cup {t}
  BY CreateTableLeaves DEF TablesInv, CatalogInv
<1>2. CatalogEffect
  BY CreateTableEffect DEF TablesInv
<1>3. disk.tables \subseteq disk'.tables
  BY CreateTableLeaves DEF TablesInv, CatalogInv
<1>4. ASSUME NEW u \in TableNames \ {t}
      PROVE  Opens(u)' = Opens(u) /\ (Opens(u) => Attrs(u)' = Attrs(u) /\ Tuple(u)' = Tuple(u))
  <2>1. HasCatalog' /\ (u \in disk'.files <=> u \in disk.files)
    BY <1>1 DEF HasCatalog
  <2>2. Listed(u) => Listed(u)'
    BY <1>3 DEF Listed, RowsOf
  <2>3. u \in disk.files => (Listed(u)' <=> Listed(u)) /\ (Listed(u) => Attrs(u)' = Attrs(u))
    BY <1>2, <2>2 DEF CatalogEffect, SameListings
  <2>4. u \in disk.files => heaps'[u] = heaps[u]
    BY <1>1 DEF KeepFiles
  <2>5. Tuple(u)' = Seen(heaps'[u]) /\ Tuple(u) = Seen(heaps[u])
    BY DEF Tuple, Seen
  <2>6. Opens(u)' <=> Opens(u)
    BY <1>1, <2>1, <2>3 DEF Opens
  <2> QED
    BY <2>3, <2>4, <2>5, <2>6 DEF Opens
<1>5. ~Opens(t)
  BY <1>1 DEF Opens
<1>6. CASE Opens(t)'
  <2>1. Attrs(t)' \subseteq AttrNames
    BY DEF Attrs
  <2>2. heaps'[t] = Empty
    BY <1>1 DEF KeepFiles, TablesInv, HeapsHold
  <2>3. Tuple(t)' = << >>
    <3>1. Tuple(t)' = Seen(heaps'[t])
      BY DEF Tuple, Seen
    <3> QED
      BY <2>2, <3>1, EmptyIsHeap
  <2> QED
    BY <1>4, <1>5, <1>6, <2>1, <2>3, CreateMaps
<1>7. CASE ~Opens(t)'
  <2>1. \A u \in TableNames : Opens(u)' => Opens(u) /\ Attrs(u)' = Attrs(u) /\ Tuple(u)' = Tuple(u)
    BY <1>4, <1>7
  <2> QED
    BY <2>1, DropMaps
<1> QED
  BY <1>6, <1>7

LEMMA CatalogCallsMap ==
  ASSUME DistinctFiles, TablesInv, CatalogCalls, KeepFiles
  PROVE  Store!Create \/ Store!Drop
<1>1. CatalogEffect
  BY CatalogCallsEffect DEF TablesInv
<1>2. CASE createCatalog
  <2>1. disk.tables = {}
    BY <1>2, CreateCatalogLeaves DEF TablesInv, CatalogInv, NoFileNoRows
  <2>2. disk'.tables \subseteq CatalogRows
    BY <1>2, <2>1, CreateCatalogLeaves DEF TablesInv, CatalogInv
  <2>3. \A t \in TableNames : ~Listed(t)'
    BY <2>2, NamesAssumption DEF Listed, RowsOf, CatalogRows, CatalogFiles
  <2> QED
    BY <2>3, DropMaps DEF Opens
<1>3. CASE deleteCatalog
  <2>1. disk'.files \subseteq disk.files
    BY <1>3, DeleteCatalogLeaves DEF TablesInv, CatalogInv, Without
  <2> QED
    BY <1>1, <2>1, NoneOpened
<1>4. ASSUME NEW t \in TableNames, NEW attrs \in SUBSET AttrNames, createTable(t, attrs)
      PROVE  Store!Create \/ Store!Drop
  BY <1>4, CreateTableMaps
<1>5. ASSUME NEW t \in TableNames, deleteTable(t)
      PROVE  Store!Drop
  <2>1. disk'.files \subseteq disk.files
    BY <1>5, DeleteTableLeaves DEF TablesInv, CatalogInv
  <2> QED
    BY <1>1, <2>1, NoneOpened
<1>6. ASSUME NEW t \in TableNames, NEW a \in AttrNames, createIndexCut(t, a) \/ destroyIndex(t, a)
      PROVE  Store!Drop
  <2>1. disk'.files \ IndexFiles \subseteq disk.files
    BY <1>6, IndexesLeave DEF TablesInv, CatalogInv
  <2> QED
    BY <1>1, <2>1, NoneOpened
<1> QED
  BY <1>2, <1>3, <1>4, <1>5, <1>6 DEF CatalogCalls

\* The one table a call on tuples is about.
LEMMA TupleMaps ==
  ASSUME TablesInv, NEW t \in TableNames, Opens(t), UNCHANGED vars, NEW h,
         heaps' = [heaps EXCEPT ![t] = h]
  PROVE  /\ Tuple(t)' = Seen(h) /\ Tuple(t) = Seen(heaps[t])
         /\ \A u \in TableNames \ {t} : Tuple(u)' = Tuple(u)
<1>1. heaps'[t] = h /\ \A u \in TableNames \ {t} : heaps'[u] = heaps[u]
  BY DEF TablesInv, HeapsHold
<1>2. \A u : Tuple(u)' = Seen(heaps'[u]) /\ Tuple(u) = Seen(heaps[u])
  BY DEF Tuple, Seen
<1> QED
  BY <1>1, <1>2

LEMMA InsertMaps ==
  ASSUME TablesInv, NEW t \in TableNames, NEW rid, NEW tuple, NEW A, Insert(t, rid, tuple, A)
  PROVE  Store!Change
<1> DEFINE h == Inserted(heaps[t], rid, tuple)
<1>1. Opens(t) /\ UNCHANGED vars
  BY DEF Insert
<1>2. /\ heaps' = [heaps EXCEPT ![t] = h]
      /\ Seen(h) = With(Seen(heaps[t]), rid, tuple)
      /\ rid \notin DOMAIN Seen(heaps[t])
  BY InsertTables
<1> HIDE DEF h
<1>3. rid \in DOMAIN Seen(h) \ DOMAIN Seen(heaps[t]) /\ Seen(h)[rid] = tuple
  BY <1>2 DEF With
<1>4. Tuple(t)' = Seen(h) /\ Tuple(t) = Seen(heaps[t]) /\ \A u \in TableNames \ {t} : Tuple(u)' = Tuple(u)
  BY <1>1, <1>2, TupleMaps
<1> QED
  BY <1>1, <1>2, <1>3, <1>4, ChangeMaps

LEMMA DeleteMaps ==
  ASSUME TablesInv, NEW t \in TableNames, NEW rid, deleteTuple(t, rid)
  PROVE  Store!Change
<1> DEFINE h == Deleted(heaps[t], rid)
<1>1. Opens(t) /\ UNCHANGED vars /\ rid \in Home(heaps[t])
  BY DEF deleteTuple
<1>2. /\ heaps' = [heaps EXCEPT ![t] = h]
      /\ Seen(h) = Restrict(Seen(heaps[t]), Home(heaps[t]) \ {rid})
  BY DeleteTables
<1> HIDE DEF h
<1>3. /\ rid \in DOMAIN Seen(heaps[t]) \ DOMAIN Seen(h)
      /\ DOMAIN Seen(heaps[t]) = DOMAIN Seen(h) \cup {rid}
      /\ Seen(h) = Restrict(Seen(heaps[t]), DOMAIN Seen(h))
  BY <1>1, <1>2 DEF Restrict, Seen
<1>4. Tuple(t)' = Seen(h) /\ Tuple(t) = Seen(heaps[t]) /\ \A u \in TableNames \ {t} : Tuple(u)' = Tuple(u)
  BY <1>1, <1>2, TupleMaps
<1> QED
  BY <1>1, <1>3, <1>4, ChangeMaps

LEMMA UpdateMaps ==
  ASSUME TablesInv, NEW t \in TableNames, NEW rid, NEW tuple, NEW at, NEW A,
         Update(t, rid, tuple, at, A)
  PROVE  Store!Change
<1> DEFINE h == Updated(heaps[t], rid, tuple, at)
<1>1. Opens(t) /\ UNCHANGED vars
  BY DEF Update
<1>2. /\ heaps' = [heaps EXCEPT ![t] = h]
      /\ Seen(h) = With(Restrict(Seen(heaps[t]), Home(heaps[t]) \ {rid}), rid, tuple)
      /\ rid \in Home(heaps[t])
  BY UpdateTables
<1>3. DOMAIN Seen(heaps[t]) = Home(heaps[t]) /\ Seen(heaps[t]) = [p \in Home(heaps[t]) |-> Seen(heaps[t])[p]]
  BY DEF Seen
<1> HIDE DEF h, Seen
<1>4. /\ rid \in DOMAIN Seen(heaps[t]) \cap DOMAIN Seen(h)
      /\ Seen(h)[rid] = tuple
      /\ Seen(h) = [Seen(heaps[t]) EXCEPT ![rid] = tuple]
  BY <1>2, <1>3 DEF With, Restrict
<1>5. Tuple(t)' = Seen(h) /\ Tuple(t) = Seen(heaps[t]) /\ \A u \in TableNames \ {t} : Tuple(u)' = Tuple(u)
  BY <1>1, <1>2, TupleMaps
<1> QED
  BY <1>1, <1>4, <1>5, ChangeMaps

\* A call leaves the abstract tables as they are when it leaves the catalog's tables and
\* the record files.
LEMMA NothingMaps ==
  ASSUME UNCHANGED heaps,
         \A t \in TableNames : Opens(t)' = Opens(t) /\ Attrs(t)' = Attrs(t)
  PROVE  UNCHANGED Stored
<1>1. \A t \in TableNames : Tuple(t)' = Tuple(t)
  <2>1. \A t : Tuple(t)' = Seen(heaps'[t]) /\ Tuple(t) = Seen(heaps[t])
    BY DEF Tuple, Seen
  <2> QED
    BY <2>1
<1>2. \A t \in TableNames : Opens(t)' <=> Opens(t)
  OBVIOUS
<1>3. DOMAIN Stored' = DOMAIN Stored
  BY <1>2 DEF Stored
<1>4. \A t \in DOMAIN Stored : Stored'[t] = Stored[t]
  BY <1>1, <1>2 DEF Stored
<1>5. Stored' = [t \in DOMAIN Stored' |-> Stored'[t]] /\ Stored = [t \in DOMAIN Stored |-> Stored[t]]
  BY DEF Stored
<1> QED
  BY <1>3, <1>4, <1>5

LEMMA StepMaps ==
  ASSUME DistinctFiles, TablesInv, [RNext]_rvars
  PROVE  Store!Next \/ UNCHANGED Stored
<1>1. CASE CatalogCalls /\ KeepFiles
  BY <1>1, CatalogCallsMap DEF Store!Next
<1>2. CASE TupleCalls
  <2>1. PICK t \in TableNames, rid \in Rids :
          \/ deleteTuple(t, rid)
          \/ withdrawCut(t, rid)
          \/ \E tuple \in Tuples(Attrs(t)) :
               \/ insertTuple(t, rid, tuple)
               \/ insertTupleCut(t, rid, tuple)
               \/ \E at \in Rids : \/ updateTuple(t, rid, tuple, at)
                                  \/ updateTupleCut(t, rid, tuple, at)
    BY <1>2 DEF TupleCalls
  <2>2. CASE deleteTuple(t, rid)
    BY <2>2, DeleteMaps DEF Store!Next
  <2>3. CASE withdrawCut(t, rid)
    BY <2>3, CatalogStays, NothingMaps DEF withdrawCut
  <2>4. ASSUME NEW tuple, insertTuple(t, rid, tuple) \/ insertTupleCut(t, rid, tuple)
        PROVE  Store!Next
    <3>1. \E A : Insert(t, rid, tuple, A)
      BY <2>4 DEF insertTuple, insertTupleCut
    <3> QED
      BY <3>1, InsertMaps DEF Store!Next
  <2>5. ASSUME NEW tuple, NEW at, updateTuple(t, rid, tuple, at) \/ updateTupleCut(t, rid, tuple, at)
        PROVE  Store!Next
    <3>1. \E A : Update(t, rid, tuple, at, A)
      BY <2>5 DEF updateTuple, updateTupleCut
    <3> QED
      BY <3>1, UpdateMaps DEF Store!Next
  <2> QED
    BY <2>1, <2>2, <2>3, <2>4, <2>5
<1>3. ASSUME NEW t \in TableNames, NEW a \in AttrNames, createIndex(t, a), fillIndex(t, a)
      PROVE  UNCHANGED Stored
  <2>1. /\ disk'.tables = disk.tables /\ disk'.columns = disk.columns
        /\ disk'.files = disk.files \cup {IndexFile[<<t, a>>]}
        /\ UNCHANGED heaps /\ HasCatalog
    BY <1>3 DEF createIndex, Created, fillIndex
  <2>2. IndexFile[<<t, a>>] \notin TableNames
    BY DEF IndexFiles, DistinctFiles
  <2>3. \A u \in TableNames : Opens(u)' = Opens(u) /\ Attrs(u)' = Attrs(u)
    BY <2>1, <2>2 DEF Opens, HasCatalog, Listed, RowsOf, Attrs
  <2> QED
    BY <2>1, <2>3, NothingMaps
<1>4. CASE UNCHANGED rvars
  <2>1. UNCHANGED vars /\ UNCHANGED heaps
    BY <1>4 DEF rvars, vars
  <2> QED
    BY <2>1, CatalogStays, NothingMaps
<1> QED
  BY <1>1, <1>2, <1>3, <1>4 DEF RNext

\* For any client the relation manager implements the abstract tables: whatever calls on the catalog or
\* on tuples are cut short, a table starts empty with its attributes, a call on a tuple
\* changes that tuple of that table and no other, and tuples leave only with their tables.
THEOREM RelationRefines ==
  ASSUME DistinctFiles
  PROVE  RSpec => ImplementsTables
<1>1. RInit => Store!Init
  <2> SUFFICES ASSUME RInit
               PROVE  Stored = << >>
    BY DEF Store!Init, Stored
  <2>1. \A t : ~Opens(t)
    BY DEF RInit, Init, Opens, Listed, RowsOf
  <2>2. DOMAIN Stored = {} /\ Stored = [t \in DOMAIN Stored |-> Stored[t]]
    BY <2>1 DEF Stored
  <2> QED
    BY <2>2
<1>2. TablesInv /\ [RNext]_rvars => [Store!Next]_Stored
  BY StepMaps
<1>3. Store!Spec <=> Store!Init /\ [][Store!Next]_Stored
  BY PTL DEF Store!Spec, Stored
<1> QED
  BY <1>1, <1>2, <1>3, TablesInvariant, PTL DEF RSpec, ImplementsTables
=============================================================================
