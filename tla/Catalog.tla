------------------------------ MODULE Catalog ------------------------------
(***************************************************************************)
(* The catalog of the relation manager (rm.cc): the tables Tables and      *)
(* Columns, stored in record files of the same names, and the files they   *)
(* speak of: one per table, one per index.  Nothing is logged, so a call   *)
(* cut short by the death of the process leaves the writes it has made.    *)
(*                                                                         *)
(* A row of Tables is an id and a name (the file has the name of its       *)
(* table), a row of Columns the id of its table and the name of an         *)
(* attribute.  Equal rows of Columns may be there several times: a cut     *)
(* deletion leaves rows behind, and the next table may get their id.  The  *)
(* order of attributes, their types, and the rows of Columns that describe *)
(* the catalog itself are left out.  Reads and writes of files that exist  *)
(* succeed.                                                                *)
(***************************************************************************)
EXTENDS Integers, FiniteSets, Bags, Maps

CONSTANTS
  TableNames,   \* names of the tables clients create
  AttrNames,    \* names of attributes
  IndexFile     \* IndexFile[<<t, a>>]: the name t_a.idx

CatalogFiles == {"Tables", "Columns"}
IndexFiles   == {IndexFile[ta] : ta \in TableNames \X AttrNames}
FileNames    == CatalogFiles \cup TableNames \cup IndexFiles

ASSUME NamesAssumption ==
  /\ IndexFile \in [TableNames \X AttrNames -> IndexFiles]
  /\ CatalogFiles \cap (TableNames \cup IndexFiles) = {}
  /\ \A t \in TableNames, a, b \in AttrNames : IndexFile[<<t, a>>] = IndexFile[<<t, b>>] => a = b

VARIABLES
  disk,         \* the files that exist, the rows of Tables, the bag of rows of Columns
  cut           \* history: the calls that have been cut short by a crash

vars == <<disk, cut>>

TableRow  == [id : Nat, name : TableNames \cup CatalogFiles]
ColumnRow == [id : Nat, name : AttrNames]
Calls     == {"createCatalog", "deleteCatalog", "createTable", "deleteTable", "createIndex"}

CatalogRows == {[id |-> 1, name |-> "Tables"], [id |-> 2, name |-> "Columns"]}

TypeOK ==
  /\ disk = [files |-> disk.files, tables |-> disk.tables, columns |-> disk.columns]
  /\ disk.files \subseteq FileNames
  /\ disk.tables \subseteq TableRow
  /\ IsABag(disk.columns) /\ BagToSet(disk.columns) \subseteq ColumnRow
  /\ cut \subseteq Calls

-----------------------------------------------------------------------------
(* What the calls read. *)

HasCatalog == CatalogFiles \subseteq disk.files

RowsOf(t)    == {r \in disk.tables : r.name = t}
Listed(t)    == RowsOf(t) # {}

\* The attributes getAttributes finds under the id of the table's row.
Attrs(t) == {a \in AttrNames :
               \E r \in RowsOf(t) : BagIn([id |-> r.id, name |-> a], disk.columns)}

Copies(x, B) == IF BagIn(x, B) THEN B[x] ELSE 0

\* How often it lists an attribute: once for every row.
Listings(t, a) ==
  LET r == CHOOSE r \in RowsOf(t) : TRUE
  IN  Copies([id |-> r.id, name |-> a], disk.columns)

\* The attributes with an index, as often as they are listed: those for which a file
\* of its name exists.
indexedAttrs(t) ==
  [a \in {a \in Attrs(t) : IndexFile[<<t, a>>] \in disk.files} |-> Listings(t, a)]

\* Some of the elements of bag B, or all.
SomeOf(B) ==
  {P \in UNION {[D -> UNION {1..B[x] : x \in D}] : D \in SUBSET BagToSet(B)} :
     P \sqsubseteq B}

\* Mutant: the number of rows is taken for the highest id.
NextIds_Count == {Cardinality(disk.tables) + 1}

\* One more than the highest id in Tables.
NextIds ==
  IF disk.tables = {} THEN {1}
  ELSE {r.id + 1 : r \in {r \in disk.tables : \A s \in disk.tables : s.id <= r.id}}

\* d after the files in F, and what is in them, have been removed.
Without(d, F) ==
  [files   |-> d.files \ F,
   tables  |-> IF "Tables" \in F THEN {} ELSE d.tables,
   columns |-> IF "Columns" \in F THEN EmptyBag ELSE d.columns]

\* A call writes all it has to write, or is cut short.
Write(call, done, torn) ==
  \/ disk' = done /\ UNCHANGED cut
  \/ disk' \in torn /\ cut' = cut \cup {call}

-----------------------------------------------------------------------------
(* The calls.  One that returns an error and writes nothing is not enabled. *)

Init ==
  /\ disk = [files |-> {}, tables |-> {}, columns |-> EmptyBag]
  /\ cut = {}

\* More files, and the rows of Tables.
Created(files, rows) ==
  [files |-> disk.files \cup files, tables |-> rows, columns |-> disk.columns]

\* Mutant: Columns is created first.
createCatalog_ColumnsFirst ==
  /\ disk.files \cap CatalogFiles = {}
  /\ Write("createCatalog", Created(CatalogFiles, CatalogRows), {Created({"Columns"}, {})})

\* If Columns exists already, Tables is removed again.
createCatalog ==
  /\ "Tables" \notin disk.files
  /\ IF "Columns" \in disk.files
     THEN Write("createCatalog", disk, {Created({"Tables"}, {})})
     ELSE Write("createCatalog", Created(CatalogFiles, CatalogRows),
                {Created({"Tables"}, {}), Created(CatalogFiles, {}),
                 Created(CatalogFiles, {[id |-> 1, name |-> "Tables"]})})

\* The rows of Tables come back in the order of their slots, the catalog's own
\* first; without them Tables and Columns are removed last, in this order.
RemovedBy(f) ==
  CASE f = "Tables"  -> IF Listed(f) THEN 1 ELSE 4
    [] f = "Columns" -> IF Listed(f) THEN 2 ELSE 5
    [] OTHER         -> 3

deleteCatalog ==
  LET doomed == CatalogFiles \cup {r.name : r \in disk.tables}
      sofar  == {F \in SUBSET doomed :
                   \A f \in F, g \in doomed \ F : RemovedBy(f) <= RemovedBy(g)}
  IN  /\ "Tables" \in disk.files
      /\ Write("deleteCatalog", Without(disk, doomed), {Without(disk, F) : F \in sofar})

\* Table t under number id, with the attributes in `as'.
Described(t, id, as) ==
  [files   |-> disk.files \cup {t},
   tables  |-> disk.tables \cup {[id |-> id, name |-> t]},
   columns |-> disk.columns (+) SetToBag({[id |-> id, name |-> a] : a \in as})]

createTable(t, attrs) ==
  /\ HasCatalog
  /\ ~Listed(t)
  /\ t \notin disk.files
  /\ \E id \in NextIds :
       Write("createTable", Described(t, id, attrs),
             {Created({t}, disk.tables)}
               \cup {Described(t, id, as) : as \in SUBSET attrs})

\* The rows of Columns under an id.
ColumnsOf(id) == Restrict(disk.columns, {c \in BagToSet(disk.columns) : c.id = id})

\* Row r of Tables and the rows R of Columns deleted.
Struck(r, R) ==
  [files |-> disk.files, tables |-> disk.tables \ {r}, columns |-> disk.columns (-) R]

\* Mutant: the attributes are looked up after their rows are gone.
deleteTable_LateAttributes(t) ==
  /\ HasCatalog
  /\ \E r \in RowsOf(t) :
       Write("deleteTable", Without(Struck(r, ColumnsOf(r.id)), {t}), {})

deleteTable(t) ==
  /\ HasCatalog
  /\ \E r \in RowsOf(t) :
       LET rows    == ColumnsOf(r.id)
           indexes == {IndexFile[<<t, a>>] : a \in Attrs(t)}
       IN  Write("deleteTable", Without(Struck(r, rows), indexes \cup {t}),
                 {Struck(r, R) : R \in SomeOf(rows)}
                   \cup {Without(Struck(r, rows), F) : F \in SUBSET indexes})

\* The file of an index; the entries come with module RelationManager.  Without the
\* table's file the index's is removed again.
createIndex(t, a) ==
  /\ HasCatalog
  /\ a \in Attrs(t)
  /\ IndexFile[<<t, a>>] \notin disk.files
  /\ t \in disk.files
  /\ disk' = Created({IndexFile[<<t, a>>]}, disk.tables)
  /\ UNCHANGED cut

createIndexCut(t, a) ==
  /\ HasCatalog
  /\ a \in Attrs(t)
  /\ IndexFile[<<t, a>>] \notin disk.files
  /\ disk' = Created({IndexFile[<<t, a>>]}, disk.tables)
  /\ cut' = cut \cup {"createIndex"}

\* The catalog is not consulted.
destroyIndex(t, a) ==
  /\ IndexFile[<<t, a>>] \in disk.files
  /\ disk' = Without(disk, {IndexFile[<<t, a>>]})
  /\ UNCHANGED cut

-----------------------------------------------------------------------------
(* The client destroys the indexes before the catalog: deleteCatalog does    *)
(* not, and the next table of the same name would find them.                 *)

CatalogCalls ==
  \/ createCatalog
  \/ deleteCatalog /\ IndexFiles \cap disk.files = {}
  \/ \E t \in TableNames, attrs \in SUBSET AttrNames \ {{}} : createTable(t, attrs)
  \/ \E t \in TableNames : deleteTable(t)
  \/ \E t \in TableNames, a \in AttrNames : createIndexCut(t, a) \/ destroyIndex(t, a)

Next == CatalogCalls \/ \E t \in TableNames, a \in AttrNames : createIndex(t, a)

Spec == Init /\ [][Next]_vars

-----------------------------------------------------------------------------
(* Properties. *)

\* Distinct tables and indexes have distinct files.  The code does not see to it:
\* attribute b_c of table a and attribute c of table a_b share a_b_c.idx.
DistinctFiles ==
  /\ TableNames \cap IndexFiles = {}
  /\ \A x, y \in TableNames \X AttrNames : IndexFile[x] = IndexFile[y] => x = y

RowsUnique == \A r, s \in disk.tables : r.id = s.id \/ r.name = s.name => r = s

\* Ids and names are unique in Tables, and in a catalog that lists itself every
\* table has its file, after any crashes: createTable makes the file before the
\* row, deleteTable and deleteCatalog remove the row before the file.
CatalogSound ==
  /\ RowsUnique
  /\ Listed("Tables") => \A r \in disk.tables : r.name \in disk.files

\* If no deletion has been cut short, every row of Columns and every index file
\* belongs to a table that is listed, and no row is there twice: a new table does not
\* inherit attributes under a reused id, nor an index under a reused name.
NothingStray ==
  cut \cap {"deleteTable", "deleteCatalog"} = {} =>
    /\ \A c \in BagToSet(disk.columns) :
         /\ disk.columns[c] = 1
         /\ \E r \in disk.tables : r.id = c.id
    /\ \A f \in IndexFiles \cap disk.files :
         \E t \in TableNames : \E a \in Attrs(t) : f = IndexFile[<<t, a>>]

\* Unless deleteCatalog has been cut short, whatever part of a catalog is there can
\* be removed by deleteCatalog ("in case catalog is incomplete") and created anew:
\* there is never Columns without Tables.
CatalogDeletable ==
  "deleteCatalog" \in cut \/ "Columns" \notin disk.files \/ "Tables" \in disk.files
=============================================================================
