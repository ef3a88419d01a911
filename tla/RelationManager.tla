-------------------------- MODULE RelationManager --------------------------
(***************************************************************************)
(* The relation manager (rm.cc): tables of tuples, kept in record files,   *)
(* and indexes on their attributes, kept in B+ trees.                      *)
(*                                                                         *)
(* A record file is abstracted to what lies at its RIDs: records, and the  *)
(* tombstones that lead to the records that have moved (RecordFile checks  *)
(* that this is what pages and slots amount to, for clients like these).   *)
(* An index file is abstracted to its entries (BTree checks that).  Every  *)
(* call opens and closes its own handles.                                  *)
(***************************************************************************)
EXTENDS Catalog

CONSTANTS
  Rids,         \* the RIDs of a record file
  Keys,         \* the values of attributes
  NULL          \* the null value, which indexes leave out

VARIABLES
  heaps,        \* heaps[t]: the records and the tombstones in the file of table t
  entries,      \* entries[f]: the entries in index file f
  torn          \* history: whether a call on a tuple has been cut short

rvars == <<disk, cut, heaps, entries, torn>>

Empty == [records |-> << >>, tombstones |-> << >>]

Tuples(attrs) == [attrs -> Keys \cup {NULL}]

\* The entries in key order do not matter here, how often one is there does.
RTypeOK ==
  /\ TypeOK
  /\ \A t \in TableNames :
       /\ DOMAIN heaps[t].records \subseteq Rids
       /\ DOMAIN heaps[t].tombstones \subseteq Rids \ DOMAIN heaps[t].records
       /\ Range(heaps[t].tombstones) \subseteq DOMAIN heaps[t].records
       /\ t \notin disk.files => heaps[t] = Empty
       /\ Listed(t) => Range(heaps[t].records) \subseteq Tuples(Attrs(t))
  /\ \A f \in IndexFiles :
       /\ IsABag(entries[f])
       /\ f \notin disk.files => entries[f] = EmptyBag
       /\ BagToSet(entries[f]) \subseteq [key : Keys, rid : Rids]
  /\ torn \in BOOLEAN

-----------------------------------------------------------------------------
(* Record files. *)

Used(h)        == DOMAIN h.records \cup DOMAIN h.tombstones
Target(h, rid) == IF rid \in DOMAIN h.tombstones THEN h.tombstones[rid] ELSE rid
Read(h, rid)   == h.records[Target(h, rid)]
Moved(h)       == DOMAIN h.tombstones

\* The RIDs insertTuple has returned; the others in use are those of moved copies.
Home(h) == Used(h) \ Range(h.tombstones)

Inserted(h, rid, tuple) == [h EXCEPT !.records = With(@, rid, tuple)]

\* Mutant: the tombstone stays when the copy it leads to goes.
Deleted_CopyOnly(h, rid) ==
  [h EXCEPT !.records = Restrict(@, DOMAIN @ \ {Target(h, rid)})]

\* Mutant: the copy stays when the tombstone goes.
Deleted_TombstoneOnly(h, rid) ==
  [records    |-> Restrict(h.records, DOMAIN h.records \ {rid}),
   tombstones |-> Restrict(h.tombstones, Moved(h) \ {rid})]

Deleted(h, rid) ==
  [records    |-> Restrict(h.records, DOMAIN h.records \ {Target(h, rid)}),
   tombstones |-> Restrict(h.tombstones, Moved(h) \ {rid})]

\* The new record lies at `at': where the old one was, or where it has moved to.
Updated(h, rid, tuple, at) ==
  IF at = rid THEN [h EXCEPT !.records[rid] = tuple]
  ELSE [records    |-> With(Restrict(h.records, DOMAIN h.records \ {rid}), at, tuple),
        tombstones |-> With(h.tombstones, rid, at)]

-----------------------------------------------------------------------------
(* Indexes. *)

Entry(key, rid) == [key |-> key, rid |-> rid]

\* For a tuple of table t, the entries the indexes on the attributes A get: one for
\* every time the attribute is in A.
EntriesFor(t, A, tuple, rid) ==
  [f \in IndexFiles |->
     LET as == {a \in BagToSet(A) : IndexFile[<<t, a>>] = f /\ tuple[a] # NULL}
     IN  [e \in {Entry(tuple[a], rid) : a \in as} |-> A[CHOOSE a \in as : TRUE]]]

Entered(es, new) == [f \in IndexFiles |-> es[f] (+) new[f]]

\* deleteEntry of an entry that is not there is an error, which is ignored.
Removed(es, old) == [f \in IndexFiles |-> es[f] (-) old[f]]

-----------------------------------------------------------------------------
(* The calls. *)

RInit ==
  /\ Init
  /\ heaps   = [t \in TableNames |-> Empty]
  /\ entries = [f \in IndexFiles |-> EmptyBag]
  /\ torn    = FALSE

\* What was in a file goes with the file.
KeepFiles ==
  /\ heaps'   = [t \in TableNames |-> IF t \in disk'.files THEN heaps[t] ELSE Empty]
  /\ entries' = [f \in IndexFiles |-> IF f \in disk'.files THEN entries[f] ELSE EmptyBag]
  /\ UNCHANGED torn

Opens(t) == HasCatalog /\ Listed(t) /\ t \in disk.files

\* The record is inserted, then entered in the indexes on the attributes A.
Insert(t, rid, tuple, A) ==
  /\ Opens(t)
  /\ rid \in Rids \ Used(heaps[t])
  /\ tuple \in Tuples(Attrs(t))
  /\ heaps'   = [heaps EXCEPT ![t] = Inserted(@, rid, tuple)]
  /\ entries' = Entered(entries, EntriesFor(t, A, tuple, rid))
  /\ UNCHANGED vars

insertTuple(t, rid, tuple) == Insert(t, rid, tuple, indexedAttrs(t)) /\ UNCHANGED torn

\* What deleteTuple and updateTuple do first: the entries in the indexes on the
\* attributes A go, while the record is there to read the keys from.
Withdrawn(t, rid, A) == Removed(entries, EntriesFor(t, A, Read(heaps[t], rid), rid))

\* Mutant: the record is deleted first, and there is nothing to read the keys from.
deleteTuple_RecordFirst(t, rid) ==
  /\ Opens(t)
  /\ rid \in Home(heaps[t])
  /\ heaps' = [heaps EXCEPT ![t] = Deleted(@, rid)]
  /\ UNCHANGED <<entries, torn, vars>>

deleteTuple(t, rid) ==
  /\ Opens(t)
  /\ rid \in Home(heaps[t])
  /\ heaps'   = [heaps EXCEPT ![t] = Deleted(@, rid)]
  /\ entries' = Withdrawn(t, rid, indexedAttrs(t))
  /\ UNCHANGED <<torn, vars>>

\* The old entries go, the record is updated, then entered in the indexes on the
\* attributes A.  A tuple that has moved is not updated again: see RecordFile.
Update(t, rid, tuple, at, A) ==
  /\ Opens(t)
  /\ rid \in Home(heaps[t]) \ Moved(heaps[t])
  /\ tuple \in Tuples(Attrs(t))
  /\ at = rid \/ at \in Rids \ Used(heaps[t])
  /\ heaps'   = [heaps EXCEPT ![t] = Updated(@, rid, tuple, at)]
  /\ entries' = Entered(Withdrawn(t, rid, indexedAttrs(t)), EntriesFor(t, A, tuple, rid))
  /\ UNCHANGED vars

updateTuple(t, rid, tuple, at) ==
  Update(t, rid, tuple, at, indexedAttrs(t)) /\ UNCHANGED torn

\* A crash in one of the three calls, between its steps on the record file and on the
\* index files, each of which is whole.
insertTupleCut(t, rid, tuple) ==
  /\ \E A \in SomeOf(indexedAttrs(t)) : A # indexedAttrs(t) /\ Insert(t, rid, tuple, A)
  /\ torn' = TRUE

withdrawCut(t, rid) ==
  /\ Opens(t)
  /\ rid \in Home(heaps[t])
  /\ \E A \in SomeOf(indexedAttrs(t)) : A # EmptyBag /\ entries' = Withdrawn(t, rid, A)
  /\ torn' = TRUE
  /\ UNCHANGED <<heaps, vars>>

updateTupleCut(t, rid, tuple, at) ==
  /\ \E A \in SomeOf(indexedAttrs(t)) : A # indexedAttrs(t) /\ Update(t, rid, tuple, at, A)
  /\ torn' = TRUE

\* The tuples a scan returns, under the RIDs it returns: those the records lie at.
fillIndex(t, a) ==
  LET scanned == {rid \in DOMAIN heaps[t].records : heaps[t].records[rid][a] # NULL}
  IN  /\ UNCHANGED <<heaps, torn>>
      /\ entries' = [entries EXCEPT ![IndexFile[<<t, a>>]] =
                       SetToBag({Entry(heaps[t].records[rid][a], rid) : rid \in scanned})]

TupleCalls ==
  \E t \in TableNames, rid \in Rids :
    \/ deleteTuple(t, rid)
    \/ withdrawCut(t, rid)
    \/ \E tuple \in Tuples(Attrs(t)) :
         \/ insertTuple(t, rid, tuple)
         \/ insertTupleCut(t, rid, tuple)
         \/ \E at \in Rids : \/ updateTuple(t, rid, tuple, at)
                            \/ updateTupleCut(t, rid, tuple, at)

\* Any indexes at any time.
RNext ==
  \/ CatalogCalls /\ KeepFiles
  \/ TupleCalls
  \/ \E t \in TableNames, a \in AttrNames : createIndex(t, a) /\ fillIndex(t, a)

RSpec == RInit /\ [][RNext]_rvars

\* No index is created on a table some of whose tuples have moved.
CarefulNext ==
  \/ CatalogCalls /\ KeepFiles
  \/ TupleCalls
  \/ \E t \in TableNames, a \in AttrNames :
       Moved(heaps[t]) = {} /\ createIndex(t, a) /\ fillIndex(t, a)

CarefulSpec == RInit /\ [][CarefulNext]_rvars

-----------------------------------------------------------------------------
(* Properties. *)

Tuple(t) == [rid \in Home(heaps[t]) |-> Read(heaps[t], rid)]

\* Whatever is in an index of a table is the entry of a tuple, under the RID insertTuple
\* returned and the value the tuple has, no more often than the catalog lists the
\* attribute, also after crashes in the middle of calls; and while no call that maintains
\* the index is cut short it misses none: through updates, moves, reused RIDs, and tables
\* and indexes deleted and created again.
IndexesMatch ==
  \A t \in TableNames : \A a \in BagToSet(indexedAttrs(t)) :
    LET index == entries[IndexFile[<<t, a>>]]
        due   == {Entry(Tuple(t)[rid][a], rid) :
                    rid \in {rid \in Home(heaps[t]) : Tuple(t)[rid][a] # NULL}}
    IN  /\ BagToSet(index) \subseteq due
        /\ \A e \in due : Copies(e, index) <= Listings(t, a)
        /\ "createIndex" \notin cut /\ ~torn => due \subseteq BagToSet(index)

\* An index leads to tuples with its keys: deleteTuple removes the tuple "from any
\* existing indexes before the record is gone" (rm.cc:392).
EntriesLead ==
  \A t \in TableNames : \A a \in BagToSet(indexedAttrs(t)) :
    \A e \in BagToSet(entries[IndexFile[<<t, a>>]]) :
      e.rid \in Used(heaps[t]) /\ Read(heaps[t], e.rid)[a] = e.key

\* The relation manager implements the abstract tables, also when calls that
\* change the catalog are cut short.
Store == INSTANCE TableStore WITH
           Attributes <- SUBSET AttrNames,
           store <- [t \in {t \in TableNames : Opens(t)} |->
                       [attrs |-> Attrs(t), tuples |-> Tuple(t)]]

ImplementsTables == Store!Spec
=============================================================================
