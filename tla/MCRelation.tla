----------------------------- MODULE MCRelation -----------------------------
(* Bounds for TLC: ids of tables, how often a row may be in Columns, how many kinds of
   calls are cut short, those on tuples being one, and how many RIDs are in use in all
   tables. *)
EXTENDS RelationManager, Sequences, TLC

CONSTANTS MaxId, MaxCopies, MaxCut, MaxUsed

IndexNames ==
  [ta \in TableNames \X AttrNames |-> ta[1] \o "_" \o ta[2] \o ".idx"]

\* Nothing tells RIDs apart, nor keys.
Symmetry == Permutations(Rids) \cup Permutations(Keys)

ASSUME DistinctFiles

Bound == /\ \A r \in disk.tables : r.id <= MaxId
         /\ \A c \in BagToSet(disk.columns) : disk.columns[c] <= MaxCopies
         /\ Cardinality(cut) + (IF torn THEN 1 ELSE 0) <= MaxCut
         /\ Cardinality({x \in TableNames \X Rids : x[2] \in Used(heaps[x[1]])}) <= MaxUsed
=============================================================================
