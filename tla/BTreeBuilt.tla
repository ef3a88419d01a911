----------------------------- MODULE BTreeBuilt -----------------------------
(***************************************************************************)
(* Indexes to start a run from: what one client has built by inserting the *)
(* keys 1..n into an empty index, in ascending or descending order from    *)
(* each first key.  With pages of two entries or two separators, six keys  *)
(* make a tree of three levels.                                            *)
(***************************************************************************)
EXTENDS BTree

FixedLen == [k \in Keys |-> 4]

FirstRid == CHOOSE r \in Rids : TRUE

\* The entries with another RID: the second and later ones of a key, mostly.
Twins == Cardinality({e \in Contents(Root) : e.rid # FirstRid})

Orders(n) == {[i \in 1..n |-> 1 + ((d * i + c) % n)] : d \in {1, n - 1}, c \in 1..n}

Built(ks) ==
  FoldLeft(LAMBDA t, k : InsertEntry(t, [key |-> k, rid |-> FirstRid]),
           [nodes |-> << >>, root |-> 0, count |-> 1], ks)

BuiltInit(n) ==
  /\ \E t \in {Built(ks) : ks \in Orders(n)} :
       /\ nodes = t.nodes
       /\ handles = [h \in Handles |-> [open |-> TRUE, root |-> t.root, count |-> t.count]]
  /\ hidden = 0
=============================================================================
