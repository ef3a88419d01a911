----------------------------- MODULE IndexStore -----------------------------
(***************************************************************************)
(* What an index promises its clients: a set of entries, to which          *)
(* insertEntry adds one and from which deleteEntry removes the one it was  *)
(* given and no other.                                                     *)
(***************************************************************************)
CONSTANT Entries       \* the entries clients may insert
VARIABLE entries       \* the entries in the index

\* The file of an index may exist already.
Init == entries \subseteq Entries

Insert == \E e \in entries' \ entries : e \in Entries /\ entries' = entries \cup {e}

Delete == \E e \in entries \ entries' : entries' = entries \ {e}

Next == Insert \/ Delete

Spec == Init /\ [][Next]_entries
=============================================================================
