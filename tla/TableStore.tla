----------------------------- MODULE TableStore -----------------------------
(***************************************************************************)
(* What the relation manager promises its clients: named tables, each with *)
(* fixed attributes and a map from RIDs to tuples.  A table starts empty,  *)
(* an operation on a tuple changes that tuple and nothing else, and tuples *)
(* leave otherwise only with their tables.                                 *)
(***************************************************************************)
EXTENDS Maps

CONSTANTS Attributes    \* the sets of attributes a table may have

VARIABLE store          \* name -> [attrs, tuples], for the tables there are

Init == store = << >>

Create == \E t \in DOMAIN store' \ DOMAIN store, attrs \in Attributes :
             store' = With(store, t, [attrs |-> attrs, tuples |-> << >>])

Drop == DOMAIN store' \subseteq DOMAIN store /\ store' = Restrict(store, DOMAIN store')

\* One tuple inserted, deleted or replaced.
Change ==
  \E t \in DOMAIN store \cap DOMAIN store' :
    LET old == store[t].tuples
        new == store'[t].tuples
    IN  /\ store' = [store EXCEPT ![t].tuples = new]
        /\ \/ \E rid \in DOMAIN new \ DOMAIN old : new = With(old, rid, new[rid])
           \/ \E rid \in DOMAIN old \ DOMAIN new : DOMAIN old = DOMAIN new \cup {rid}
                                                   /\ new = Restrict(old, DOMAIN new)
           \/ \E rid \in DOMAIN old \cap DOMAIN new : new = [old EXCEPT ![rid] = new[rid]]

Next == Drop \/ Change \/ Create

Spec == Init /\ [][Next]_store
=============================================================================
