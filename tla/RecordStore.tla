---------------------------- MODULE RecordStore ----------------------------
(***************************************************************************)
(* What a record file promises its clients: a partial map from record      *)
(* identifiers to records.  insertRecord picks an identifier that is not   *)
(* in use, the identifier survives updates, deleteRecord forgets it, and   *)
(* no operation touches the record of any other identifier.                *)
(***************************************************************************)
EXTENDS Maps

CONSTANT Records        \* the record values a client may store

VARIABLE store          \* identifier -> record, for the identifiers in use

Init == store = << >>

Insert == \E rid \in DOMAIN store' \ DOMAIN store, rec \in Records :
             store' = With(store, rid, rec)

Delete == \E rid \in DOMAIN store \ DOMAIN store' :
             store' = Restrict(store, DOMAIN store \ {rid})

Update == \E rid \in DOMAIN store, rec \in Records :
             store' = [store EXCEPT ![rid] = rec]

Next == Insert \/ Delete \/ Update

Spec == Init /\ [][Next]_store
=============================================================================
