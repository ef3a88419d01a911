---------------------------- MODULE MCRecordFile ----------------------------
(* Small instances of RecordFile: pages of a few records, three sizes, the least of
   them a tombstone's or, with SmallSize, less. *)
EXTENDS RecordFile, TLC

CONSTANTS a, b, c,      \* record values
          MaxPages      \* bound on the length of the file

MCRecords == {a, b, c}
MCSize    == (a :> 9) @@ (b :> 13) @@ (c :> 22)
SmallSize == (a :> 6) @@ (b :> 13) @@ (c :> 22)
NoAlias   == [r \in Records |-> NoRid]

Bounded == Len(pages) <= MaxPages

MCSpec  == Init /\ [][Next /\ Bounded']_vars
MCHome  == Init /\ [][HomeNext /\ Bounded']_vars
=============================================================================
