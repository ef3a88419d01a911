---------------------------- MODULE MCRecordScan ----------------------------
(***************************************************************************)
(* Small instances of RecordScan: two pages, three sizes.  A client whose  *)
(* scan has ended begins another before its next call.                     *)
(***************************************************************************)
EXTENDS RecordScan, TLC

CONSTANTS a, b, c,      \* record values
          MaxPages      \* bound on the length of the file

MCRecords  == {a, b, c}
MCMatching == {c}
MCSize     == (a :> 9) @@ (b :> 13) @@ (c :> 22)
NoAlias    == [r \in Records |-> NoRid]

Bounded == Len(pages) <= MaxPages

MCScanSpec == ScanInit /\ [][(Ended => scan) /\ ScanNext /\ Bounded']_allVars
=============================================================================
