------------------------------- MODULE MCFiles ------------------------------
(***************************************************************************)
(* The two layers of files, one at a time: the paged file of MCPagedFile,  *)
(* or the record file of MCRecordFile with pages of a few records, one of  *)
(* them shorter than a tombstone, whose clients insert none of those where *)
(* it is short of room.                                                    *)
(***************************************************************************)
EXTENDS MCPagedFile, MCRecordFile

VARIABLE layer      \* the layer that runs

filesVars == <<layer, mcVars, vars>>

FilesInit == layer \in {"pages", "records"} /\ MCInit /\ Init

FilesNext ==
  /\ UNCHANGED layer
  /\ \/ layer = "pages" /\ MCNext /\ FilesBounded' /\ UNCHANGED vars
     \/ layer = "records" /\ RoomyNext /\ Bounded' /\ UNCHANGED mcVars

FilesSpec == FilesInit /\ [][FilesNext]_filesVars
=============================================================================
