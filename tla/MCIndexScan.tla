---------------------------- MODULE MCIndexScan -----------------------------
(***************************************************************************)
(* Runs of IndexScan from trees of three levels.  A client makes at most   *)
(* MaxCalls calls that change the index of its own accord; the deletes of  *)
(* a deleting scan are not counted.                                        *)
(***************************************************************************)
EXTENDS IndexScan, BTreeBuilt

CONSTANTS MaxKey,       \* the largest key
          MaxCalls      \* bound on the calls that change the index

VARIABLE calls

MCKeys == 1..MaxKey

MCInit == BuiltInit(MaxKey) /\ NoScan /\ calls = 0

Count == /\ calls' = IF nodes' # nodes /\ Pending = {} THEN calls + 1 ELSE calls
         /\ calls' <= MaxCalls

mcVars == <<allVars, calls>>

\* After a scan that has changed nothing, a call does what it would have done instead
\* of the scan.
Changed == deleting \/ (range = Everything /\ returned = << >>)

MCPull == Pull /\ Count
MCNext == (iter.on \/ Changed) /\ ScanNext /\ Count

MCRange == MCInit /\ [][RangeNext /\ Count]_mcVars
=============================================================================
