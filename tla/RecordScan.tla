----------------------------- MODULE RecordScan -----------------------------
(***************************************************************************)
(* A scan of a record file (RBFM_ScanIterator) interleaved with the other  *)
(* calls of its client.  The iterator keeps a cursor, not a snapshot: each *)
(* getNextRecord reads the page under the cursor afresh, skips deleted     *)
(* slots, tombstones and records that fail the condition, and returns the  *)
(* slot where it found the record.                                         *)
(***************************************************************************)
EXTENDS RecordFile

CONSTANT Matching       \* the records that satisfy the scan condition

VARIABLES
  cursor,       \* <<currentPage, currentSlot>>: the next slot to examine
  scanning,     \* between scan() and the RBFM_EOF that ends it
  returned      \* history: for each home RID that existed when the scan began
                \* and has been left alone since: how often its record has
                \* been returned

scanVars == <<cursor, scanning, returned>>
allVars  == <<pages, pending, cursor, scanning, returned>>

Start == <<1, 1>>

NotBefore(r, q) == r[1] > q[1] \/ (r[1] = q[1] /\ r[2] >= q[2])

\* The slots getNextRecord would return from the cursor on.
Ahead == {r \in Scanned : NotBefore(r, cursor) /\ SlotAt(r).rec \in Matching}

\* Mutant: the cursor stays on the slot just returned.
After_Stuck(r) == r

\* The cursor once the record at r has been returned.
After(r) == <<r[1], r[2] + 1>>

ScanInit == /\ Init
            /\ cursor = Start
            /\ scanning = FALSE
            /\ returned = << >>

scan == /\ pending = NoRid
        /\ cursor' = Start
        /\ scanning' = TRUE
        /\ returned' = [h \in HomeRids |-> 0]
        /\ UNCHANGED vars

getNextRecord ==
  /\ scanning
  /\ pending = NoRid
  /\ \/ \E r \in Ahead :
          /\ \A q \in Ahead : NotBefore(q, r)
          /\ cursor' = After(r)
          /\ returned' = [h \in DOMAIN returned |->
                             IF Target(h) = r THEN returned[h] + 1 ELSE returned[h]]
          /\ UNCHANGED scanning
     \/ /\ Ahead = {}
        /\ cursor' = <<Len(pages) + 1, 1>>
        /\ scanning' = FALSE
        /\ UNCHANGED returned
  /\ UNCHANGED vars

\* The other calls of a client that uses its home RIDs.
Touches(rid) == /\ returned' = Restrict(returned, DOMAIN returned \ {rid})
                  /\ UNCHANGED <<cursor, scanning>>

Insert == /\ \E rec \in Records : ~ShortOfRoom(rec) /\ insertRecord(rec)
          /\ UNCHANGED scanVars

Delete == \/ \E rid \in HomeRids :
               /\ deleteRecord(rid)
               /\ Touches(rid)
          \/ DeleteForwarded /\ UNCHANGED scanVars

Update == \E rid \in HomeRids, rec \in Records :
            /\ ~IsTombstone(rid)
            /\ ~OnOwnPage(rid, rec)
            /\ updateRecord(rid, rec)
            /\ Touches(rid)

ScanNext == scan \/ getNextRecord \/ Insert \/ Delete \/ Update

ScanSpec == ScanInit /\ [][ScanNext]_allVars

-----------------------------------------------------------------------------
(* Properties. *)

Ended == ~scanning /\ cursor # Start

Matches(h) == readRecord(h) \in Matching

\* However inserts, deletes and updates of other records compact, fill and
\* extend the pages between two calls, a record that is left alone is never
\* returned twice, and it has been returned when the scan ends, provided it
\* meets the condition.
ScanExact ==
  \A h \in DOMAIN returned :
     /\ returned[h] <= 1
     /\ Ended /\ Matches(h) => returned[h] = 1
=============================================================================
