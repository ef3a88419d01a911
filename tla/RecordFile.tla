----------------------------- MODULE RecordFile -----------------------------
(***************************************************************************)
(* The record-based file manager (rbfm.cc): heap pages with a slot         *)
(* directory growing from the end of the page towards the records growing  *)
(* from its start, deletion by compaction, and records that outgrow their  *)
(* page replaced by a tombstone that holds the RID of the moved copy.      *)
(*                                                                         *)
(* Pages and slots are numbered from 1 (the code's page 0, slot 0).  The   *)
(* bytes of a record are abstracted to the record itself, attached to the  *)
(* slot that points at them: that is what the bytes hold as long as the    *)
(* extents of the live slots are disjoint and below the directory, the     *)
(* invariant Layout below.                                                 *)
(***************************************************************************)
EXTENDS Integers, Sequences, FiniteSets, Functions

CONSTANTS
  PAGE_SIZE,    \* bytes in a page
  Records,      \* record values, in the internal byte-array format
  NoRecord,     \* the content of a slot that holds no record
  Size,         \* Size[r]: outputSize of dataToByteArray for record r
  ReadsAs       \* ReadsAs[r]: NoRid, or the RID that bytes 1..8 of r spell
                \* when byte 0 of r happens to equal TOMBSTONE_FLAG

SLOT_SIZE        == 4
PAGE_METADATA    == 4
TOMBSTONE_LENGTH == 9
DELETED          == 65535       \* the offset 0xFFFF of a deleted slot

Rid   == Nat \X Nat             \* <<page, slot>>
NoRid == <<0, 0>>

ASSUME PageAssumption ==
  PAGE_SIZE \in Nat /\ PAGE_SIZE < DELETED
    /\ TOMBSTONE_LENGTH + SLOT_SIZE + PAGE_METADATA <= PAGE_SIZE

ASSUME RecordAssumption ==
  /\ NoRecord \notin Records
  /\ Size \in [Records -> Nat \ {0}]
  /\ \A r \in Records : Size[r] + SLOT_SIZE + PAGE_METADATA <= PAGE_SIZE
  /\ ReadsAs \in [Records -> Rid]

VARIABLES
  pages,        \* the data pages of the file
  pending       \* the RID deleteRecord must still delete recursively, or NoRid

vars == <<pages, pending>>

-----------------------------------------------------------------------------
(* Pages. *)

Slot == [off : Nat, len : Nat, rec : Records \cup {NoRecord}, fwd : Rid]
Page == [slots : Seq(Slot), fso : Nat]

DeletedSlot == [off |-> DELETED, len |-> 0, rec |-> NoRecord, fwd |-> NoRid]
EmptyPage   == [slots |-> << >>, fso |-> 0]

Live(pg)  == {i \in DOMAIN pg.slots : pg.slots[i].off # DELETED}
Freed(pg) == DOMAIN pg.slots \ Live(pg)

\* Mutant: the slot a new record needs is not counted.
checkFreeSpace_NoSlot(pg) ==
  LET free == PAGE_SIZE - PAGE_METADATA - Len(pg.slots) * SLOT_SIZE - pg.fso
  IN  IF free < 0 THEN 0 ELSE free

\* Bytes left for data once one more slot is added; 0 when negative.
checkFreeSpace(pg) ==
  LET free == PAGE_SIZE - PAGE_METADATA - Len(pg.slots) * SLOT_SIZE
                - pg.fso - SLOT_SIZE
  IN  IF free < 0 THEN 0 ELSE free

\* Mutant: the record right behind the gap keeps its offset.
Shifts_OffByOne(slot, start, size) == slot.off # DELETED /\ slot.off > start + size

\* The slots compactPage moves when it closes the gap of `size' bytes at `start'.
Shifts(slot, start, size) == slot.off # DELETED /\ slot.off > start

compactPage(pg, start, size) ==
  [slots |-> [i \in DOMAIN pg.slots |->
                IF Shifts(pg.slots[i], start, size)
                THEN [pg.slots[i] EXCEPT !.off = @ - size]
                ELSE pg.slots[i]],
   fso   |-> pg.fso - size]

\* A slot whose record is `rec'; its first byte may look like a tombstone's.
RecordSlot(off, len, rec) ==
  [off |-> off, len |-> len, rec |-> rec, fwd |-> ReadsAs[rec]]

\* Mutant: the number of slots is stored instead of the slot's number.
TombstoneSlot_SlotCount(off, to) ==
  [off |-> off, len |-> TOMBSTONE_LENGTH, rec |-> NoRecord, fwd |-> <<to[1], to[2] + 1>>]

\* Mutant: the page number is stored, the slot number is lost.
TombstoneSlot_PageOnly(off, to) ==
  [off |-> off, len |-> TOMBSTONE_LENGTH, rec |-> NoRecord, fwd |-> <<to[1], 1>>]

TombstoneSlot(off, to) ==
  [off |-> off, len |-> TOMBSTONE_LENGTH, rec |-> NoRecord, fwd |-> to]

SetSlot(pg, s, slot) == [pg EXCEPT !.slots[s] = slot]

-----------------------------------------------------------------------------
(* insertRecord: where the record goes. *)

FitsLast(sz) == pages # << >> /\ checkFreeSpace(pages[Len(pages)]) >= sz + SLOT_SIZE
Roomy(sz)    == {q \in 1..Len(pages) - 1 : checkFreeSpace(pages[q]) >= sz}

\* The last page, else the first page with room, else a page appended to the file.
IsInsertPage(sz, p) ==
  \/ FitsLast(sz) /\ p = Len(pages)
  \/ ~FitsLast(sz) /\ p \in Roomy(sz) /\ \A q \in Roomy(sz) : p <= q
  \/ ~FitsLast(sz) /\ Roomy(sz) = {} /\ p = Len(pages) + 1

\* Mutant: the last slot is taken for the one after it.
IsInsertSlot_OffByOne(pg, s) ==
  \/ s \in Freed(pg) /\ \A t \in Freed(pg) : s <= t
  \/ Freed(pg) = {} /\ s = IF pg.slots = << >> THEN 1 ELSE Len(pg.slots)

\* The first deleted slot, else a new slot at the end of the directory.
IsInsertSlot(pg, s) ==
  \/ s \in Freed(pg) /\ \A t \in Freed(pg) : s <= t
  \/ Freed(pg) = {} /\ s = Len(pg.slots) + 1

AllocSize(sz) == IF sz < TOMBSTONE_LENGTH THEN TOMBSTONE_LENGTH ELSE sz

\* A reused slot gets the record's own size, a new one at least a tombstone's.
PutRecord(pg, s, rec) ==
  IF s \in DOMAIN pg.slots
  THEN [slots |-> [pg.slots EXCEPT ![s] = RecordSlot(pg.fso, Size[rec], rec)],
        fso   |-> pg.fso + Size[rec]]
  ELSE [slots |-> Append(pg.slots, RecordSlot(pg.fso, AllocSize(Size[rec]), rec)),
        fso   |-> pg.fso + AllocSize(Size[rec])]

PageAt(p) == IF p \in DOMAIN pages THEN pages[p] ELSE EmptyPage

WithPage(p, pg) == IF p \in DOMAIN pages THEN [pages EXCEPT ![p] = pg]
                                         ELSE Append(pages, pg)

\* insertRecord(rec) settles on <<p, s>>.
InsertsAt(rec, p, s) == IsInsertPage(Size[rec], p) /\ IsInsertSlot(PageAt(p), s)

AfterInsert(rec, p, s) == WithPage(p, PutRecord(PageAt(p), s, rec))

\* Where insertRecord may put a record: an existing page or the next one, an
\* existing slot or the next one.
InsertRids == UNION {{p} \X (1..Len(PageAt(p).slots) + 1) : p \in 1..Len(pages) + 1}

-----------------------------------------------------------------------------
(* Reading through a RID. *)

Exists(rid) == /\ rid[1] \in DOMAIN pages
               /\ rid[2] \in Live(pages[rid[1]])
SlotAt(rid) == pages[rid[1]].slots[rid[2]]
IsTombstone(rid) == Exists(rid) /\ SlotAt(rid).fwd # NoRid

LiveRids == UNION {{p} \X Live(pages[p]) : p \in DOMAIN pages}

Forwarded == {SlotAt(rid).fwd : rid \in {r \in LiveRids : IsTombstone(r)}}

\* readRecord calls itself on the RID in a tombstone.
Hop == [rid \in Rid |-> IF IsTombstone(rid) THEN SlotAt(rid).fwd ELSE rid]

\* The slot readRecord ends at: it follows tombstones as long as it meets them.
Target(rid) ==
  LET hop[n \in Nat] == IF n = 0 THEN rid ELSE Hop[hop[n - 1]]
  IN  hop[Cardinality(LiveRids)]

\* NoRecord stands for an error, or for whatever the bytes outside the
\* directory hold when a tombstone leads there.
readRecord(rid) ==
  IF Exists(rid) /\ Exists(Target(rid)) THEN SlotAt(Target(rid)).rec ELSE NoRecord

\* The live slots no tombstone leads to: the RIDs insertRecord has handed out.
\* A copy that a running deleteRecord is about to remove does not count.
HomeRids == LiveRids \ (Forwarded \cup {pending})

-----------------------------------------------------------------------------
(* The operations.  Calls that return an error change nothing. *)

Init == pages = << >> /\ pending = NoRid

insertRecord(rec) ==
  /\ pending = NoRid
  /\ \E rid \in InsertRids :
        /\ InsertsAt(rec, rid[1], rid[2])
        /\ pages' = AfterInsert(rec, rid[1], rid[2])
  /\ UNCHANGED pending

\* Mutant: the slot's bytes are given back along with the record's.
DropSlot_ReclaimsSlot(rid) ==
  LET pg == pages[rid[1]]
  IN  pages' = [pages EXCEPT ![rid[1]] =
                  compactPage(SetSlot(pg, rid[2], DeletedSlot),
                              SlotAt(rid).off, SlotAt(rid).len + SLOT_SIZE)]

\* One invocation of deleteRecord: free the slot, close its gap, write the
\* page; for a tombstone the recursive call on its target is still to come.
DropSlot(rid) ==
  LET pg == pages[rid[1]]
  IN  pages' = [pages EXCEPT ![rid[1]] =
                  compactPage(SetSlot(pg, rid[2], DeletedSlot),
                              SlotAt(rid).off, SlotAt(rid).len)]

\* Mutant: the moved copy is not deleted with its tombstone.
deleteRecord_NoRecursion(rid) ==
  /\ pending = NoRid
  /\ Exists(rid)
  /\ DropSlot(rid)
  /\ UNCHANGED pending

deleteRecord(rid) ==
  /\ pending = NoRid
  /\ Exists(rid)
  /\ DropSlot(rid)
  /\ pending' = SlotAt(rid).fwd

\* The recursive invocation: it fails silently when its target is gone.
DeleteForwarded ==
  /\ pending # NoRid
  /\ \/ /\ Exists(pending)
        /\ DropSlot(pending)
        /\ pending' = SlotAt(pending).fwd
     \/ /\ ~Exists(pending)
        /\ pending' = NoRid
        /\ UNCHANGED pages

\* Mutant: the bytes the shorter record leaves are not compacted away.
UpdateInPlace_NoCompaction(rid, rec) ==
  /\ SlotAt(rid).len >= Size[rec]
  /\ pages' = [pages EXCEPT ![rid[1]] =
       SetSlot(@, rid[2], RecordSlot(SlotAt(rid).off, Size[rec], rec))]

\* Case 1 of updateRecord: the new record fits in the old one's space.
UpdateInPlace(rid, rec) ==
  LET pg   == pages[rid[1]]
      slot == SlotAt(rid)
  IN  /\ slot.len >= Size[rec]
      /\ pages' = [pages EXCEPT ![rid[1]] =
           SetSlot(compactPage(pg, slot.off + Size[rec], slot.len - Size[rec]),
                   rid[2], RecordSlot(slot.off, Size[rec], rec))]

\* Case 2: it is longer but the page has room; it moves to the end of the data.
UpdateAtEnd(rid, rec) ==
  LET pg   == pages[rid[1]]
      slot == SlotAt(rid)
      rest == compactPage(pg, slot.off, slot.len)
  IN  /\ slot.len < Size[rec]
      /\ checkFreeSpace(pg) > Size[rec]
      /\ pages' = [pages EXCEPT ![rid[1]] =
           [SetSlot(rest, rid[2], RecordSlot(rest.fso, Size[rec], rec))
              EXCEPT !.fso = @ + Size[rec]]]

\* Case 3: insertRecord places a copy elsewhere, and a tombstone replaces the
\* record in the buffer read before that call, which is then written back
\* whole.  With less than a tombstone's length in the slot the unsigned
\* difference wraps and compactPage leaves the page: the call does not return.
UpdateByMoving(rid, rec, to) ==
  LET pg   == pages[rid[1]]
      slot == SlotAt(rid)
  IN  /\ slot.len < Size[rec]
      /\ checkFreeSpace(pg) <= Size[rec]
      /\ slot.len >= TOMBSTONE_LENGTH
      /\ InsertsAt(rec, to[1], to[2])
      /\ pages' = [AfterInsert(rec, to[1], to[2]) EXCEPT ![rid[1]] =
           SetSlot(compactPage(pg, slot.off + TOMBSTONE_LENGTH,
                               slot.len - TOMBSTONE_LENGTH),
                   rid[2], TombstoneSlot(slot.off, to))]

\* updateRecord does not follow tombstones: it treats one as a 9-byte record.
updateRecord(rid, rec) ==
  /\ pending = NoRid
  /\ Exists(rid)
  /\ \/ UpdateInPlace(rid, rec)
     \/ UpdateAtEnd(rid, rec)
     \/ \E to \in InsertRids : UpdateByMoving(rid, rec, to)
  /\ UNCHANGED pending

\* Callers may pass any RID, one a scan returned for a moved copy included.
Next ==
  \/ \E rec \in Records : insertRecord(rec)
  \/ \E rid \in LiveRids : deleteRecord(rid)
  \/ DeleteForwarded
  \/ \E rid \in LiveRids, rec \in Records : updateRecord(rid, rec)

Spec == Init /\ [][Next]_vars

-----------------------------------------------------------------------------
(* Restricted clients. *)

\* insertRecord gives a record shorter than a tombstone nine bytes, but has looked
\* for room for the record itself only: in a page with less the space of the record
\* meets the slot directory, and the next compaction or tombstone overwrites it.
ShortOfRoom(rec) ==
  \E rid \in InsertRids :
     /\ InsertsAt(rec, rid[1], rid[2])
     /\ rid[2] > Len(PageAt(rid[1]).slots)
     /\ checkFreeSpace(PageAt(rid[1])) < AllocSize(Size[rec])

\* A client that makes no such insertion; it may pass any RID.
RoomyNext ==
  \/ \E rec \in Records : ~ShortOfRoom(rec) /\ insertRecord(rec)
  \/ \E rid \in LiveRids : deleteRecord(rid)
  \/ DeleteForwarded
  \/ \E rid \in LiveRids, rec \in Records : updateRecord(rid, rec)

RoomySpec == Init /\ [][RoomyNext]_vars

\* A client that passes only RIDs insertRecord returned to it.
HomeNext ==
  \/ \E rec \in Records : insertRecord(rec)
  \/ \E rid \in HomeRids : deleteRecord(rid)
  \/ DeleteForwarded
  \/ \E rid \in HomeRids, rec \in Records : updateRecord(rid, rec)

HomeSpec == Init /\ [][HomeNext]_vars

\* A client that does both, updates no record that has moved, and whose updates
\* never meet an insertRecord that chooses the very page being updated.
OnOwnPage(rid, rec) ==
  /\ SlotAt(rid).len < Size[rec]
  /\ checkFreeSpace(pages[rid[1]]) <= Size[rec]
  /\ IsInsertPage(Size[rec], rid[1])

CarefulNext ==
  \/ \E rec \in Records : ~ShortOfRoom(rec) /\ insertRecord(rec)
  \/ \E rid \in HomeRids : deleteRecord(rid)
  \/ DeleteForwarded
  \/ \E rid \in HomeRids, rec \in Records :
        ~IsTombstone(rid) /\ ~OnOwnPage(rid, rec) /\ updateRecord(rid, rec)

CarefulSpec == Init /\ [][CarefulNext]_vars

-----------------------------------------------------------------------------
(* Properties. *)

\* Pages hold well-formed slots, and deletion in progress names a RID.
TypeOK == pages \in Seq(Page) /\ pending \in Rid

\* The records and the slot directory never meet: the data ends below the
\* directory, whatever sequence of inserts, deletes and updates filled the page,
\* unless an insertion is short of room.
ClearPage(pg) == pg.fso + Len(pg.slots) * SLOT_SIZE + PAGE_METADATA <= PAGE_SIZE

DirectoryClear == \A p \in DOMAIN pages : ClearPage(pages[p])

\* src/report/project2.md:106: insertRecord "allocates at least 9 bytes per record", so
\* that "even very small records can later become tombstones".  Every live slot is that
\* long, and case 3 of updateRecord can replace the record in place.
TombstoneRoom ==
  \A p \in DOMAIN pages : \A i \in Live(pages[p]) : pages[p].slots[i].len >= TOMBSTONE_LENGTH

\* No byte belongs to two records, and every record lies in the data area: a
\* compaction or an append that misplaced one offset would break this.
Before(s, t) == s.off + s.len <= t.off

ApartPage(pg) ==
  \A i \in Live(pg) :
     /\ pg.slots[i].off + pg.slots[i].len <= pg.fso
     /\ \A j \in Live(pg) \ {i} : \/ Before(pg.slots[i], pg.slots[j])
                                  \/ Before(pg.slots[j], pg.slots[i])

RecordsApart == \A p \in DOMAIN pages : ApartPage(pages[p])

\* No space leaks: every byte below the free-space offset belongs to a live
\* record, so deletes and updates give all they free back to the page.
Covers(slot, b) == slot.off <= b /\ b < slot.off + slot.len

FullPage(pg) == \A b \in 0..pg.fso - 1 : \E i \in Live(pg) : Covers(pg.slots[i], b)

NoSpaceLeaks == \A p \in DOMAIN pages : FullPage(pages[p])

\* The layout of the data pages, which justifies attaching records to slots.
Layout == DirectoryClear /\ RecordsApart /\ NoSpaceLeaks

\* A tombstone leads to a live record, at most one tombstone leads to it, and
\* it is not itself a tombstone: reads take one hop, deletes free both slots.
TombstonesLead ==
  \A r \in LiveRids : IsTombstone(r) =>
     /\ Exists(SlotAt(r).fwd)
     /\ ~IsTombstone(SlotAt(r).fwd)
     /\ \A q \in LiveRids \ {r} : SlotAt(q).fwd # SlotAt(r).fwd

\* readRecord and deleteRecord call themselves on a tombstone's target: the
\* chain of calls ends, whatever RIDs the client passed, because no sequence
\* of moves, deletes and reuses of slots closes a cycle of tombstones.
ChainsEnd == \A r \in LiveRids : ~IsTombstone(Target(r))

\* The records a scan of the whole file returns: the live slots that are no
\* tombstones.  getNextRecord skips tombstones and returns the moved copies.
Scanned == {rid \in LiveRids : ~IsTombstone(rid)}


\* What clients see of the file, and the promise that it is a record store:
\* each call changes the record of the RID it was given and of no other.
Mapping == [rid \in HomeRids |-> readRecord(rid)]

Store == INSTANCE RecordStore WITH store <- Mapping

ImplementsStore == Store!Spec

\* Each call changes the record of the RID it was given and of no other: the
\* compactions, tombstones and reused slots it causes are invisible to readers
\* of every other RID.
CallsActOnTheirRid ==
  [][LET before == Mapping
         after  == Mapping'
     IN  /\ \A rid \in HomeRids :
               deleteRecord(rid) => after = Restrict(before, DOMAIN before \ {rid})
         /\ \A rid \in HomeRids, rec \in Records :
               updateRecord(rid, rec) => after = [before EXCEPT ![rid] = rec]
         /\ \A rec \in Records : insertRecord(rec) =>
               \E rid \in DOMAIN after \ DOMAIN before :
                  after = [r \in DOMAIN before \cup {rid} |->
                             IF r = rid THEN rec ELSE before[r]]]_vars
=============================================================================
