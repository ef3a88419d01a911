------------------------------ MODULE IndexScan -----------------------------
(***************************************************************************)
(* A range scan of an index (IX_ScanIterator) and the deletes its client   *)
(* makes through the same handle while the scan is open.  The iterator     *)
(* serves entries by position from a copy of one leaf.  When the copy is   *)
(* used up it reads the page again and, if it changed, continues from the  *)
(* first key that is not smaller than the last key returned; otherwise it  *)
(* follows the next pointer.                                               *)
(***************************************************************************)
EXTENDS BTree

VARIABLES
  iter,         \* the iterator: see Iterator
  range,        \* its bounds: see Ranges
  deleting,     \* whether the client deletes every entry it is returned
  returned,     \* history: the entries returned, in order
  expected      \* history: the entries in range when the scan began, in order

scanVars == <<iter, range, deleting, returned, expected>>
allVars  == <<vars, scanVars>>

\* A bound is absent ({}) or holds one key.
Bounds == {{}} \cup {{k} : k \in Keys}
Ranges == {b \in [lowKey : Bounds, lowKeyInclusive : BOOLEAN,
                  highKey : Bounds, highKeyInclusive : BOOLEAN] :
             /\ b.lowKey = {} => b.lowKeyInclusive
             /\ b.highKey = {} => b.highKeyInclusive}

Everything == [lowKey |-> {}, lowKeyInclusive |-> TRUE,
               highKey |-> {}, highKeyInclusive |-> TRUE]

AboveLow(b, k)  == \A l \in b.lowKey : k > l \/ (k = l /\ b.lowKeyInclusive)
BelowHigh(b, k) == \A u \in b.highKey : k < u \/ (k = u /\ b.highKeyInclusive)

\* The copy of leaf `num', the position of the next entry to serve, the last
\* key returned if any, whether the page has been re-read at this boundary
\* (within one call), whether it has changed on file since it was copied, and
\* whether the scan is still on.
Iterator == [num : Nat, page : Node, idx : Nat, lastKey : Bounds,
             refreshed : BOOLEAN, written : BOOLEAN, on : BOOLEAN]

Off == [num |-> 0, page |-> Leaf(<< >>, 0), idx |-> 1, lastKey |-> {},
        refreshed |-> FALSE, written |-> FALSE, on |-> FALSE]

Exhausted(it) == it.idx > Len(it.page.entries)

\* The iterator placed on leaf p.
OnLeaf(it, p) == [it EXCEPT !.num = p, !.page = nodes[p], !.idx = 1,
                            !.refreshed = FALSE, !.written = FALSE]

-----------------------------------------------------------------------------
(* scan() *)

findStartingLeaf(t, low) ==
  Last(Path(t, low, LAMBDA n, l : FirstKey(n.keys, LAMBDA k : \A x \in l : x <= k)))

\* Past the entries below the lower bound, over as many leaves as it takes.
SkipLow(b, start) ==
  LET skip[it \in Iterator] ==
        LET at == FirstKey(KeysOf(it.page.entries), LAMBDA k : AboveLow(b, k))
            here == [it EXCEPT !.idx = at]
        IN  IF ~Exhausted(here) THEN here
            ELSE IF it.page.next = 0 THEN [here EXCEPT !.on = FALSE]
            ELSE skip[OnLeaf(it, it.page.next)]
  IN  IF b.lowKey = {} THEN start ELSE skip[start]

InRange(b) == SelectSeq(ScanOrder(Root), LAMBDA e : AboveLow(b, e.key) /\ BelowHigh(b, e.key))

scan(h, b) ==
  /\ Current(h)
  /\ iter' = IF handles[h].root = 0 THEN Off
             ELSE SkipLow(b, OnLeaf([Off EXCEPT !.on = TRUE],
                                    findStartingLeaf(ViewOf(h), b.lowKey)))
  /\ range' = b
  /\ returned' = << >>
  /\ expected' = InRange(b)
  /\ UNCHANGED vars

-----------------------------------------------------------------------------
(* getNextEntry() *)

\* Mutant: the scan resumes behind the last key's position.
Resume_Behind(keys, lastKey) == FirstKey(keys, LAMBDA k : \A l \in lastKey : k >= l) + 1

\* Where the scan goes on in a page that has changed.
Resume(keys, lastKey) == FirstKey(keys, LAMBDA k : \A l \in lastKey : k >= l)

\* The iterator moved to the next entry to return, or off.  A page counts as
\* changed if its keys differ, or any byte behind them: `residue' says whether
\* bytes left behind the entries differ when the entries do not.
Advance(start, residue) ==
  LET go[it \in Iterator] ==
        LET fresh   == nodes[it.num]
            changed == fresh.entries # it.page.entries \/ (it.written /\ residue)
        IN  IF ~Exhausted(it) THEN it
            ELSE IF it.lastKey # {} /\ ~it.refreshed
            THEN go[[it EXCEPT !.page = fresh, !.refreshed = TRUE, !.written = FALSE,
                               !.idx = IF changed
                                       THEN Resume(KeysOf(fresh.entries), it.lastKey)
                                       ELSE @]]
            ELSE IF it.page.next \in {0, it.num} THEN [it EXCEPT !.on = FALSE]
            ELSE go[OnLeaf(it, it.page.next)]
  IN  go[[start EXCEPT !.refreshed = FALSE]]

\* Mutant: an entry above the upper bound does not end the scan.
Serve_GoesOn(it) ==
  LET e == it.page.entries[it.idx]
  IN  IF it.on /\ BelowHigh(range, e.key)
      THEN /\ iter' = [it EXCEPT !.idx = @ + 1, !.lastKey = {e.key}]
           /\ returned' = Append(returned, e)
      ELSE /\ iter' = it
           /\ UNCHANGED returned

\* The entry at the iterator is returned, unless it is above the upper bound,
\* which ends the scan.
Serve(it) ==
  LET e == it.page.entries[it.idx]
  IN  IF it.on /\ BelowHigh(range, e.key)
      THEN /\ iter' = [it EXCEPT !.idx = @ + 1, !.lastKey = {e.key}]
           /\ returned' = Append(returned, e)
      ELSE /\ iter' = [it EXCEPT !.on = FALSE]
           /\ UNCHANGED returned

getNextEntry ==
  /\ iter.on
  /\ \E residue \in BOOLEAN : \E it \in {Advance(iter, residue)} : Serve(it)
  /\ UNCHANGED <<vars, range, deleting, expected>>

-----------------------------------------------------------------------------
(* The client. *)

\* The copy does not follow the page.
NoteWrites ==
  /\ iter' = [iter EXCEPT !.written =
                @ \/ (iter.num # 0 /\ nodes'[iter.num] # nodes[iter.num])]
  /\ UNCHANGED <<range, deleting, returned, expected>>

\* The entry just returned, if the client has yet to delete it.
Pending == IF deleting /\ returned # << >> THEN Contents(Root) \cap {Last(returned)} ELSE {}

DeleteReturned(h) == \E e \in Pending : deleteEntry(h, e) /\ NoteWrites

AskNext == iter.on /\ Pending = {} /\ getNextEntry

\* A client with unique keys.
Fresh(h, e) == \A x \in Contents(handles[h].root) : x.key # e.key

Insert(h) == \E e \in Entry : Fresh(h, e) /\ insertEntry(h, e) /\ NoteWrites

Delete(h) == \E e \in Entry : deleteEntry(h, e) /\ NoteWrites

\* A handle open on an empty index, and no scan.
OpenInit == /\ nodes = << >>
            /\ hidden = 0
            /\ handles = [h \in Handles |-> [open |-> TRUE, root |-> 0, count |-> 1]]

NoScan == /\ iter = Off
          /\ range = Everything
          /\ deleting = FALSE
          /\ returned = << >>
          /\ expected = << >>

Idle == ~iter.on /\ Pending = {}

\* The client asks for entries, and deletes each one returned if it is to.
Pull == AskNext \/ \E h \in Handles : DeleteReturned(h)

\* A client that leaves the index alone during a scan, or scans all of it and
\* deletes each entry as it is returned.
ScanNext ==
  \/ Pull
  \/ \E h \in Handles :
       /\ Idle
       /\ \/ Insert(h)
          \/ Delete(h)
          \/ deleting' = FALSE /\ \E b \in Ranges : scan(h, b)
          \/ deleting' = TRUE /\ scan(h, Everything)

\* It asks until the scan ends, as its callers do.
ScanSpec == OpenInit /\ NoScan /\ [][ScanNext]_allVars /\ WF_allVars(Pull)

\* A client that deletes every entry a scan with bounds returns.
RangeNext ==
  \/ Pull
  \/ \E h \in Handles : Idle /\ deleting' = TRUE /\ \E b \in Ranges : scan(h, b)

-----------------------------------------------------------------------------
(* Properties. *)

\* A scan returns exactly the entries in its range, in key order and each
\* once, also while the entries returned are deleted and leaves are refilled
\* from their right siblings or merged with them under the iterator.
ScanExact ==
  /\ IsPrefix(returned, expected)
  /\ ~iter.on => returned = expected

\* Whatever is deleted during a scan, no entry is returned twice.
NoEntryTwice == \A i, j \in DOMAIN returned : returned[i] = returned[j] => i = j

\* A scan comes to its end.
ScanEnds == iter.on ~> ~iter.on
=============================================================================
