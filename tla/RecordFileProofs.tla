-------------------------- MODULE RecordFileProofs --------------------------
(***************************************************************************)
(* Proofs that the pages of a record file stay well formed, for every page *)
(* size and set of records, short ones included, and any number of pages   *)
(* and calls, as long as no insertion is short of room (ShortOfRoom).      *)
(*                                                                         *)
(* The inductive invariant is a property of single pages, GoodPage.  Each  *)
(* operation is a composition of three page transformations (put a record  *)
(* at the end of the data, drop a slot and close its gap, shrink a slot    *)
(* and close the gap behind it); a lemma for each says it keeps GoodPage.  *)
(*                                                                         *)
(* The second part is about what the slots hold and where the tombstones   *)
(* lead: a client that keeps its records on their pages is served by a map *)
(* from RIDs to records, and a scan of a changing file returns each record *)
(* left alone once.                                                        *)
(***************************************************************************)
EXTENDS RecordScan, Induction, SequenceTheorems, FiniteSetTheorems, TLAPS

\* No live slot of a page is empty: two slots at one offset would not be told apart.
FilledPage(pg) == \A i \in Live(pg) : pg.slots[i].len >= 1

GoodPage(pg) == /\ pg \in Page
                /\ ClearPage(pg)
                /\ FilledPage(pg)
                /\ ApartPage(pg)
                /\ FullPage(pg)

PagesGood(ps) == ps \in Seq(Page) /\ \A p \in DOMAIN ps : GoodPage(ps[p])

LayoutInv == PagesGood(pages) /\ pending \in Rid

\* Two slots hold the same: a record, or the same RID.
SameContent(t, u) == t.rec = u.rec /\ t.fwd = u.fwd

-----------------------------------------------------------------------------
(* Sequences and pages. *)

\* A function on 1..n is a sequence of length n.
LEMMA FunctionIsSeq ==
  ASSUME NEW S, NEW n \in Nat, NEW f \in [1..n -> S]
  PROVE  f \in Seq(S) /\ Len(f) = n /\ DOMAIN f = 1..n
  <1>1. f \in Seq(S)
    BY SeqDef
  <1>2. DOMAIN f = 1..Len(f) /\ Len(f) \in Nat
    BY <1>1, LenProperties
  <1>3. DOMAIN f = 1..n
    OBVIOUS
  <1> QED
    BY <1>1, <1>2, <1>3, SMT

\* What membership in Page says, field by field.
LEMMA PageFields ==
  ASSUME NEW pg \in Page
  PROVE  /\ pg.slots \in Seq(Slot) /\ pg.fso \in Nat
         /\ Len(pg.slots) \in Nat /\ DOMAIN pg.slots = 1..Len(pg.slots)
         /\ \A i \in 1..Len(pg.slots) :
               /\ pg.slots[i] \in Slot
               /\ pg.slots[i].off \in Nat /\ pg.slots[i].len \in Nat
               /\ pg.slots[i].fwd \in Rid
         /\ Live(pg) = {i \in 1..Len(pg.slots) : pg.slots[i].off # DELETED}
         /\ Freed(pg) = {i \in 1..Len(pg.slots) : pg.slots[i].off = DELETED}
  <1>1. pg.slots \in Seq(Slot) /\ pg.fso \in Nat
    BY DEF Page
  <1>2. Len(pg.slots) \in Nat /\ DOMAIN pg.slots = 1..Len(pg.slots)
    BY <1>1, LenProperties
  <1>3. \A i \in 1..Len(pg.slots) : pg.slots[i] \in Slot
    BY <1>1, ElementOfSeq
  <1>4. \A i \in 1..Len(pg.slots) :
          /\ pg.slots[i].off \in Nat /\ pg.slots[i].len \in Nat
          /\ pg.slots[i].fwd \in Rid
    BY <1>3 DEF Slot
  <1> QED
    BY <1>1, <1>2, <1>3, <1>4 DEF Live, Freed

\* The empty page is well formed.
LEMMA EmptyPageGood == GoodPage(EmptyPage)
  <1>1. EmptyPage \in Page /\ Len(EmptyPage.slots) = 0
    BY EmptySeq DEF EmptyPage, Page
  <1>2. Live(EmptyPage) = {}
    BY <1>1, PageFields, SMT
  <1>3. ClearPage(EmptyPage)
    BY <1>1, PageAssumption
       DEF ClearPage, EmptyPage, SLOT_SIZE, PAGE_METADATA, TOMBSTONE_LENGTH
  <1>4. FullPage(EmptyPage)
    BY DEF FullPage, EmptyPage
  <1> QED
    BY <1>1, <1>2, <1>3, <1>4 DEF GoodPage, FilledPage, ApartPage

-----------------------------------------------------------------------------
(* Putting a slot at the end of the data. *)

\* Page pg with `slot' in the free or new position s and the data extended.
Placed(pg, s, slot) ==
  [slots |-> IF s \in DOMAIN pg.slots THEN [pg.slots EXCEPT ![s] = slot]
                                      ELSE Append(pg.slots, slot),
   fso   |-> pg.fso + slot.len]

\* What Placed does to each slot.
LEMMA PlacedSlots ==
  ASSUME NEW pg \in Page, NEW slot \in Slot,
         NEW s \in 1..Len(pg.slots) + 1
  PROVE  LET q == Placed(pg, s, slot)
         IN  /\ q \in Page
             /\ Len(q.slots) = IF s \in 1..Len(pg.slots) THEN Len(pg.slots)
                                                         ELSE Len(pg.slots) + 1
             /\ \A i \in 1..Len(q.slots) :
                   q.slots[i] = IF i = s THEN slot ELSE pg.slots[i]
             /\ q.fso = pg.fso + slot.len
  <1> DEFINE q == Placed(pg, s, slot)
  <1>0. /\ pg.slots \in Seq(Slot) /\ pg.fso \in Nat /\ slot.len \in Nat
        /\ Len(pg.slots) \in Nat /\ DOMAIN pg.slots = 1..Len(pg.slots)
    BY PageFields DEF Slot
  <1>1. CASE s \in 1..Len(pg.slots)
    <2>1. q = [slots |-> [pg.slots EXCEPT ![s] = slot], fso |-> pg.fso + slot.len]
      BY <1>0, <1>1 DEF Placed
    <2>2. /\ [pg.slots EXCEPT ![s] = slot] \in Seq(Slot)
          /\ Len([pg.slots EXCEPT ![s] = slot]) = Len(pg.slots)
          /\ \A j \in 1..Len(pg.slots) :
                [pg.slots EXCEPT ![s] = slot][j] = IF j = s THEN slot ELSE pg.slots[j]
      BY <1>0, <1>1, ExceptSeq
    <2> QED
      BY <1>0, <1>1, <2>1, <2>2 DEF Page
  <1>2. CASE s = Len(pg.slots) + 1
    <2>0. s \notin DOMAIN pg.slots
      BY <1>0, <1>2
    <2>1. q = [slots |-> Append(pg.slots, slot), fso |-> pg.fso + slot.len]
      BY <2>0, Zenon DEF Placed
    <2>2. /\ Append(pg.slots, slot) \in Seq(Slot)
          /\ Len(Append(pg.slots, slot)) = Len(pg.slots) + 1
          /\ \A j \in 1..Len(pg.slots) : Append(pg.slots, slot)[j] = pg.slots[j]
          /\ Append(pg.slots, slot)[Len(pg.slots) + 1] = slot
      BY <1>0, AppendProperties
    <2> QED
      BY <1>0, <1>2, <2>1, <2>2 DEF Page
  <1> QED
    BY <1>0, <1>1, <1>2

\* A slot placed at the end of the data, with room for it, keeps a page good.
LEMMA PlacedGood ==
  ASSUME NEW pg, GoodPage(pg), NEW slot \in Slot,
         NEW s \in 1..Len(pg.slots) + 1, s \notin Live(pg),
         slot.off = pg.fso, slot.len >= 1,
         ClearPage(Placed(pg, s, slot))
  PROVE  LET q == Placed(pg, s, slot)
         IN  /\ GoodPage(q)
             /\ Live(q) = Live(pg) \cup {s}
             /\ q.slots[s] = slot
             /\ \A i \in Live(pg) : q.slots[i] = pg.slots[i]
  <1> DEFINE q == Placed(pg, s, slot)
             n == Len(pg.slots)
  <1>0. /\ pg \in Page /\ ClearPage(pg) /\ FilledPage(pg) /\ ApartPage(pg) /\ FullPage(pg)
        /\ pg.fso \in Nat /\ n \in Nat /\ slot.len \in Nat
        /\ \A i \in 1..n : pg.slots[i].off \in Nat /\ pg.slots[i].len \in Nat
        /\ Live(pg) = {i \in 1..n : pg.slots[i].off # DELETED}
    BY PageFields DEF GoodPage, Slot
  <1>1. /\ q \in Page
        /\ n <= Len(q.slots) /\ Len(q.slots) \in Nat /\ s \in 1..Len(q.slots)
        /\ \A i \in 1..Len(q.slots) : i # s => i \in 1..n
        /\ \A i \in 1..Len(q.slots) : q.slots[i] = IF i = s THEN slot ELSE pg.slots[i]
        /\ q.fso = pg.fso + slot.len
    BY <1>0, PlacedSlots
  <1>2. pg.fso # DELETED
    BY <1>0, PageAssumption DEF ClearPage, SLOT_SIZE, PAGE_METADATA
  <1>3. Live(q) = Live(pg) \cup {s}
    <2>1. Live(q) = {i \in 1..Len(q.slots) : q.slots[i].off # DELETED}
      BY <1>1, PageFields
    <2> QED
      BY <1>0, <1>1, <1>2, <2>1
  <1>4. /\ q.slots[s] = slot
        /\ \A i \in Live(pg) : i # s /\ i \in 1..Len(q.slots) /\ q.slots[i] = pg.slots[i]
    <2>1. \A i \in Live(pg) : i # s /\ i \in 1..n
      BY <1>0
    <2>2. \A i \in 1..n : i \in 1..Len(q.slots)
      BY <1>0, <1>1
    <2> QED
      BY <1>1, <2>1, <2>2
  <1>5. FilledPage(q)
    BY <1>0, <1>3, <1>4 DEF FilledPage
  <1>6. ApartPage(q)
    <2>1. \A i \in Live(pg) : /\ q.slots[i].off \in Nat /\ q.slots[i].len \in Nat
                              /\ q.slots[i].off + q.slots[i].len <= pg.fso
      BY <1>0, <1>4 DEF ApartPage
    <2>2. ASSUME NEW i \in Live(q)
          PROVE  q.slots[i].off + q.slots[i].len <= q.fso
      <3>1. CASE i = s
        BY <1>0, <1>1, <1>4, <3>1
      <3>2. CASE i \in Live(pg)
        BY <1>0, <1>1, <2>1, <3>2
      <3> QED
        BY <1>3, <3>1, <3>2
    <2>3. ASSUME NEW i \in Live(q), NEW j \in Live(q) \ {i}
          PROVE  Before(q.slots[i], q.slots[j]) \/ Before(q.slots[j], q.slots[i])
      <3>1. CASE i # s /\ j # s
        BY <1>0, <1>3, <1>4, <3>1 DEF ApartPage
      <3>2. CASE i = s \/ j = s
        BY <1>3, <1>4, <2>1, <3>2 DEF Before
      <3> QED
        BY <3>1, <3>2
    <2> QED
      BY <2>2, <2>3 DEF ApartPage
  <1>7. FullPage(q)
    <2> SUFFICES ASSUME NEW b \in 0..q.fso - 1
                 PROVE  \E i \in Live(q) : Covers(q.slots[i], b)
      BY DEF FullPage
    <2>1. CASE b < pg.fso
      <3>0. b \in 0..pg.fso - 1
        BY <1>0, <1>1, <2>1
      <3>1. PICK i \in Live(pg) : Covers(pg.slots[i], b)
        BY ONLY <1>0, <3>0, Zenon DEF FullPage
      <3> QED
        BY <1>3, <1>4, <3>1
    <2>2. CASE b >= pg.fso
      BY <1>0, <1>1, <1>3, <1>4, <2>2 DEF Covers
    <2> QED
      BY <1>0, <1>1, <2>1, <2>2
  <1> QED
    BY <1>1, <1>3, <1>4, <1>5, <1>6, <1>7 DEF GoodPage

-----------------------------------------------------------------------------
(* Closing gaps. *)

\* Slot i of q is slot i of pg, moved left by `size' if it lay behind `edge'.
Follows(pg, q, i, start, edge, size) ==
  /\ q.slots[i].off \in Nat
  /\ q.slots[i].len = pg.slots[i].len
  /\ \/ /\ pg.slots[i].off + pg.slots[i].len <= start
        /\ q.slots[i].off = pg.slots[i].off
     \/ /\ pg.slots[i].off >= edge
        /\ q.slots[i].off = pg.slots[i].off - size

\* Page q is page pg with k of the l bytes of the slot s at offset o kept (none
\* if the slot is dropped) and the gap behind them closed.
ClosesGap(pg, q, s, o, l, k) ==
  /\ s \in Live(pg) /\ o = pg.slots[s].off /\ l = pg.slots[s].len
  /\ k \in 0..l
  /\ q \in Page
  /\ Len(q.slots) = Len(pg.slots)
  /\ q.fso = pg.fso - (l - k)
  /\ \A i \in Live(pg) \ {s} : Follows(pg, q, i, o, o + l, l - k)
  /\ \/ k = 0 /\ Live(q) = Live(pg) \ {s}
     \/ /\ k >= 1 /\ Live(q) = Live(pg)
        /\ q.slots[s].off = o /\ q.slots[s].len = k

\* Such a page is good if the old one was.
LEMMA GapClosed ==
  ASSUME NEW pg, NEW q, NEW s, NEW o, NEW l, NEW k,
         GoodPage(pg), ClosesGap(pg, q, s, o, l, k)
  PROVE  GoodPage(q)
  <1> DEFINE others == Live(pg) \ {s}
  <1>0. /\ pg \in Page /\ ClearPage(pg) /\ FilledPage(pg) /\ ApartPage(pg) /\ FullPage(pg)
        /\ pg.fso \in Nat /\ Len(pg.slots) \in Nat
        /\ o \in Nat /\ l \in Nat /\ k \in Nat /\ k <= l
        /\ q.fso \in Nat /\ q.fso = pg.fso - (l - k)
        /\ o + l <= pg.fso
    <2>1. /\ pg \in Page /\ ClearPage(pg) /\ FilledPage(pg) /\ ApartPage(pg) /\ FullPage(pg)
      BY DEF GoodPage
    <2>2. \A i \in Live(pg) : /\ pg.slots[i].off \in Nat /\ pg.slots[i].len \in Nat
                              /\ pg.slots[i].off + pg.slots[i].len <= pg.fso
      BY <2>1, PageFields DEF ApartPage
    <2>3. /\ s \in Live(pg) /\ o = pg.slots[s].off /\ l = pg.slots[s].len /\ k \in 0..l
          /\ q \in Page /\ q.fso = pg.fso - (l - k)
      BY DEF ClosesGap
    <2>4. q.fso \in Nat
      BY <2>3, PageFields
    <2> QED
      BY <2>1, <2>2, <2>3, <2>4, PageFields
  <1>a. \A i \in Live(pg) : /\ pg.slots[i].off \in Nat /\ pg.slots[i].len \in Nat
                             /\ pg.slots[i].off + pg.slots[i].len <= pg.fso
    BY PageFields DEF GoodPage, ApartPage
  <1>1. Live(q) \subseteq others \cup {s} /\ others \subseteq Live(q)
        /\ others \subseteq Live(pg) /\ Live(pg) = others \cup {s}
    BY DEF ClosesGap
  <1>2. \A i \in others :
          /\ pg.slots[i].off \in Nat /\ pg.slots[i].len \in Nat
          /\ pg.slots[i].off + pg.slots[i].len <= pg.fso
          /\ q.slots[i].off \in Nat
          /\ q.slots[i].len = pg.slots[i].len
          /\ \/ /\ pg.slots[i].off + pg.slots[i].len <= o
                /\ q.slots[i].off = pg.slots[i].off
             \/ /\ pg.slots[i].off >= o + l
                /\ q.slots[i].off = pg.slots[i].off - (l - k)
    BY <1>a, <1>1 DEF ClosesGap, Follows
  <1>3. /\ s \in Live(q) => /\ k >= 1
                            /\ q.slots[s].off = o /\ q.slots[s].len = k
        /\ k # 0 => s \in Live(q)
        /\ pg.slots[s].off = o /\ pg.slots[s].len = l
        /\ Len(q.slots) = Len(pg.slots)
        /\ q \in Page
    BY DEF ClosesGap
  <1> HIDE DEF others
  <1>4. ClearPage(q)
    <2> DEFINE n == Len(pg.slots)
               f == pg.fso
               g == q.fso
    <2>1. f + n * 4 + 4 <= PAGE_SIZE /\ f \in Nat /\ g \in Nat /\ n \in Nat
      BY <1>0 DEF ClearPage, SLOT_SIZE, PAGE_METADATA
    <2>2. g = f - (l - k) /\ Len(q.slots) = n
      BY <1>0, <1>3
    <2> HIDE DEF n, f, g
    <2>3. g + n * 4 + 4 <= PAGE_SIZE
      BY <1>0, <2>1, <2>2, PageAssumption
    <2> QED
      BY <2>2, <2>3 DEF ClearPage, SLOT_SIZE, PAGE_METADATA, g
  <1>5. FilledPage(q)
    <2>1. ASSUME NEW i \in Live(q) PROVE q.slots[i].len >= 1
      <3>1. CASE i = s
        BY <1>3, <3>1
      <3>2. CASE i \in others
        BY <1>0, <1>1, <1>2, <3>2 DEF FilledPage
      <3> QED
        BY <1>1, <3>1, <3>2
    <2> QED
      BY <2>1 DEF FilledPage
  <1>6. ApartPage(q)
    <2>1. ASSUME NEW i \in Live(q) PROVE q.slots[i].off + q.slots[i].len <= q.fso
      <3>1. CASE i = s
        BY <1>0, <1>3, <3>1
      <3>2. CASE i \in others
        <4> DEFINE x == pg.slots[i].off
                   y == pg.slots[i].len
                   z == q.slots[i].off
        <4>1. /\ x \in Nat /\ y \in Nat /\ z \in Nat /\ x + y <= pg.fso
              /\ q.slots[i].len = y
              /\ (x + y <= o /\ z = x) \/ (x >= o + l /\ z = x - (l - k))
          BY <1>2, <3>2
        <4> HIDE DEF x, y, z
        <4>2. z + y <= q.fso
          BY <1>0, <4>1
        <4> QED
          BY <4>1, <4>2 DEF z
      <3> QED
        BY <1>1, <3>1, <3>2
    <2>2. ASSUME NEW i \in others
          PROVE  \/ q.slots[i].off + q.slots[i].len <= o
                 \/ q.slots[i].off >= o + k
      <3> DEFINE x == pg.slots[i].off
                 y == pg.slots[i].len
                 z == q.slots[i].off
      <3>1. /\ x \in Nat /\ y \in Nat /\ z \in Nat
            /\ q.slots[i].len = y
            /\ (x + y <= o /\ z = x) \/ (x >= o + l /\ z = x - (l - k))
        BY <1>2
      <3> HIDE DEF x, y, z
      <3>2. z + y <= o \/ z >= o + k
        BY <1>0, <3>1
      <3> QED
        BY <3>1, <3>2 DEF z
    <2>3. ASSUME NEW i \in others, NEW j \in others \ {i},
                 Before(pg.slots[i], pg.slots[j])
          PROVE  Before(q.slots[i], q.slots[j])
      <3> DEFINE x == pg.slots[i].off
                 y == pg.slots[i].len
                 z == q.slots[i].off
                 u == pg.slots[j].off
                 v == pg.slots[j].len
                 w == q.slots[j].off
      <3>1. /\ x \in Nat /\ y \in Nat /\ z \in Nat
            /\ q.slots[i].len = y
            /\ (x + y <= o /\ z = x) \/ (x >= o + l /\ z = x - (l - k))
        BY <1>2
      <3>2. /\ u \in Nat /\ v \in Nat /\ w \in Nat
            /\ (u + v <= o /\ w = u) \/ (u >= o + l /\ w = u - (l - k))
        BY <1>2
      <3>3. x + y <= u
        BY <2>3 DEF Before
      <3> HIDE DEF x, y, z, u, v, w
      <3>4. z + y <= w
        BY <1>0, <3>1, <3>2, <3>3
      <3> QED
        BY <3>1, <3>4 DEF Before, z, w
    <2>4. ASSUME NEW i \in Live(q), NEW j \in Live(q) \ {i}
          PROVE  Before(q.slots[i], q.slots[j]) \/ Before(q.slots[j], q.slots[i])
      <3>1. CASE i = s
        BY <1>1, <1>3, <2>2, <3>1 DEF Before
      <3>2. CASE j = s
        BY <1>1, <1>3, <2>2, <3>2 DEF Before
      <3>3. CASE i # s /\ j # s
        <4>1. i \in others /\ j \in others /\ i # j /\ i \in Live(pg) /\ j \in Live(pg)
          BY <1>1, <3>3
        <4>2. Before(pg.slots[i], pg.slots[j]) \/ Before(pg.slots[j], pg.slots[i])
          BY <1>0, <4>1 DEF ApartPage
        <4> QED
          BY <2>3, <4>1, <4>2
      <3> QED
        BY <3>1, <3>2, <3>3
    <2> QED
      BY <2>1, <2>4 DEF ApartPage
  <1>7. FullPage(q)
    <2> SUFFICES ASSUME NEW b \in 0..q.fso - 1
                 PROVE  \E i \in Live(q) : Covers(q.slots[i], b)
      BY DEF FullPage
    <2>1. CASE b < o
      <3>1. PICK i \in Live(pg) : Covers(pg.slots[i], b)
        BY <1>0, <2>1 DEF FullPage
      <3>2. i \in others
        BY <1>0, <1>1, <1>3, <2>1, <3>1 DEF Covers
      <3>3. Covers(q.slots[i], b)
        <4> DEFINE x == pg.slots[i].off
                   y == pg.slots[i].len
                   z == q.slots[i].off
        <4>1. /\ x \in Nat /\ y \in Nat /\ z \in Nat
              /\ q.slots[i].len = y
              /\ (x + y <= o /\ z = x) \/ (x >= o + l /\ z = x - (l - k))
          BY <1>2, <3>2
        <4>2. x <= b /\ b < x + y
          BY <3>1 DEF Covers
        <4> HIDE DEF x, y, z
        <4>3. z <= b /\ b < z + y
          BY <1>0, <2>1, <4>1, <4>2
        <4> QED
          BY <4>1, <4>3 DEF Covers, z
      <3> QED
        BY <1>1, <3>2, <3>3
    <2>2. CASE o <= b /\ b < o + k
      <3>1. k # 0
        BY <1>0, <2>2
      <3> QED
        BY <1>3, <3>1, <2>2 DEF Covers
    <2>3. CASE o + k <= b
      <3>1. b + (l - k) \in 0..pg.fso - 1 /\ b + (l - k) >= o + l
        BY <1>0, <2>3
      <3>2. PICK i \in Live(pg) : Covers(pg.slots[i], b + (l - k))
        BY <1>0, <3>1 DEF FullPage
      <3>3. i \in others
        BY <1>0, <1>1, <1>3, <3>1, <3>2 DEF Covers
      <3>4. Covers(q.slots[i], b)
        <4> DEFINE x == pg.slots[i].off
                   y == pg.slots[i].len
                   z == q.slots[i].off
        <4>1. /\ x \in Nat /\ y \in Nat /\ z \in Nat
              /\ q.slots[i].len = y
              /\ (x + y <= o /\ z = x) \/ (x >= o + l /\ z = x - (l - k))
          BY <1>2, <3>3
        <4>2. x <= b + (l - k) /\ b + (l - k) < x + y
          BY <3>2 DEF Covers
        <4> HIDE DEF x, y, z
        <4>3. z <= b /\ b < z + y
          BY <1>0, <2>3, <3>1, <4>1, <4>2, SMTT(30)
        <4> QED
          BY <4>1, <4>3 DEF Covers, z
      <3> QED
        BY <1>1, <3>3, <3>4
    <2> QED
      BY <1>0, <2>1, <2>2, <2>3
  <1> QED
    BY <1>3, <1>4, <1>5, <1>6, <1>7 DEF GoodPage

\* What compactPage does to each slot, when no offset becomes negative.
LEMMA CompactedSlots ==
  ASSUME NEW pg \in Page, NEW start \in Nat, NEW size \in Nat, size <= pg.fso,
         \A i \in 1..Len(pg.slots) :
            Shifts(pg.slots[i], start, size) => pg.slots[i].off >= size
  PROVE  LET c == compactPage(pg, start, size)
         IN  /\ c \in Page
             /\ Len(c.slots) = Len(pg.slots)
             /\ \A i \in 1..Len(pg.slots) :
                   c.slots[i] = IF Shifts(pg.slots[i], start, size)
                                THEN [pg.slots[i] EXCEPT !.off = @ - size]
                                ELSE pg.slots[i]
             /\ c.fso = pg.fso - size
  <1> DEFINE n == Len(pg.slots)
             f == [i \in 1..n |-> IF Shifts(pg.slots[i], start, size)
                                  THEN [pg.slots[i] EXCEPT !.off = @ - size]
                                  ELSE pg.slots[i]]
  <1>1. /\ n \in Nat /\ DOMAIN pg.slots = 1..n /\ pg.fso \in Nat
        /\ \A i \in 1..n : pg.slots[i] \in Slot /\ pg.slots[i].off \in Nat
    BY PageFields
  <1>2. compactPage(pg, start, size) = [slots |-> f, fso |-> pg.fso - size]
    BY <1>1 DEF compactPage
  <1>3. f \in [1..n -> Slot]
    <2> SUFFICES ASSUME NEW i \in 1..n
                 PROVE  (IF Shifts(pg.slots[i], start, size)
                         THEN [pg.slots[i] EXCEPT !.off = @ - size]
                         ELSE pg.slots[i]) \in Slot
      OBVIOUS
    <2>1. CASE Shifts(pg.slots[i], start, size)
      <3>1. pg.slots[i].off - size \in Nat
        BY <1>1, <2>1
      <3> QED
        BY <1>1, <2>1, <3>1 DEF Slot
    <2>2. CASE ~Shifts(pg.slots[i], start, size)
      BY <1>1, <2>2
    <2> QED
      BY <2>1, <2>2
  <1>4. f \in Seq(Slot) /\ Len(f) = n
    BY <1>1, <1>3, FunctionIsSeq
  <1>5. pg.fso - size \in Nat
    BY <1>1
  <1> QED
    BY <1>2, <1>4, <1>5 DEF Page

\* What SetSlot does to each slot.
LEMMA SetSlots ==
  ASSUME NEW pg \in Page, NEW s \in 1..Len(pg.slots), NEW slot \in Slot
  PROVE  LET q == SetSlot(pg, s, slot)
         IN  /\ q \in Page
             /\ Len(q.slots) = Len(pg.slots)
             /\ \A i \in 1..Len(pg.slots) :
                   q.slots[i] = IF i = s THEN slot ELSE pg.slots[i]
             /\ q.fso = pg.fso
  <1>1. pg.slots \in Seq(Slot) /\ pg = [slots |-> pg.slots, fso |-> pg.fso] /\ pg.fso \in Nat
    BY DEF Page
  <1>2. SetSlot(pg, s, slot) = [slots |-> [pg.slots EXCEPT ![s] = slot], fso |-> pg.fso]
    BY <1>1, SMTT(30) DEF SetSlot
  <1> QED
    BY <1>1, <1>2, ExceptSeq DEF Page

\* Where the other live slots of a good page lie relative to slot s.
LEMMA SlotSides ==
  ASSUME NEW pg, GoodPage(pg), NEW s \in Live(pg)
  PROVE  /\ pg.slots[s].off \in Nat /\ pg.slots[s].len \in Nat
         /\ pg.slots[s].len >= 1
         /\ pg.slots[s].off + pg.slots[s].len <= pg.fso
         /\ pg.fso \in Nat /\ pg.fso < DELETED
         /\ \A i \in Live(pg) \ {s} :
               /\ pg.slots[i].off \in Nat /\ pg.slots[i].off < DELETED
               /\ \/ /\ pg.slots[i].off < pg.slots[s].off
                     /\ pg.slots[i].off + pg.slots[i].len <= pg.slots[s].off
                  \/ pg.slots[i].off >= pg.slots[s].off + pg.slots[s].len
  <1>0. /\ pg \in Page /\ ClearPage(pg) /\ FilledPage(pg) /\ ApartPage(pg)
    BY DEF GoodPage
  <1>1. \A i \in Live(pg) : /\ pg.slots[i].off \in Nat /\ pg.slots[i].len \in Nat
                            /\ pg.slots[i].len >= 1
                            /\ pg.slots[i].off + pg.slots[i].len <= pg.fso
    BY <1>0, PageFields DEF FilledPage, ApartPage
  <1>2. pg.fso \in Nat /\ pg.fso < DELETED
    <2>1. Len(pg.slots) \in Nat /\ pg.fso \in Nat
      BY <1>0, PageFields
    <2> QED
      BY <1>0, <2>1, PageAssumption DEF ClearPage, SLOT_SIZE, PAGE_METADATA, DELETED
  <1>3. ASSUME NEW i \in Live(pg) \ {s}
        PROVE  /\ pg.slots[i].off < DELETED
               /\ \/ /\ pg.slots[i].off < pg.slots[s].off
                     /\ pg.slots[i].off + pg.slots[i].len <= pg.slots[s].off
                  \/ pg.slots[i].off >= pg.slots[s].off + pg.slots[s].len
    <2>1. Before(pg.slots[i], pg.slots[s]) \/ Before(pg.slots[s], pg.slots[i])
      BY <1>0 DEF ApartPage
    <2> DEFINE x == pg.slots[i].off
               y == pg.slots[i].len
               o == pg.slots[s].off
               l == pg.slots[s].len
    <2>2. /\ x \in Nat /\ y \in Nat /\ o \in Nat /\ l \in Nat /\ y >= 1
          /\ x + y <= pg.fso
          /\ x + y <= o \/ o + l <= x
      BY <1>1, <2>1 DEF Before
    <2> HIDE DEF x, y, o, l
    <2>3. x < DELETED /\ ((x < o /\ x + y <= o) \/ x >= o + l)
      BY <1>2, <2>2 DEF DELETED
    <2> QED
      BY <2>3 DEF x, y, o, l
  <1> QED
    BY <1>1, <1>2, <1>3

\* Page pg with slot s dropped, as deleteRecord leaves it.
Dropped(pg, s) ==
  compactPage(SetSlot(pg, s, DeletedSlot), pg.slots[s].off, pg.slots[s].len)

LEMMA DroppedGood ==
  ASSUME NEW pg, GoodPage(pg), NEW s \in Live(pg)
  PROVE  LET d == Dropped(pg, s)
         IN  /\ GoodPage(d)
             /\ Len(d.slots) = Len(pg.slots)
             /\ s \notin Live(d) /\ Live(d) = Live(pg) \ {s}
             /\ \A i \in Live(d) : SameContent(d.slots[i], pg.slots[i])
             /\ d.fso = pg.fso - pg.slots[s].len
  <1> DEFINE n == Len(pg.slots)
             o == pg.slots[s].off
             l == pg.slots[s].len
             m == SetSlot(pg, s, DeletedSlot)
             d == Dropped(pg, s)
  <1>0. /\ pg \in Page /\ n \in Nat /\ s \in 1..n
        /\ Live(pg) = {i \in 1..n : pg.slots[i].off # DELETED}
        /\ \A i \in 1..n : pg.slots[i] \in Slot /\ pg.slots[i].off \in Nat
    BY PageFields DEF GoodPage
  <1>1. DeletedSlot \in Slot /\ DeletedSlot.off = DELETED
    BY DEF DeletedSlot, Slot, DELETED, Rid, NoRid
  <1>2. /\ m \in Page /\ Len(m.slots) = n /\ m.fso = pg.fso
        /\ \A i \in 1..n : m.slots[i] = IF i = s THEN DeletedSlot ELSE pg.slots[i]
    BY <1>0, <1>1, SetSlots
  <1>3. \A i \in 1..n : Shifts(m.slots[i], o, l) <=>
                          i \in Live(pg) \ {s} /\ pg.slots[i].off > o
    BY <1>0, <1>1, <1>2 DEF Shifts
  <1>4. /\ o \in Nat /\ l \in Nat /\ l >= 1 /\ o + l <= pg.fso
        /\ pg.fso \in Nat
        /\ \A i \in Live(pg) \ {s} :
              /\ pg.slots[i].off \in Nat /\ pg.slots[i].off < DELETED
              /\ \/ pg.slots[i].off < o /\ pg.slots[i].off + pg.slots[i].len <= o
                 \/ pg.slots[i].off >= o + l
    BY SlotSides
  <1>5. \A i \in 1..n : Shifts(m.slots[i], o, l) => m.slots[i].off >= l
    <2> SUFFICES ASSUME NEW i \in Live(pg) \ {s}, pg.slots[i].off > o
                 PROVE  pg.slots[i].off >= l
      BY <1>2, <1>3
    <2> QED
      BY <1>4
  <1>6. l <= m.fso
    BY <1>2, <1>4
  <1>7. /\ d \in Page /\ Len(d.slots) = n /\ d.fso = pg.fso - l
        /\ \A i \in 1..n : d.slots[i] = IF Shifts(m.slots[i], o, l)
                                        THEN [m.slots[i] EXCEPT !.off = @ - l]
                                        ELSE m.slots[i]
    <2>1. d = compactPage(m, o, l)
      BY DEF Dropped
    <2>2. \A i \in 1..Len(m.slots) : Shifts(m.slots[i], o, l) => m.slots[i].off >= l
      BY <1>2, <1>5
    <2>3. m \in Page /\ o \in Nat /\ l \in Nat /\ Len(m.slots) = n /\ m.fso = pg.fso
      BY <1>2, <1>4
    <2> HIDE DEF m, d, o, l, n
    <2> QED
      BY <1>6, <2>1, <2>2, <2>3, CompactedSlots
  <1>8. /\ d.slots[s] = DeletedSlot
        /\ \A i \in 1..n \ Live(pg) : i # s => d.slots[i] = pg.slots[i]
    BY <1>0, <1>2, <1>3, <1>7
  <1>9. ASSUME NEW i \in Live(pg) \ {s}
        PROVE  Follows(pg, d, i, o, o + l, l) /\ d.slots[i].off # DELETED
    <2> DEFINE x == pg.slots[i].off
               y == pg.slots[i].len
    <2>1. m.slots[i] = pg.slots[i] /\ i \in 1..n /\ pg.slots[i] \in Slot
      BY <1>0, <1>2
    <2>2. /\ x \in Nat /\ x < DELETED
          /\ (x < o /\ x + y <= o) \/ x >= o + l
          /\ Shifts(m.slots[i], o, l) <=> x > o
          /\ d.slots[i] = IF Shifts(m.slots[i], o, l)
                          THEN [pg.slots[i] EXCEPT !.off = @ - l] ELSE pg.slots[i]
      BY <1>3, <1>4, <1>7, <2>1
    <2>3. CASE x < o
      <3>1. ~(x > o)
        BY <1>4, <2>2, <2>3
      <3>2. d.slots[i] = pg.slots[i]
        BY <2>2, <3>1
      <3>3. d.slots[i].off = x /\ d.slots[i].len = y
        BY <3>2
      <3> HIDE DEF x, y
      <3>4. x + y <= o /\ x \in Nat /\ x # DELETED
        BY <1>4, <2>2, <2>3 DEF DELETED
      <3> QED
        BY <3>3, <3>4 DEF Follows, x, y
    <2>4. CASE x >= o + l
      <3>1. x > o
        BY <1>4, <2>2, <2>4 DEF TOMBSTONE_LENGTH
      <3>2. d.slots[i] = [pg.slots[i] EXCEPT !.off = @ - l]
        BY <2>2, <3>1
      <3>3. d.slots[i].off = x - l /\ d.slots[i].len = y
        BY <2>1, <3>2 DEF Slot
      <3> HIDE DEF x, y
      <3>4. x - l \in Nat /\ x - l # DELETED
        BY <1>4, <2>2, <2>4 DEF DELETED
      <3> QED
        BY <2>4, <3>3, <3>4 DEF Follows, x, y
    <2> QED
      BY <2>2, <2>3, <2>4
  <1>10. Live(d) = Live(pg) \ {s}
    <2>1. Live(d) = {i \in 1..n : d.slots[i].off # DELETED}
      BY <1>7, PageFields
    <2>2. \A i \in 1..n : i \in Live(pg) \ {s} => d.slots[i].off # DELETED
      BY <1>9 DEF Follows, DELETED
    <2>3. \A i \in 1..n : i \notin Live(pg) \ {s} => d.slots[i].off = DELETED
      BY <1>0, <1>1, <1>8
    <2> QED
      BY <1>0, <2>1, <2>2, <2>3
  <1>11. ClosesGap(pg, d, s, o, l, 0)
    BY <1>4, <1>7, <1>9, <1>10 DEF ClosesGap
  <1>12. ASSUME NEW i \in Live(d) PROVE SameContent(d.slots[i], pg.slots[i])
    <2>1. i \in 1..n /\ i # s /\ m.slots[i] = pg.slots[i] /\ pg.slots[i] \in Slot
      BY <1>0, <1>2, <1>10
    <2>2. d.slots[i] = [pg.slots[i] EXCEPT !.off = @ - l] \/ d.slots[i] = pg.slots[i]
      BY <1>7, <2>1
    <2> QED
      BY <2>1, <2>2 DEF SameContent, Slot
  <1> QED
    BY <1>7, <1>10, <1>11, <1>12, GapClosed

\* Page pg with k bytes of slot s kept, described by `slot', and the gap behind
\* them closed: how updateRecord shrinks a record and leaves a tombstone.
Shrunk(pg, s, k, slot) ==
  SetSlot(compactPage(pg, pg.slots[s].off + k, pg.slots[s].len - k), s, slot)

\* Shrinking a slot keeps a page good.
LEMMA ShrunkGood ==
  ASSUME NEW pg, GoodPage(pg), NEW s \in Live(pg), NEW k \in Nat,
         1 <= k, k <= pg.slots[s].len,
         NEW slot \in Slot, slot.off = pg.slots[s].off, slot.len = k
  PROVE  LET q == Shrunk(pg, s, k, slot)
         IN  /\ GoodPage(q)
             /\ Live(q) = Live(pg)
             /\ q.slots[s] = slot
             /\ \A i \in Live(pg) \ {s} : SameContent(q.slots[i], pg.slots[i])
  <1> DEFINE n == Len(pg.slots)
             o == pg.slots[s].off
             l == pg.slots[s].len
             c == compactPage(pg, o + k, l - k)
             q == Shrunk(pg, s, k, slot)
  <1>1. /\ pg \in Page /\ n \in Nat /\ s \in 1..n
        /\ Live(pg) = {i \in 1..n : pg.slots[i].off # DELETED}
        /\ \A i \in 1..n : pg.slots[i] \in Slot /\ pg.slots[i].off \in Nat
    BY PageFields DEF GoodPage
  <1>2. /\ o \in Nat /\ l \in Nat /\ o + l <= pg.fso /\ pg.fso \in Nat
        /\ pg.fso < DELETED /\ l - k \in Nat /\ o + k \in Nat /\ l - k <= pg.fso
        /\ \A i \in Live(pg) \ {s} :
              /\ pg.slots[i].off \in Nat /\ pg.slots[i].off < DELETED
              /\ \/ pg.slots[i].off < o /\ pg.slots[i].off + pg.slots[i].len <= o
                 \/ pg.slots[i].off >= o + l
    BY SlotSides
  <1>3. \A i \in 1..n : Shifts(pg.slots[i], o + k, l - k) <=>
                          i \in Live(pg) \ {s} /\ pg.slots[i].off > o + k
    <2>1. ~(o > o + k)
      BY <1>2
    <2> QED
      BY <1>1, <2>1 DEF Shifts
  <1>4. \A i \in 1..n : Shifts(pg.slots[i], o + k, l - k) => pg.slots[i].off >= l - k
    <2> SUFFICES ASSUME NEW i \in Live(pg) \ {s}, pg.slots[i].off > o + k
                 PROVE  pg.slots[i].off >= l - k
      BY <1>3
    <2> DEFINE x == pg.slots[i].off
    <2>1. x \in Nat /\ (x < o \/ x >= o + l) /\ x > o + k
      BY <1>2
    <2> HIDE DEF x
    <2>2. x >= l - k
      BY <1>2, <2>1
    <2> QED
      BY <2>2 DEF x
  <1>5. /\ c \in Page /\ Len(c.slots) = n /\ c.fso = pg.fso - (l - k)
        /\ \A i \in 1..n : c.slots[i] = IF Shifts(pg.slots[i], o + k, l - k)
                                        THEN [pg.slots[i] EXCEPT !.off = @ - (l - k)]
                                        ELSE pg.slots[i]
    <2> DEFINE a == o + k
               g == l - k
    <2>1. a \in Nat /\ g \in Nat /\ g <= pg.fso
      BY <1>2
    <2>2. \A i \in 1..Len(pg.slots) : Shifts(pg.slots[i], a, g) => pg.slots[i].off >= g
      BY <1>4
    <2>3. c = compactPage(pg, a, g)
      OBVIOUS
    <2> HIDE DEF a, g, c
    <2>4. /\ c \in Page /\ Len(c.slots) = n /\ c.fso = pg.fso - g
          /\ \A i \in 1..n : c.slots[i] = IF Shifts(pg.slots[i], a, g)
                                          THEN [pg.slots[i] EXCEPT !.off = @ - g]
                                          ELSE pg.slots[i]
      BY <1>1, <2>1, <2>2, <2>3, CompactedSlots, ZenonT(60)
    <2> QED
      BY <2>4 DEF a, g
  <1>6. /\ q \in Page /\ Len(q.slots) = n /\ q.fso = pg.fso - (l - k)
        /\ \A i \in 1..n : q.slots[i] = IF i = s THEN slot ELSE c.slots[i]
    BY <1>1, <1>5, SetSlots DEF Shrunk
  <1>7. ASSUME NEW i \in Live(pg) \ {s}
        PROVE  Follows(pg, q, i, o, o + l, l - k) /\ q.slots[i].off # DELETED
    <2> DEFINE x == pg.slots[i].off
               y == pg.slots[i].len
    <2>1. i \in 1..n /\ pg.slots[i] \in Slot /\ i # s
      BY <1>1
    <2>2. /\ x \in Nat /\ x < DELETED
          /\ (x < o /\ x + y <= o) \/ x >= o + l
          /\ Shifts(pg.slots[i], o + k, l - k) <=> x > o + k
          /\ q.slots[i] = IF Shifts(pg.slots[i], o + k, l - k)
                          THEN [pg.slots[i] EXCEPT !.off = @ - (l - k)] ELSE pg.slots[i]
      BY <1>2, <1>3, <1>5, <1>6, <2>1
    <2>3. CASE ~(x > o + k)
      <3>1. q.slots[i] = pg.slots[i]
        BY <2>2, <2>3
      <3>2. q.slots[i].off = x /\ q.slots[i].len = y
        BY <3>1
      <3> HIDE DEF x, y
      <3>3. /\ x + y <= o \/ (x >= o + l /\ x = x - (l - k))
            /\ x \in Nat /\ x # DELETED
        BY <1>2, <2>2, <2>3 DEF DELETED
      <3> QED
        BY <3>2, <3>3 DEF Follows, x, y
    <2>4. CASE x > o + k
      <3>1. q.slots[i] = [pg.slots[i] EXCEPT !.off = @ - (l - k)]
        BY <2>2, <2>4
      <3>2. q.slots[i].off = x - (l - k) /\ q.slots[i].len = y
        BY <2>1, <3>1 DEF Slot
      <3> HIDE DEF x, y
      <3>3. x >= o + l /\ x - (l - k) \in Nat /\ x - (l - k) # DELETED
        BY <1>2, <2>2, <2>4 DEF DELETED
      <3> QED
        BY <3>2, <3>3 DEF Follows, x, y
    <2> QED
      BY <2>3, <2>4
  <1>8. q.slots[s].off = o /\ q.slots[s].len = k /\ o # DELETED
    BY <1>1, <1>6
  <1>9. Live(q) = Live(pg)
    <2>1. Live(q) = {i \in 1..n : q.slots[i].off # DELETED}
      BY <1>6, PageFields
    <2>2. \A i \in Live(pg) : q.slots[i].off # DELETED
      BY <1>7, <1>8
    <2>3. \A i \in 1..n \ Live(pg) : q.slots[i] = pg.slots[i]
      BY <1>1, <1>3, <1>5, <1>6
    <2> QED
      BY <1>1, <2>1, <2>2, <2>3
  <1>10. ClosesGap(pg, q, s, o, l, k)
    BY <1>2, <1>6, <1>7, <1>8, <1>9 DEF ClosesGap
  <1>11. ASSUME NEW i \in Live(pg) \ {s} PROVE SameContent(q.slots[i], pg.slots[i])
    <2>1. i \in 1..n /\ i # s /\ q.slots[i] = c.slots[i] /\ pg.slots[i] \in Slot
      BY <1>1, <1>6
    <2>2. \/ c.slots[i] = [pg.slots[i] EXCEPT !.off = @ - (l - k)]
          \/ c.slots[i] = pg.slots[i]
      BY <1>5, <2>1
    <2> QED
      BY <2>1, <2>2 DEF SameContent, Slot
  <1> QED
    BY <1>1, <1>6, <1>9, <1>10, <1>11, GapClosed

\* Page pg with slot s moved to the end of the data as `slot', the gap it left
\* closed: case 2 of updateRecord.
AtEnd(pg, s, slot) ==
  [SetSlot(compactPage(pg, pg.slots[s].off, pg.slots[s].len), s, slot)
     EXCEPT !.fso = @ + slot.len]

\* Moving a record to the end is dropping it and placing the new one.
LEMMA AtEndIsPlaced ==
  ASSUME NEW pg, GoodPage(pg), NEW s \in Live(pg), NEW slot \in Slot
  PROVE  AtEnd(pg, s, slot) = Placed(Dropped(pg, s), s, slot)
  <1> DEFINE n == Len(pg.slots)
             o == pg.slots[s].off
             l == pg.slots[s].len
             m == SetSlot(pg, s, DeletedSlot)
             d == Dropped(pg, s)
             c == compactPage(pg, o, l)
  <1>1. /\ pg \in Page /\ n \in Nat /\ s \in 1..n
        /\ DOMAIN pg.slots = 1..n
    BY PageFields DEF GoodPage
  <1>2. /\ DeletedSlot \in Slot /\ d \in Page /\ Len(d.slots) = n
    BY DroppedGood DEF GoodPage, DeletedSlot, Slot, DELETED, Rid, NoRid
  <1>3. /\ m.fso = pg.fso /\ m \in Page /\ Len(m.slots) = n
        /\ \A i \in 1..n : m.slots[i] = IF i = s THEN DeletedSlot ELSE pg.slots[i]
    BY <1>1, <1>2, SetSlots
  <1>4. DOMAIN m.slots = 1..n /\ DOMAIN d.slots = 1..n
    BY <1>2, <1>3, PageFields
  <1>5. d = [slots |-> [i \in 1..n |-> IF Shifts(m.slots[i], o, l)
                                     THEN [m.slots[i] EXCEPT !.off = @ - l]
                                     ELSE m.slots[i]],
             fso |-> pg.fso - l]
    BY <1>3, <1>4 DEF Dropped, compactPage
  <1>6. c = [slots |-> [i \in 1..n |-> IF Shifts(pg.slots[i], o, l)
                                     THEN [pg.slots[i] EXCEPT !.off = @ - l]
                                     ELSE pg.slots[i]],
             fso |-> pg.fso - l]
    BY <1>1 DEF compactPage
  <1>7. /\ AtEnd(pg, s, slot) = [SetSlot(c, s, slot) EXCEPT !.fso = @ + slot.len]
        /\ Placed(d, s, slot) = [slots |-> [d.slots EXCEPT ![s] = slot],
                                 fso |-> d.fso + slot.len]
    BY <1>1, <1>4 DEF AtEnd, Placed
  <1> HIDE DEF m, d, c, o, l, n
  <1>8. /\ c.fso = d.fso /\ c = [slots |-> c.slots, fso |-> c.fso]
        /\ DOMAIN c.slots = 1..n /\ DOMAIN d.slots = 1..n
        /\ c.slots = [i \in 1..n |-> c.slots[i]]
        /\ d.slots = [i \in 1..n |-> d.slots[i]]
    BY <1>5, <1>6
  <1>9. \A i \in 1..n : i # s => c.slots[i] = d.slots[i]
    <2> SUFFICES ASSUME NEW i \in 1..n, i # s
                 PROVE  c.slots[i] = d.slots[i]
      OBVIOUS
    <2>1. m.slots[i] = pg.slots[i]
      BY <1>3
    <2> QED
      BY <1>5, <1>6, <2>1
  <1>10. [c.slots EXCEPT ![s] = slot] = [d.slots EXCEPT ![s] = slot]
    BY <1>8, <1>9
  <1>11. SetSlot(c, s, slot) = [slots |-> [c.slots EXCEPT ![s] = slot], fso |-> c.fso]
    <2> DEFINE a == c.slots
               b == c.fso
    <2>1. c = [slots |-> a, fso |-> b]
      BY <1>8
    <2> HIDE DEF a, b
    <2>2. SetSlot(c, s, slot) = [slots |-> [a EXCEPT ![s] = slot], fso |-> b]
      BY <2>1 DEF SetSlot
    <2> QED
      BY <2>2 DEF a, b
  <1>12. [SetSlot(c, s, slot) EXCEPT !.fso = @ + slot.len]
           = [slots |-> [c.slots EXCEPT ![s] = slot], fso |-> c.fso + slot.len]
    BY <1>11
  <1>13. AtEnd(pg, s, slot) = Placed(d, s, slot)
    BY <1>7, <1>8, <1>10, <1>12
  <1> QED
    BY <1>13 DEF d

\* Moving a record to the end, when the page has room, keeps a page good.
LEMMA AtEndGood ==
  ASSUME NEW pg, GoodPage(pg), NEW s \in Live(pg), NEW slot \in Slot,
         slot.len >= 1,
         slot.off = pg.fso - pg.slots[s].len,
         checkFreeSpace(pg) >= slot.len
  PROVE  LET q == AtEnd(pg, s, slot)
         IN  /\ GoodPage(q)
             /\ Live(q) = Live(pg)
             /\ q.slots[s] = slot
             /\ \A i \in Live(pg) \ {s} : SameContent(q.slots[i], pg.slots[i])
  <1> DEFINE d == Dropped(pg, s)
             q == Placed(d, s, slot)
             n == Len(pg.slots)
             l == pg.slots[s].len
  <1>1. /\ GoodPage(d) /\ Len(d.slots) = n /\ s \notin Live(d)
        /\ d.fso = pg.fso - l /\ d \in Page
        /\ Live(d) = Live(pg) \ {s}
        /\ \A i \in Live(d) : SameContent(d.slots[i], pg.slots[i])
    BY DroppedGood DEF GoodPage
  <1>2. /\ pg.fso \in Nat /\ n \in Nat /\ s \in 1..n /\ slot.len \in Nat
        /\ l \in Nat
    BY PageFields DEF GoodPage, Slot
  <1>3. s \in 1..Len(d.slots) + 1 /\ s \in 1..n
    BY <1>1, <1>2
  <1>4. q.fso = pg.fso - l + slot.len /\ Len(q.slots) = n
    BY <1>1, <1>3, PlacedSlots
  <1>5. pg.fso + slot.len + n * 4 + 4 <= PAGE_SIZE
    <2> DEFINE free == PAGE_SIZE - 4 - n * 4 - pg.fso - 4
    <2>1. checkFreeSpace(pg) = IF free < 0 THEN 0 ELSE free
      BY DEF checkFreeSpace, SLOT_SIZE, PAGE_METADATA
    <2>2. slot.len >= 1 /\ checkFreeSpace(pg) >= slot.len
      OBVIOUS
    <2>3. free >= slot.len
      <3> HIDE DEF free
      <3> QED
        BY <1>2, <2>1, <2>2
    <2> DEFINE f == pg.fso
               z == slot.len
    <2>4. f \in Nat /\ z \in Nat /\ n \in Nat /\ PAGE_SIZE \in Nat
          /\ PAGE_SIZE - 4 - n * 4 - f - 4 >= z
      BY <1>2, <2>3, PageAssumption
    <2> HIDE DEF f, z, n
    <2>5. f + z + n * 4 + 4 <= PAGE_SIZE
      BY <2>4
    <2> QED
      BY <2>5 DEF f, z
  <1>6. ClearPage(q)
    <2> DEFINE f == pg.fso
               z == slot.len
    <2>1. f \in Nat /\ z \in Nat /\ l \in Nat /\ n \in Nat /\ f + z + n * 4 + 4 <= PAGE_SIZE
      BY <1>2, <1>5
    <2> HIDE DEF f, z, l, n
    <2>2. (f - l + z) + n * 4 + 4 <= PAGE_SIZE
      BY <2>1, PageAssumption
    <2> QED
      BY <1>4, <2>2 DEF ClearPage, SLOT_SIZE, PAGE_METADATA, f, z
  <1>7. /\ GoodPage(q) /\ Live(q) = Live(d) \cup {s} /\ q.slots[s] = slot
        /\ \A i \in Live(d) : q.slots[i] = d.slots[i]
    BY <1>1, <1>3, <1>6, PlacedGood
  <1>8. Live(q) = Live(pg)
    BY <1>1, <1>7
  <1>9. \A i \in Live(pg) \ {s} : SameContent(q.slots[i], pg.slots[i])
    BY <1>1, <1>7
  <1> HIDE DEF q
  <1> QED
    BY <1>7, <1>8, <1>9, AtEndIsPlaced DEF q

-----------------------------------------------------------------------------
(* Inserting a record. *)

\* The slots the operations write are slots.
LEMMA NewSlots ==
  /\ \A off \in Nat, rec \in Records, len \in Nat : RecordSlot(off, len, rec) \in Slot
  /\ \A off \in Nat, to \in Rid : TombstoneSlot(off, to) \in Slot
  BY RecordAssumption DEF RecordSlot, TombstoneSlot, Slot, TOMBSTONE_LENGTH

\* There is room for the slot insertRecord makes, of nine bytes if the record is shorter.
HasRoom(pg, s, rec) == s \in DOMAIN pg.slots \/ checkFreeSpace(pg) >= AllocSize(Size[rec])

\* The length of the slot a record is put in.
SlotLength(pg, s, rec) == IF s \in DOMAIN pg.slots THEN Size[rec] ELSE AllocSize(Size[rec])

\* PutRecord places the record at the end of the data, in a slot of its own.
LEMMA PutPlaces ==
  ASSUME NEW rec \in Records, NEW pg \in Page, NEW s, IsInsertSlot(pg, s)
  PROVE  /\ s \in 1..Len(pg.slots) + 1 /\ s \notin Live(pg)
         /\ SlotLength(pg, s, rec) \in Nat /\ SlotLength(pg, s, rec) >= 1
         /\ Size[rec] \in Nat /\ Size[rec] >= 1
         /\ AllocSize(Size[rec]) \in Nat /\ AllocSize(Size[rec]) >= Size[rec]
         /\ RecordSlot(pg.fso, SlotLength(pg, s, rec), rec) \in Slot
         /\ PutRecord(pg, s, rec) = Placed(pg, s, RecordSlot(pg.fso, SlotLength(pg, s, rec), rec))
  <1>1. /\ pg.fso \in Nat /\ Len(pg.slots) \in Nat /\ DOMAIN pg.slots = 1..Len(pg.slots)
        /\ Size[rec] \in Nat /\ Size[rec] >= 1
        /\ AllocSize(Size[rec]) \in Nat /\ AllocSize(Size[rec]) >= Size[rec]
    BY PageFields, RecordAssumption DEF AllocSize, TOMBSTONE_LENGTH
  <1>2. s \in 1..Len(pg.slots) + 1 /\ s \notin Live(pg)
    <2>1. CASE s \in Freed(pg)
      BY <1>1, <2>1 DEF Freed
    <2>2. CASE s = Len(pg.slots) + 1
      BY <1>1, <2>2 DEF Live
    <2> QED
      BY <2>1, <2>2 DEF IsInsertSlot
  <1>3. SlotLength(pg, s, rec) \in Nat /\ SlotLength(pg, s, rec) >= 1
    BY <1>1 DEF SlotLength
  <1>4. RecordSlot(pg.fso, SlotLength(pg, s, rec), rec) \in Slot
    BY <1>1, <1>3, NewSlots
  <1>5. PutRecord(pg, s, rec) = Placed(pg, s, RecordSlot(pg.fso, SlotLength(pg, s, rec), rec))
    <2>1. CASE s \in DOMAIN pg.slots
      BY <2>1 DEF PutRecord, Placed, SlotLength, RecordSlot
    <2>2. CASE s \notin DOMAIN pg.slots
      BY <2>2 DEF PutRecord, Placed, SlotLength, RecordSlot
    <2> QED
      BY <2>1, <2>2
  <1> QED
    BY <1>1, <1>2, <1>3, <1>4, <1>5

\* It fills one free slot and leaves the live ones as they are, with or without room.
LEMMA PutFills ==
  ASSUME NEW rec \in Records, NEW pg, GoodPage(pg), NEW s, IsInsertSlot(pg, s)
  PROVE  LET q == PutRecord(pg, s, rec)
         IN  /\ q \in Page
             /\ s \in Nat /\ s \notin Live(pg)
             /\ Live(q) = Live(pg) \cup {s}
             /\ q.slots[s].rec = rec /\ q.slots[s].fwd = ReadsAs[rec]
             /\ \A i \in Live(pg) : q.slots[i] = pg.slots[i]
  <1> DEFINE slot == RecordSlot(pg.fso, SlotLength(pg, s, rec), rec)
             q == PutRecord(pg, s, rec)
             n == Len(pg.slots)
  <1>1. /\ pg \in Page /\ s \in 1..n + 1 /\ s \notin Live(pg) /\ slot \in Slot
        /\ q = Placed(pg, s, slot)
    BY PutPlaces DEF GoodPage
  <1>2. slot.off = pg.fso /\ slot.rec = rec /\ slot.fwd = ReadsAs[rec]
    BY DEF RecordSlot
  <1>3. /\ n \in Nat /\ pg.fso \in Nat /\ pg.fso # DELETED
        /\ Live(pg) = {i \in 1..n : pg.slots[i].off # DELETED}
    BY <1>1, PageFields, PageAssumption DEF GoodPage, ClearPage, SLOT_SIZE, PAGE_METADATA
  <1> HIDE DEF slot, q
  <1>4. /\ q \in Page
        /\ Len(q.slots) = IF s \in 1..n THEN n ELSE n + 1
        /\ \A i \in 1..Len(q.slots) : q.slots[i] = IF i = s THEN slot ELSE pg.slots[i]
    BY <1>1, PlacedSlots
  <1>5. Live(q) = {i \in 1..Len(q.slots) : q.slots[i].off # DELETED}
    BY <1>4, PageFields
  <1>6. /\ s \in 1..Len(q.slots)
        /\ \A i \in 1..Len(q.slots) : i # s => i \in 1..n
        /\ \A i \in 1..n : i \in 1..Len(q.slots)
    <2> HIDE DEF n
    <2> QED
      BY <1>1, <1>3, <1>4
  <1>7. Live(q) = Live(pg) \cup {s}
    BY <1>2, <1>3, <1>4, <1>5, <1>6
  <1>8. q.slots[s] = slot /\ \A i \in Live(pg) : q.slots[i] = pg.slots[i]
    BY <1>1, <1>3, <1>4, <1>6
  <1>9. s \in Nat
    BY <1>1, <1>3
  <1> QED
    BY <1>1, <1>2, <1>4, <1>7, <1>8, <1>9 DEF q

\* With room for its slot it keeps the page good.
LEMMA PutGood ==
  ASSUME NEW rec \in Records, NEW pg, GoodPage(pg), NEW s, IsInsertSlot(pg, s),
         checkFreeSpace(pg) >= Size[rec], HasRoom(pg, s, rec)
  PROVE  GoodPage(PutRecord(pg, s, rec))
  <1> DEFINE n == Len(pg.slots)
             f == pg.fso
             z == SlotLength(pg, s, rec)
             slot == RecordSlot(f, z, rec)
             q == Placed(pg, s, slot)
  <1>1. /\ pg \in Page /\ f \in Nat /\ n \in Nat /\ z \in Nat /\ z >= 1
        /\ s \in 1..n + 1 /\ s \notin Live(pg) /\ slot \in Slot
        /\ PutRecord(pg, s, rec) = q
    BY PutPlaces, PageFields DEF GoodPage
  <1>2. slot.off = f /\ slot.len = z
    BY DEF RecordSlot
  <1>3. checkFreeSpace(pg) >= z
    BY DEF HasRoom, SlotLength
  <1>4. f + z + n * 4 + 8 <= PAGE_SIZE
    <2>1. checkFreeSpace(pg) = IF PAGE_SIZE - 4 - n * 4 - f - 4 < 0 THEN 0
                               ELSE PAGE_SIZE - 4 - n * 4 - f - 4
      BY DEF checkFreeSpace, SLOT_SIZE, PAGE_METADATA
    <2> HIDE DEF n, f, z
    <2> QED
      BY <1>1, <1>3, <2>1, PageAssumption
  <1>5. q.fso = f + z /\ Len(q.slots) <= n + 1 /\ Len(q.slots) \in Nat
    BY <1>1, <1>2, PlacedSlots
  <1>6. ClearPage(q)
    <2> DEFINE g == q.fso
               k == Len(q.slots)
    <2>1. g = f + z /\ k <= n + 1 /\ k \in Nat
      BY <1>5
    <2> HIDE DEF n, f, z, g, k, q
    <2>2. g + k * 4 + 4 <= PAGE_SIZE
      BY <1>1, <1>4, <2>1, PageAssumption
    <2> QED
      BY <2>2 DEF ClearPage, SLOT_SIZE, PAGE_METADATA, g, k
  <1> HIDE DEF slot, z
  <1>7. GoodPage(q)
    BY <1>1, <1>2, <1>6, PlacedGood
  <1> QED
    BY <1>1, <1>7

\* Replacing a page by a good one keeps the pages good.
LEMMA ReplacedGood ==
  ASSUME NEW ps, PagesGood(ps), NEW p \in DOMAIN ps, NEW pg, GoodPage(pg)
  PROVE  PagesGood([ps EXCEPT ![p] = pg]) /\ DOMAIN [ps EXCEPT ![p] = pg] = DOMAIN ps
  <1>1. ps \in Seq(Page) /\ pg \in Page /\ p \in 1..Len(ps) /\ DOMAIN ps = 1..Len(ps)
    BY LenProperties DEF PagesGood, GoodPage
  <1>2. [ps EXCEPT ![p] = pg] \in Seq(Page)
    BY <1>1, ExceptSeq
  <1> QED
    BY <1>1, <1>2 DEF PagesGood

\* So does appending one to the file.
LEMMA AppendedGood ==
  ASSUME NEW ps, PagesGood(ps), NEW pg, GoodPage(pg)
  PROVE  PagesGood(Append(ps, pg)) /\ DOMAIN ps \subseteq DOMAIN Append(ps, pg)
  <1> DEFINE qs == Append(ps, pg)
  <1>1. ps \in Seq(Page) /\ pg \in Page /\ DOMAIN ps = 1..Len(ps) /\ Len(ps) \in Nat
    BY LenProperties DEF PagesGood, GoodPage
  <1>2. /\ qs \in Seq(Page) /\ Len(qs) = Len(ps) + 1
        /\ \A p \in 1..Len(ps) : qs[p] = ps[p]
        /\ qs[Len(ps) + 1] = pg
    BY <1>1, AppendProperties
  <1>3. DOMAIN qs = 1..Len(ps) + 1
    BY <1>2, LenProperties
  <1>4. \A p \in DOMAIN qs : GoodPage(qs[p])
    <2> SUFFICES ASSUME NEW p \in DOMAIN qs PROVE GoodPage(qs[p])
      OBVIOUS
    <2>1. CASE p \in 1..Len(ps)
      BY <1>1, <1>2, <2>1 DEF PagesGood
    <2>2. CASE p = Len(ps) + 1
      BY <1>2, <2>2
    <2> QED
      BY <1>1, <1>3, <2>1, <2>2
  <1> QED
    BY <1>1, <1>2, <1>3, <1>4 DEF PagesGood

\* checkFreeSpace returns a number of bytes.
LEMMA FreeSpaceInt == \A pg \in Page : checkFreeSpace(pg) \in Nat
  <1> SUFFICES ASSUME NEW pg \in Page PROVE checkFreeSpace(pg) \in Nat
    OBVIOUS
  <1> DEFINE n == Len(pg.slots)
             f == pg.fso
  <1>1. n \in Nat /\ f \in Nat
    BY PageFields
  <1>2. checkFreeSpace(pg) = IF PAGE_SIZE - 4 - n * 4 - f - 4 < 0 THEN 0
                             ELSE PAGE_SIZE - 4 - n * 4 - f - 4
    BY DEF checkFreeSpace, SLOT_SIZE, PAGE_METADATA
  <1> HIDE DEF n, f
  <1> QED
    BY <1>1, <1>2, PageAssumption

\* The page insertRecord settles on has room for the record, a new page included.
LEMMA InsertPageRoom ==
  ASSUME PagesGood(pages), NEW rec \in Records, NEW p, IsInsertPage(Size[rec], p)
  PROVE  GoodPage(PageAt(p)) /\ checkFreeSpace(PageAt(p)) >= Size[rec]
  <1> DEFINE z == Size[rec]
  <1>1. /\ pages \in Seq(Page) /\ Len(pages) \in Nat /\ DOMAIN pages = 1..Len(pages)
        /\ z \in Nat /\ z + 8 <= PAGE_SIZE /\ PAGE_SIZE \in Nat
    BY LenProperties, RecordAssumption, PageAssumption DEF PagesGood, SLOT_SIZE, PAGE_METADATA
  <1>2. \A q \in DOMAIN pages : GoodPage(pages[q])
    BY DEF PagesGood
  <1>3. \A q \in DOMAIN pages : checkFreeSpace(pages[q]) \in Nat
    BY <1>2, FreeSpaceInt DEF GoodPage
  <1>4. CASE FitsLast(z) /\ p = Len(pages)
    <2>1. p \in DOMAIN pages
      <3>1. Len(pages) # 0
        BY <1>1, <1>4, EmptySeq DEF FitsLast
      <3> QED
        BY <1>1, <1>4, <3>1
    <2>2. PageAt(p) = pages[p]
      BY <2>1 DEF PageAt
    <2>3. checkFreeSpace(pages[p]) >= z + 4
      BY <1>4 DEF FitsLast, SLOT_SIZE
    <2> QED
      BY <1>1, <1>2, <1>3, <2>1, <2>2, <2>3
  <1>5. CASE p \in Roomy(z)
    <2>1. p \in DOMAIN pages /\ checkFreeSpace(pages[p]) >= z
      BY <1>1, <1>5 DEF Roomy
    <2> QED
      BY <1>2, <2>1 DEF PageAt
  <1>6. CASE p = Len(pages) + 1
    <2>1. PageAt(p) = EmptyPage
      BY <1>1, <1>6 DEF PageAt
    <2>2. checkFreeSpace(EmptyPage) >= z
      <3>1. Len(EmptyPage.slots) = 0 /\ EmptyPage.fso = 0
        BY DEF EmptyPage
      <3> QED
        BY <1>1, <3>1 DEF checkFreeSpace, SLOT_SIZE, PAGE_METADATA
    <2> QED
      BY <2>1, <2>2, EmptyPageGood
  <1> QED
    BY <1>4, <1>5, <1>6 DEF IsInsertPage

\* insertRecord keeps the pages good and loses none, with room for the slot it makes.
LEMMA InsertGood ==
  ASSUME PagesGood(pages), NEW rec \in Records, NEW p, NEW s,
         InsertsAt(rec, p, s), HasRoom(PageAt(p), s, rec)
  PROVE  /\ PagesGood(AfterInsert(rec, p, s))
         /\ DOMAIN pages \subseteq DOMAIN AfterInsert(rec, p, s)
  <1> DEFINE q == PutRecord(PageAt(p), s, rec)
  <1>1. GoodPage(q)
    BY InsertPageRoom, PutGood DEF InsertsAt
  <1> HIDE DEF q
  <1>2. AfterInsert(rec, p, s) = IF p \in DOMAIN pages THEN [pages EXCEPT ![p] = q]
                                                       ELSE Append(pages, q)
    BY DEF AfterInsert, WithPage, q
  <1> QED
    BY <1>1, <1>2, ReplacedGood, AppendedGood

\* An insertion that is not short of room has it.
LEMMA RoomThere ==
  ASSUME PagesGood(pages), NEW rec \in Records, NEW rid \in InsertRids,
         InsertsAt(rec, rid[1], rid[2]), ~ShortOfRoom(rec)
  PROVE  HasRoom(PageAt(rid[1]), rid[2], rec)
  <1> DEFINE pg == PageAt(rid[1])
             s == rid[2]
  <1>1. GoodPage(pg) /\ pg \in Page
    BY InsertPageRoom DEF InsertsAt, GoodPage
  <1>2. /\ s \in 1..Len(pg.slots) + 1 /\ AllocSize(Size[rec]) \in Nat
        /\ checkFreeSpace(pg) \in Nat
        /\ Len(pg.slots) \in Nat /\ DOMAIN pg.slots = 1..Len(pg.slots)
    BY <1>1, PutPlaces, FreeSpaceInt, PageFields DEF InsertsAt
  <1>3. s <= Len(pg.slots) \/ ~(checkFreeSpace(pg) < AllocSize(Size[rec]))
    BY <1>2 DEF ShortOfRoom
  <1> QED
    BY <1>2, <1>3 DEF HasRoom

\* A record no shorter than a tombstone is never short of room.
LEMMA LongHasRoom ==
  ASSUME PagesGood(pages), NEW rec \in Records, Size[rec] >= TOMBSTONE_LENGTH,
         NEW p, NEW s, InsertsAt(rec, p, s)
  PROVE  HasRoom(PageAt(p), s, rec)
  <1>1. checkFreeSpace(PageAt(p)) >= Size[rec]
    BY InsertPageRoom DEF InsertsAt
  <1>2. AllocSize(Size[rec]) = Size[rec]
    BY RecordAssumption DEF AllocSize, TOMBSTONE_LENGTH
  <1> QED
    BY <1>1, <1>2 DEF HasRoom

-----------------------------------------------------------------------------
(* The operations. *)

\* A slot that exists lies in a good page, and its tombstone field is a RID.
LEMMA ExistingSlot ==
  ASSUME LayoutInv, NEW rid, Exists(rid)
  PROVE  /\ rid[1] \in DOMAIN pages /\ GoodPage(pages[rid[1]])
         /\ rid[2] \in Live(pages[rid[1]])
         /\ SlotAt(rid).off \in Nat /\ SlotAt(rid).len \in Nat /\ SlotAt(rid).fwd \in Rid
  <1>1. GoodPage(pages[rid[1]]) /\ pages[rid[1]] \in Page
    BY DEF LayoutInv, PagesGood, Exists, GoodPage
  <1>2. rid[2] \in 1..Len(pages[rid[1]].slots)
    BY <1>1, PageFields DEF Exists
  <1> QED
    BY <1>1, <1>2, PageFields DEF Exists, SlotAt

\* One invocation of deleteRecord keeps the pages good.
LEMMA DropSlotGood ==
  ASSUME LayoutInv, NEW rid, Exists(rid), DropSlot(rid)
  PROVE  PagesGood(pages')
  <1> DEFINE d == Dropped(pages[rid[1]], rid[2])
  <1>1. GoodPage(d)
    BY ExistingSlot, DroppedGood
  <1>2. pages' = [pages EXCEPT ![rid[1]] = d]
    BY DEF DropSlot, Dropped, SlotAt
  <1> HIDE DEF d
  <1> QED
    BY <1>1, <1>2, ExistingSlot, ReplacedGood DEF LayoutInv

\* Case 1 of updateRecord does.
LEMMA UpdateInPlaceGood ==
  ASSUME LayoutInv, NEW rid, Exists(rid), NEW rec \in Records,
         UpdateInPlace(rid, rec)
  PROVE  PagesGood(pages')
  <1> DEFINE pg == pages[rid[1]]
             z == Size[rec]
             slot == RecordSlot(SlotAt(rid).off, z, rec)
             q == Shrunk(pg, rid[2], z, slot)
  <1>1. /\ z \in Nat /\ 1 <= z /\ z <= pg.slots[rid[2]].len
        /\ slot \in Slot /\ slot.len = z /\ slot.off = pg.slots[rid[2]].off
    BY RecordAssumption, ExistingSlot, NewSlots
       DEF UpdateInPlace, SlotAt, RecordSlot
  <1>2. pages' = [pages EXCEPT ![rid[1]] = q]
    BY DEF UpdateInPlace, Shrunk, SlotAt
  <1>3. GoodPage(pg) /\ rid[2] \in Live(pg)
    BY ExistingSlot
  <1> HIDE DEF z, slot
  <1>4. GoodPage(q)
    BY <1>1, <1>3, ShrunkGood
  <1> HIDE DEF q
  <1> QED
    BY <1>2, <1>4, ExistingSlot, ReplacedGood DEF LayoutInv

\* Case 2 does.
LEMMA UpdateAtEndGood ==
  ASSUME LayoutInv, NEW rid, Exists(rid), NEW rec \in Records,
         UpdateAtEnd(rid, rec)
  PROVE  PagesGood(pages')
  <1> DEFINE pg == pages[rid[1]]
             z == Size[rec]
             o == pg.slots[rid[2]].off
             l == pg.slots[rid[2]].len
             slot == RecordSlot(pg.fso - l, z, rec)
             q == AtEnd(pg, rid[2], slot)
  <1>1. /\ GoodPage(pg) /\ rid[2] \in Live(pg)
        /\ z \in Nat /\ z >= 1 /\ checkFreeSpace(pg) > z
    BY RecordAssumption, ExistingSlot DEF UpdateAtEnd
  <1>2. pg.fso - l \in Nat /\ compactPage(pg, o, l).fso = pg.fso - l
    BY <1>1, SlotSides DEF compactPage
  <1>3. slot \in Slot /\ slot.len = z /\ slot.off = pg.fso - l
    BY <1>1, <1>2, NewSlots DEF RecordSlot
  <1>4. pages' = [pages EXCEPT ![rid[1]] =
                    [SetSlot(compactPage(pg, o, l), rid[2], slot) EXCEPT !.fso = @ + z]]
    BY <1>2 DEF UpdateAtEnd, SlotAt
  <1>5. pages' = [pages EXCEPT ![rid[1]] = q]
    BY <1>3, <1>4 DEF AtEnd
  <1>6. checkFreeSpace(pg) >= slot.len
    <2>1. checkFreeSpace(pg) \in Nat
      BY <1>1, FreeSpaceInt DEF GoodPage
    <2> HIDE DEF slot, z
    <2> QED
      BY <1>1, <1>3, <2>1
  <1> HIDE DEF slot
  <1>7. GoodPage(q)
    BY <1>1, <1>3, <1>6, AtEndGood
  <1> HIDE DEF q
  <1> QED
    BY <1>5, <1>7, ExistingSlot, ReplacedGood DEF LayoutInv

\* Case 3 does, although it writes back a page read before the nested insert.  Only
\* a record longer than a tombstone is moved.
LEMMA UpdateByMovingGood ==
  ASSUME LayoutInv, NEW rid, Exists(rid), NEW rec \in Records,
         NEW to \in Rid, UpdateByMoving(rid, rec, to)
  PROVE  PagesGood(pages')
  <1> DEFINE pg == pages[rid[1]]
             slot == TombstoneSlot(SlotAt(rid).off, to)
             q == Shrunk(pg, rid[2], TOMBSTONE_LENGTH, slot)
             after == AfterInsert(rec, to[1], to[2])
  <1>1. /\ slot \in Slot /\ slot.len = TOMBSTONE_LENGTH
        /\ slot.off = pg.slots[rid[2]].off
        /\ TOMBSTONE_LENGTH \in Nat /\ 1 <= TOMBSTONE_LENGTH
        /\ TOMBSTONE_LENGTH <= pg.slots[rid[2]].len
    BY ExistingSlot, NewSlots DEF UpdateByMoving, TombstoneSlot, SlotAt, TOMBSTONE_LENGTH
  <1>2. pages' = [after EXCEPT ![rid[1]] = q]
    BY DEF UpdateByMoving, Shrunk, SlotAt
  <1>3. GoodPage(pg) /\ rid[2] \in Live(pg) /\ rid[1] \in DOMAIN pages
    BY ExistingSlot
  <1>4. PagesGood(after) /\ rid[1] \in DOMAIN after
    <2>1. /\ Size[rec] \in Nat /\ SlotAt(rid).len \in Nat
          /\ SlotAt(rid).len < Size[rec] /\ SlotAt(rid).len >= TOMBSTONE_LENGTH
      BY RecordAssumption, ExistingSlot DEF UpdateByMoving
    <2>2. Size[rec] >= TOMBSTONE_LENGTH
      BY <2>1 DEF TOMBSTONE_LENGTH
    <2>3. HasRoom(PageAt(to[1]), to[2], rec)
      BY <2>2, LongHasRoom DEF LayoutInv, UpdateByMoving
    <2> QED
      BY <1>3, <2>3, InsertGood DEF LayoutInv, UpdateByMoving
  <1> HIDE DEF slot, after
  <1>5. GoodPage(q)
    BY <1>1, <1>3, ShrunkGood
  <1> HIDE DEF q
  <1> QED
    BY <1>2, <1>4, <1>5, ReplacedGood

-----------------------------------------------------------------------------
(* The invariant. *)

\* An empty file is well formed.
LEMMA InitGood == Init => LayoutInv
  BY EmptySeq DEF Init, LayoutInv, PagesGood, NoRid, Rid

\* Where insertRecord puts a record is a RID.
LEMMA InsertRidsAreRids ==
  ASSUME LayoutInv
  PROVE  InsertRids \subseteq Rid
  <1>1. Len(pages) \in Nat
    BY LenProperties DEF LayoutInv, PagesGood
  <1>2. \A p \in 1..Len(pages) + 1 : Len(PageAt(p).slots) \in Nat
    <2> SUFFICES ASSUME NEW p \in 1..Len(pages) + 1 PROVE Len(PageAt(p).slots) \in Nat
      OBVIOUS
    <2>1. GoodPage(PageAt(p))
      BY EmptyPageGood DEF PageAt, LayoutInv, PagesGood
    <2> QED
      BY <2>1, PageFields DEF GoodPage
  <1> QED
    BY <1>1, <1>2 DEF InsertRids, Rid

\* Every step of a client whose insertions find room keeps the pages good.
LEMMA StepGood ==
  ASSUME LayoutInv, [RoomyNext]_vars
  PROVE  LayoutInv'
  <1>1. ASSUME NEW rec \in Records, ~ShortOfRoom(rec), insertRecord(rec)
        PROVE  LayoutInv'
    BY <1>1, RoomThere, InsertGood DEF insertRecord, LayoutInv
  <1>2. ASSUME NEW rid \in LiveRids, deleteRecord(rid)
        PROVE  LayoutInv'
    BY <1>2, DropSlotGood, ExistingSlot DEF deleteRecord, LayoutInv
  <1>3. ASSUME DeleteForwarded
        PROVE  LayoutInv'
    <2>1. CASE Exists(pending)
      BY <1>3, <2>1, DropSlotGood, ExistingSlot DEF DeleteForwarded, LayoutInv
    <2>2. CASE ~Exists(pending)
      BY <1>3, <2>2 DEF DeleteForwarded, LayoutInv, NoRid, Rid
    <2> QED
      BY <2>1, <2>2
  <1>4. ASSUME NEW rid \in LiveRids, NEW rec \in Records, updateRecord(rid, rec)
        PROVE  LayoutInv'
    <2>1. Exists(rid) /\ UNCHANGED pending
      BY <1>4 DEF updateRecord
    <2>2. CASE UpdateInPlace(rid, rec)
      BY <2>1, <2>2, UpdateInPlaceGood DEF LayoutInv
    <2>3. CASE UpdateAtEnd(rid, rec)
      BY <2>1, <2>3, UpdateAtEndGood DEF LayoutInv
    <2>4. ASSUME NEW to \in InsertRids, UpdateByMoving(rid, rec, to)
          PROVE  LayoutInv'
      BY <2>1, <2>4, InsertRidsAreRids, UpdateByMovingGood DEF LayoutInv
    <2> QED
      BY <1>4, <2>2, <2>3, <2>4 DEF updateRecord
  <1>5. CASE UNCHANGED vars
    BY <1>5 DEF vars, LayoutInv, PagesGood
  <1> QED
    BY <1>1, <1>2, <1>3, <1>4, <1>5 DEF RoomyNext

\* What the invariant says of the pages, property by property.
LEMMA InvImpliesLayout == LayoutInv => TypeOK /\ Layout
  BY DEF LayoutInv, PagesGood, GoodPage, TypeOK, Layout, DirectoryClear,
         RecordsApart, NoSpaceLeaks

\* The invariant holds throughout, whatever RIDs the clients pass.
THEOREM LayoutInvariant == RoomySpec => []LayoutInv
  <1>1. LayoutInv /\ [RoomyNext]_vars => LayoutInv'
    BY StepGood
  <1> QED
    BY <1>1, InitGood, PTL DEF RoomySpec

\* Slots, offsets, lengths and RIDs stay natural numbers: no unsigned offset
\* wraps in compactPage, whatever sequence of calls led to it.
THEOREM TypeCorrect == RoomySpec => []TypeOK
  BY LayoutInvariant, InvImpliesLayout, PTL

\* Records and the slot directory are kept apart by all that any client does but one
\* thing: the insertion of a record shorter than nine bytes into a page that has room
\* for it but not for nine (ShortOfRoom).
THEOREM DirectoryStaysClear == RoomySpec => []DirectoryClear
  <1>1. LayoutInv => DirectoryClear
    BY InvImpliesLayout DEF Layout
  <1> QED
    BY <1>1, LayoutInvariant, PTL

\* No two records of a page share a byte, and all lie in the data area.
THEOREM RecordsStayApart == RoomySpec => []RecordsApart
  <1>1. LayoutInv => RecordsApart
    BY InvImpliesLayout DEF Layout
  <1> QED
    BY <1>1, LayoutInvariant, PTL

\* Every byte below the free-space offset belongs to a live record.
THEOREM NoSpaceIsLost == RoomySpec => []NoSpaceLeaks
  <1>1. LayoutInv => NoSpaceLeaks
    BY InvImpliesLayout DEF Layout
  <1> QED
    BY <1>1, LayoutInvariant, PTL

\* No record's first bytes spell a tombstone.
NoLookAlikes == \A r \in Records : ReadsAs[r] = NoRid

-----------------------------------------------------------------------------
(* RIDs and the slots they name. *)

LEMMA RidPair ==
  /\ \A rid \in Rid : rid = <<rid[1], rid[2]>> /\ rid[1] \in Nat /\ rid[2] \in Nat
  /\ \A p \in Nat, s \in Nat : <<p, s>> \in Rid
BY DEF Rid

\* The pages are numbered from 1 and their live slots too.
LEMMA PagesAre ==
  ASSUME LayoutInv
  PROVE  /\ DOMAIN pages = 1..Len(pages) /\ Len(pages) \in Nat
         /\ \A p \in DOMAIN pages :
               /\ GoodPage(pages[p]) /\ pages[p] \in Page
               /\ Live(pages[p]) \subseteq Nat \ {0}
               /\ \A s \in Live(pages[p]) : pages[p].slots[s] \in Slot
<1>1. DOMAIN pages = 1..Len(pages) /\ Len(pages) \in Nat
  BY LenProperties DEF LayoutInv, PagesGood
<1>2. \A p \in DOMAIN pages : GoodPage(pages[p]) /\ pages[p] \in Page
  BY DEF LayoutInv, PagesGood, GoodPage
<1>3. ASSUME NEW p \in DOMAIN pages
      PROVE  /\ Live(pages[p]) \subseteq Nat \ {0}
             /\ \A s \in Live(pages[p]) : pages[p].slots[s] \in Slot
  BY <1>2, PageFields
<1> QED BY <1>1, <1>2, <1>3

\* The live RIDs are those that exist.
LEMMA LiveRidsAre == LayoutInv => LiveRids = {rid \in Rid : Exists(rid)}
<1> SUFFICES ASSUME LayoutInv PROVE LiveRids = {rid \in Rid : Exists(rid)}
  OBVIOUS
<1>1. ASSUME NEW rid \in LiveRids PROVE rid \in Rid /\ Exists(rid)
  <2>1. PICK p \in DOMAIN pages : rid \in {p} \X Live(pages[p])
    BY DEF LiveRids
  <2> QED BY <2>1, PagesAre DEF Exists, Rid
<1>2. ASSUME NEW rid \in Rid, Exists(rid) PROVE rid \in LiveRids
  <2>1. rid \in {rid[1]} \X Live(pages[rid[1]]) /\ rid[1] \in DOMAIN pages
    BY <1>2, RidPair DEF Exists
  <2> QED BY <2>1 DEF LiveRids
<1> QED BY <1>1, <1>2

LEMMA LiveRidsNext == LayoutInv' => LiveRids' = {rid \in Rid : Exists(rid)'}
<1>1. (LayoutInv => LiveRids = {rid \in Rid : Exists(rid)})'
  BY LiveRidsAre, PTL
<1> QED BY <1>1

\* A slot holds a RID, and <<0, 0>> names none.
LEMMA SlotsHoldRids ==
  ASSUME LayoutInv
  PROVE  /\ ~Exists(NoRid) /\ NoRid \in Rid
         /\ \A rid : Exists(rid) => SlotAt(rid).fwd \in Rid
         /\ \A rid : IsTombstone(rid) <=> Exists(rid) /\ SlotAt(rid).fwd # NoRid
BY ExistingSlot, PagesAre DEF NoRid, Exists, IsTombstone, Rid

-----------------------------------------------------------------------------
(* What the calls do to the slots. *)

\* A slot holds what it held before.
Kept(rid) == SameContent(SlotAt(rid)', SlotAt(rid))

\* One page of the file replaced.
LEMMA PageReplaced ==
  ASSUME LayoutInv, NEW p \in DOMAIN pages, NEW q, pages' = [pages EXCEPT ![p] = q]
  PROVE  \A rid \in Rid :
            /\ Exists(rid)' <=> IF rid[1] = p THEN rid[2] \in Live(q) ELSE Exists(rid)
            /\ SlotAt(rid)' = IF rid[1] = p THEN q.slots[rid[2]]
                              ELSE IF rid[1] \in DOMAIN pages THEN SlotAt(rid)
                              ELSE SlotAt(rid)'
<1>1. DOMAIN pages' = DOMAIN pages /\ pages'[p] = q
      /\ \A n \in DOMAIN pages : n # p => pages'[n] = pages[n]
  OBVIOUS
<1> QED BY <1>1 DEF Exists, SlotAt

\* The slot at rid is written, with a record or a RID; the others are kept.
Writes(rid, rec, fwd) ==
  /\ \A r \in Rid : Exists(r)' <=> Exists(r)
  /\ SlotAt(rid)'.rec = rec /\ SlotAt(rid)'.fwd = fwd
  /\ \A r \in Rid \ {rid} : Exists(r) => Kept(r)

\* The slot at rid is freed; the others are kept.
Frees(rid) ==
  /\ \A r \in Rid : Exists(r)' <=> Exists(r) /\ r # rid
  /\ \A r \in Rid \ {rid} : Exists(r) => Kept(r)

\* A free slot gets a record; the others are kept.
Fills(rid, rec) ==
  /\ ~Exists(rid)
  /\ \A r \in Rid : Exists(r)' <=> Exists(r) \/ r = rid
  /\ SlotAt(rid)'.rec = rec /\ SlotAt(rid)'.fwd = ReadsAs[rec]
  /\ \A r \in Rid : Exists(r) => Kept(r)

\* A free slot gets the record of rid, which keeps a RID to it.
Moves(rid, rec, to) ==
  /\ ~Exists(to) /\ to # rid
  /\ \A r \in Rid : Exists(r)' <=> Exists(r) \/ r = to
  /\ SlotAt(to)'.rec = rec /\ SlotAt(to)'.fwd = ReadsAs[rec]
  /\ SlotAt(rid)'.rec = NoRecord /\ SlotAt(rid)'.fwd = to
  /\ \A r \in Rid \ {rid} : Exists(r) => Kept(r)

LEMMA DropFrees ==
  ASSUME LayoutInv, NEW rid \in Rid, Exists(rid), DropSlot(rid)
  PROVE  Frees(rid)
<1> DEFINE p == rid[1]
           d == Dropped(pages[p], rid[2])
<1>1. /\ p \in DOMAIN pages /\ GoodPage(pages[p]) /\ rid[2] \in Live(pages[p])
  BY ExistingSlot
<1>2. /\ Live(d) = Live(pages[p]) \ {rid[2]}
      /\ \A i \in Live(d) : SameContent(d.slots[i], pages[p].slots[i])
  BY <1>1, DroppedGood
<1>3. pages' = [pages EXCEPT ![p] = d]
  BY DEF DropSlot, Dropped, SlotAt
<1> HIDE DEF d
<1>4. ASSUME NEW r \in Rid
      PROVE  /\ Exists(r)' <=> Exists(r) /\ r # rid
             /\ r # rid /\ Exists(r) => Kept(r)
  <2>1. CASE r[1] = p
    <3>1. r = rid <=> r[2] = rid[2]
      BY <2>1, RidPair
    <3> QED BY <1>1, <1>2, <1>3, <2>1, <3>1, PageReplaced DEF Exists, Kept, SlotAt
  <2>2. CASE r[1] # p
    <3>1. (Exists(r)' <=> Exists(r)) /\ (Exists(r) => SlotAt(r)' = SlotAt(r))
      BY <1>1, <1>3, <2>2, PageReplaced DEF Exists
    <3> QED BY <2>2, <3>1 DEF Kept, SameContent
  <2> QED BY <2>1, <2>2
<1> QED BY <1>4 DEF Frees

\* A page replaced by one with the same live slots, one of them written.
LEMMA PageWrites ==
  ASSUME LayoutInv, NEW rid \in Rid, Exists(rid), NEW q, NEW rec, NEW fwd,
         pages' = [pages EXCEPT ![rid[1]] = q],
         Live(q) = Live(pages[rid[1]]),
         q.slots[rid[2]].rec = rec, q.slots[rid[2]].fwd = fwd,
         \A i \in Live(q) \ {rid[2]} : SameContent(q.slots[i], pages[rid[1]].slots[i])
  PROVE  Writes(rid, rec, fwd)
<1> DEFINE p == rid[1]
<1>1. p \in DOMAIN pages /\ rid[2] \in Live(pages[p])
  BY ExistingSlot
<1>2. SlotAt(rid)' = q.slots[rid[2]]
  BY <1>1, PageReplaced
<1>3. ASSUME NEW r \in Rid
      PROVE  /\ Exists(r)' <=> Exists(r)
             /\ r # rid /\ Exists(r) => Kept(r)
  <2>1. CASE r[1] = p
    <3>1. r = rid <=> r[2] = rid[2]
      BY <2>1, RidPair
    <3> QED BY <1>1, <2>1, <3>1, PageReplaced DEF Exists, Kept, SlotAt
  <2>2. CASE r[1] # p
    <3>1. (Exists(r)' <=> Exists(r)) /\ (Exists(r) => SlotAt(r)' = SlotAt(r))
      BY <1>1, <2>2, PageReplaced DEF Exists
    <3> QED BY <2>2, <3>1 DEF Kept, SameContent
  <2> QED BY <2>1, <2>2
<1> QED BY <1>2, <1>3 DEF Writes

\* The page insertRecord leaves, wherever it settles.
LEMMA InsertedPage ==
  ASSUME LayoutInv, NEW rec \in Records, NEW p, NEW s, InsertsAt(rec, p, s)
  PROVE  LET after == AfterInsert(rec, p, s)
         IN  /\ p \in Nat /\ s \in Nat /\ <<p, s>> \in Rid /\ ~Exists(<<p, s>>)
             /\ DOMAIN after = DOMAIN pages \cup {p}
             /\ \A n \in DOMAIN pages : n # p => after[n] = pages[n]
             /\ \A i : i \in Live(after[p]) <=> Exists(<<p, i>>) \/ i = s
             /\ after[p].slots[s].rec = rec /\ after[p].slots[s].fwd = ReadsAs[rec]
             /\ \A i : Exists(<<p, i>>) => after[p].slots[i] = SlotAt(<<p, i>>)
<1> DEFINE q == PutRecord(PageAt(p), s, rec)
           after == AfterInsert(rec, p, s)
<1>1. /\ GoodPage(PageAt(p)) /\ checkFreeSpace(PageAt(p)) >= Size[rec]
      /\ IsInsertSlot(PageAt(p), s)
  BY InsertPageRoom DEF InsertsAt, LayoutInv
<1>2. /\ q \in Page /\ s \in Nat /\ s \notin Live(PageAt(p))
      /\ Live(q) = Live(PageAt(p)) \cup {s}
      /\ q.slots[s].rec = rec /\ q.slots[s].fwd = ReadsAs[rec]
      /\ \A i \in Live(PageAt(p)) : q.slots[i] = PageAt(p).slots[i]
  BY <1>1, PutFills
<1>3. pages \in Seq(Page) /\ DOMAIN pages = 1..Len(pages) /\ Len(pages) \in Nat
  BY PagesAre DEF LayoutInv, PagesGood
<1>4. p \in 1..Len(pages) + 1
  <2>1. CASE FitsLast(Size[rec]) /\ p = Len(pages)
    <3>1. Len(pages) # 0
      BY <1>3, <2>1, EmptySeq DEF FitsLast
    <3> QED BY <1>3, <2>1, <3>1
  <2>2. CASE p \in Roomy(Size[rec])
    BY <1>3, <2>2 DEF Roomy
  <2>3. CASE p = Len(pages) + 1
    BY <1>3, <2>3
  <2> QED BY <2>1, <2>2, <2>3 DEF InsertsAt, IsInsertPage
<1>5. \A i : Exists(<<p, i>>) <=> i \in Live(PageAt(p))
  <2>1. CASE p \in DOMAIN pages
    BY <2>1 DEF Exists, PageAt
  <2>2. CASE p \notin DOMAIN pages
    <3>1. EmptyPage \in Page /\ Len(EmptyPage.slots) = 0
      BY EmptySeq DEF EmptyPage, Page
    <3>2. Live(EmptyPage) = {}
      BY <3>1, PageFields, SMT
    <3> QED BY <2>2, <3>2 DEF Exists, PageAt
  <2> QED BY <2>1, <2>2
<1>6. \A i : Exists(<<p, i>>) => PageAt(p).slots[i] = SlotAt(<<p, i>>)
  BY DEF Exists, PageAt, SlotAt
<1> HIDE DEF q
<1>7. after = IF p \in DOMAIN pages THEN [pages EXCEPT ![p] = q] ELSE Append(pages, q)
  BY DEF AfterInsert, WithPage, q
<1>8. /\ DOMAIN after = DOMAIN pages \cup {p}
      /\ after[p] = q
      /\ \A n \in DOMAIN pages : n # p => after[n] = pages[n]
  <2>1. CASE p \in DOMAIN pages
    BY <1>7, <2>1
  <2>2. CASE p \notin DOMAIN pages
    <3>1. p = Len(pages) + 1
      BY <1>3, <1>4, <2>2
    <3>2. q \in Page
      BY <1>2
    <3>3. /\ Append(pages, q) \in Seq(Page) /\ Len(Append(pages, q)) = Len(pages) + 1
          /\ \A n \in 1..Len(pages) : Append(pages, q)[n] = pages[n]
          /\ Append(pages, q)[Len(pages) + 1] = q
      BY <1>3, <3>2, AppendProperties
    <3>4. DOMAIN Append(pages, q) = 1..Len(pages) + 1
      BY <3>3, LenProperties
    <3> QED BY <1>3, <1>7, <2>2, <3>1, <3>3, <3>4
  <2> QED BY <2>1, <2>2
<1>9. <<p, s>> \in Rid /\ p \in Nat
  BY <1>2, <1>3, <1>4 DEF Rid
<1> HIDE DEF after
<1> QED BY <1>2, <1>5, <1>6, <1>8, <1>9 DEF after

LEMMA InsertFills ==
  ASSUME LayoutInv, NEW rec \in Records, NEW rid \in Rid,
         InsertsAt(rec, rid[1], rid[2]), pages' = AfterInsert(rec, rid[1], rid[2])
  PROVE  Fills(rid, rec)
<1> DEFINE p == rid[1]
           s == rid[2]
<1>1. /\ ~Exists(rid) /\ rid = <<p, s>>
      /\ DOMAIN pages' = DOMAIN pages \cup {p}
      /\ \A n \in DOMAIN pages : n # p => pages'[n] = pages[n]
      /\ \A i : i \in Live(pages'[p]) <=> Exists(<<p, i>>) \/ i = s
      /\ pages'[p].slots[s].rec = rec /\ pages'[p].slots[s].fwd = ReadsAs[rec]
      /\ \A i : Exists(<<p, i>>) => pages'[p].slots[i] = SlotAt(<<p, i>>)
  BY InsertedPage, RidPair
<1>2. ASSUME NEW r \in Rid
      PROVE  /\ Exists(r)' <=> Exists(r) \/ r = rid
             /\ Exists(r) => Kept(r)
  <2>1. CASE r[1] = p
    <3>1. r = <<p, r[2]>> /\ (r = rid <=> r[2] = s)
      BY <2>1, RidPair
    <3>2. Exists(r)' <=> r[2] \in Live(pages'[p])
      BY <1>1, <2>1 DEF Exists
    <3>3. SlotAt(r)' = pages'[p].slots[r[2]]
      BY <2>1 DEF SlotAt
    <3> QED BY <1>1, <3>1, <3>2, <3>3 DEF Kept, SameContent
  <2>2. CASE r[1] # p
    <3>1. (Exists(r)' <=> Exists(r)) /\ (Exists(r) => SlotAt(r)' = SlotAt(r))
      BY <1>1, <2>2 DEF Exists, SlotAt
    <3> QED BY <2>2, <3>1 DEF Kept, SameContent
  <2> QED BY <2>1, <2>2
<1>3. SlotAt(rid)'.rec = rec /\ SlotAt(rid)'.fwd = ReadsAs[rec]
  BY <1>1 DEF SlotAt
<1> QED BY <1>1, <1>2, <1>3 DEF Fills

\* Cases 1 and 2 of updateRecord write the record into its slot.
LEMMA UpdateWrites ==
  ASSUME LayoutInv, NEW rid \in Rid, Exists(rid), NEW rec \in Records,
         UpdateInPlace(rid, rec) \/ UpdateAtEnd(rid, rec)
  PROVE  Writes(rid, rec, ReadsAs[rec])
<1> DEFINE p == rid[1]
           s == rid[2]
           pg == pages[p]
           z == Size[rec]
           l == pg.slots[s].len
<1>1. GoodPage(pg) /\ s \in Live(pg) /\ z \in Nat /\ 1 <= z
  BY RecordAssumption, ExistingSlot
<1>2. CASE UpdateInPlace(rid, rec)
  <2> DEFINE slot == RecordSlot(SlotAt(rid).off, z, rec)
             q == Shrunk(pg, s, z, slot)
  <2>1. /\ z <= l /\ slot \in Slot /\ slot.len = z /\ slot.off = pg.slots[s].off
        /\ slot.rec = rec /\ slot.fwd = ReadsAs[rec]
    BY <1>1, <1>2, ExistingSlot, NewSlots DEF UpdateInPlace, SlotAt, RecordSlot
  <2>2. pages' = [pages EXCEPT ![p] = q]
    BY <1>2 DEF UpdateInPlace, Shrunk, SlotAt
  <2> HIDE DEF slot
  <2>3. /\ Live(q) = Live(pg) /\ q.slots[s] = slot
        /\ \A i \in Live(pg) \ {s} : SameContent(q.slots[i], pg.slots[i])
    BY <1>1, <2>1, ShrunkGood
  <2> HIDE DEF q
  <2> QED BY <2>1, <2>2, <2>3, PageWrites
<1>3. CASE UpdateAtEnd(rid, rec)
  <2> DEFINE o == pg.slots[s].off
             slot == RecordSlot(pg.fso - l, z, rec)
             q == AtEnd(pg, s, slot)
  <2>1. pg.fso - l \in Nat /\ compactPage(pg, o, l).fso = pg.fso - l
    BY <1>1, SlotSides DEF compactPage
  <2>2. /\ slot \in Slot /\ slot.len = z /\ slot.off = pg.fso - l
        /\ slot.rec = rec /\ slot.fwd = ReadsAs[rec]
    BY <1>1, <2>1, NewSlots DEF RecordSlot
  <2>3. pages' = [pages EXCEPT ![p] =
                    [SetSlot(compactPage(pg, o, l), s, slot) EXCEPT !.fso = @ + z]]
    BY <1>3, <2>1 DEF UpdateAtEnd, SlotAt
  <2>4. pages' = [pages EXCEPT ![p] = q]
    BY <2>2, <2>3 DEF AtEnd
  <2>5. checkFreeSpace(pg) \in Nat /\ checkFreeSpace(pg) > z
    BY <1>1, <1>3, FreeSpaceInt DEF GoodPage, UpdateAtEnd
  <2> HIDE DEF slot
  <2>6. checkFreeSpace(pg) >= slot.len
    <3> HIDE DEF z
    <3> QED BY <1>1, <2>2, <2>5
  <2>7. /\ Live(q) = Live(pg) /\ q.slots[s] = slot
        /\ \A i \in Live(pg) \ {s} : SameContent(q.slots[i], pg.slots[i])
    BY <1>1, <2>2, <2>6, AtEndGood
  <2> HIDE DEF q
  <2> QED BY <2>2, <2>4, <2>7, PageWrites
<1> QED BY <1>2, <1>3

\* Case 3 moves the record, unless insertRecord chose the page itself: then
\* the copy is overwritten, and the tombstone leads to a free slot.
LEMMA UpdateMoves ==
  ASSUME LayoutInv, NEW rid \in Rid, Exists(rid), NEW rec \in Records,
         NEW to \in Rid, UpdateByMoving(rid, rec, to)
  PROVE  /\ ~Exists(to)
         /\ IF to[1] = rid[1] THEN Writes(rid, NoRecord, to) ELSE Moves(rid, rec, to)
<1> DEFINE p == rid[1]
           s == rid[2]
           pg == pages[p]
           slot == TombstoneSlot(SlotAt(rid).off, to)
           q == Shrunk(pg, s, TOMBSTONE_LENGTH, slot)
           after == AfterInsert(rec, to[1], to[2])
<1>1. /\ slot \in Slot /\ slot.len = TOMBSTONE_LENGTH /\ slot.rec = NoRecord
      /\ slot.fwd = to /\ slot.off = pg.slots[s].off
      /\ TOMBSTONE_LENGTH \in Nat /\ 1 <= TOMBSTONE_LENGTH
      /\ TOMBSTONE_LENGTH <= pg.slots[s].len
  BY ExistingSlot, NewSlots DEF UpdateByMoving, TombstoneSlot, SlotAt, TOMBSTONE_LENGTH
<1>2. pages' = [after EXCEPT ![p] = q]
  BY DEF UpdateByMoving, Shrunk, SlotAt
<1>3. GoodPage(pg) /\ s \in Live(pg) /\ p \in DOMAIN pages
  BY ExistingSlot
<1> HIDE DEF slot
<1>4. /\ Live(q) = Live(pg) /\ q.slots[s] = slot
      /\ \A i \in Live(pg) \ {s} : SameContent(q.slots[i], pg.slots[i])
  BY <1>1, <1>3, ShrunkGood
<1>5. /\ to = <<to[1], to[2]>> /\ ~Exists(to)
      /\ DOMAIN after = DOMAIN pages \cup {to[1]}
      /\ \A n \in DOMAIN pages : n # to[1] => after[n] = pages[n]
      /\ \A i : i \in Live(after[to[1]]) <=> Exists(<<to[1], i>>) \/ i = to[2]
      /\ after[to[1]].slots[to[2]].rec = rec /\ after[to[1]].slots[to[2]].fwd = ReadsAs[rec]
      /\ \A i : Exists(<<to[1], i>>) => after[to[1]].slots[i] = SlotAt(<<to[1], i>>)
  BY InsertedPage, RidPair DEF UpdateByMoving
<1> HIDE DEF q, after
<1>6. SlotAt(rid)' = slot
  BY <1>2, <1>3, <1>4, <1>5 DEF SlotAt
<1>7. CASE to[1] = p
  <2>1. pages' = [pages EXCEPT ![p] = q]
    <3>1. DOMAIN after = DOMAIN pages /\ \A n \in DOMAIN pages : n # p => after[n] = pages[n]
      BY <1>3, <1>5, <1>7
    <3>2. pages = [n \in DOMAIN pages |-> pages[n]]
      BY DEF LayoutInv, PagesGood
    <3>3. pages' = [n \in DOMAIN after |-> IF n = p THEN q ELSE after[n]]
      BY <1>2
    <3>4. [pages EXCEPT ![p] = q] = [n \in DOMAIN pages |-> IF n = p THEN q ELSE pages[n]]
      BY <3>2
    <3> QED BY <3>1, <3>3, <3>4
  <2> QED BY <1>1, <1>4, <1>5, <1>7, <2>1, PageWrites
<1>8. CASE to[1] # p
  <2>1. /\ DOMAIN pages' = DOMAIN pages \cup {to[1]} /\ pages'[p] = q
        /\ pages'[to[1]] = after[to[1]]
        /\ \A n \in DOMAIN pages : n # p /\ n # to[1] => pages'[n] = pages[n]
    BY <1>2, <1>3, <1>5, <1>8
  <2>2. ASSUME NEW r \in Rid
        PROVE  /\ Exists(r)' <=> Exists(r) \/ r = to
               /\ r # rid /\ Exists(r) => Kept(r)
    <3>1. CASE r[1] = p
      <4>1. (r = rid <=> r[2] = s) /\ r # to
        BY <1>8, <3>1, RidPair
      <4>2. (Exists(r)' <=> r[2] \in Live(q)) /\ (Exists(r) <=> r[2] \in Live(pg))
        BY <1>3, <2>1, <3>1 DEF Exists
      <4>3. SlotAt(r)' = q.slots[r[2]] /\ SlotAt(r) = pg.slots[r[2]]
        BY <2>1, <3>1 DEF SlotAt
      <4> QED BY <1>4, <4>1, <4>2, <4>3 DEF Kept
    <3>2. CASE r[1] = to[1]
      <4>1. r = <<to[1], r[2]>> /\ (r = to <=> r[2] = to[2]) /\ r # rid
        BY <1>8, <3>2, RidPair
      <4>2. Exists(r)' <=> r[2] \in Live(after[to[1]])
        BY <2>1, <3>2 DEF Exists
      <4>3. SlotAt(r)' = after[to[1]].slots[r[2]]
        BY <2>1, <3>2 DEF SlotAt
      <4> QED BY <1>5, <4>1, <4>2, <4>3 DEF Kept, SameContent
    <3>3. CASE r[1] # p /\ r[1] # to[1]
      <4>1. (Exists(r)' <=> Exists(r)) /\ (Exists(r) => SlotAt(r)' = SlotAt(r)) /\ r # to
        BY <2>1, <3>3 DEF Exists, SlotAt
      <4> QED BY <4>1 DEF Kept, SameContent
    <3> QED BY <3>1, <3>2, <3>3
  <2>3. SlotAt(to)' = after[to[1]].slots[to[2]]
    BY <2>1 DEF SlotAt
  <2> QED BY <1>1, <1>5, <1>6, <1>8, <2>2, <2>3 DEF Moves
<1> QED BY <1>5, <1>7, <1>8

-----------------------------------------------------------------------------
(* Following tombstones. *)

\* There are finitely many live slots: a page has room for so many slots only.
LEMMA FinitelyMany == LayoutInv => IsFiniteSet(LiveRids) /\ Cardinality(LiveRids) \in Nat
<1> SUFFICES ASSUME LayoutInv PROVE IsFiniteSet(LiveRids)
  BY FS_CardinalityType
<1> DEFINE P == 1..Len(pages)
           S == 1..PAGE_SIZE
<1>1. IsFiniteSet(P \X S)
  <2>1. Len(pages) \in Int /\ PAGE_SIZE \in Int /\ 1 \in Int
    BY PagesAre, PageAssumption
  <2>2. IsFiniteSet(P) /\ IsFiniteSet(S)
    BY <2>1, FS_Interval
  <2> HIDE DEF P, S
  <2> QED BY <2>2, FS_Product
<1>2. ASSUME NEW rid \in Rid, Exists(rid) PROVE rid \in P \X S
  <2> DEFINE pg == pages[rid[1]]
  <2>1. rid[1] \in P /\ pg \in Page /\ ClearPage(pg) /\ rid[2] \in Live(pg)
    BY <1>2, PagesAre DEF Exists, GoodPage
  <2>2. rid[2] \in 1..Len(pg.slots) /\ Len(pg.slots) \in Nat /\ pg.fso \in Nat
    BY <2>1, PageFields
  <2>3. Len(pg.slots) <= PAGE_SIZE
    BY <2>1, <2>2, PageAssumption DEF ClearPage, SLOT_SIZE, PAGE_METADATA
  <2>4. rid[2] \in S
    BY <2>2, <2>3, PageAssumption
  <2> QED BY <2>1, <2>4, RidPair
<1>3. LiveRids \subseteq P \X S
  BY <1>2, LiveRidsAre
<1> QED BY <1>1, <1>3, FS_Subset

\* hop is the walk from rid along tombstones.
Walk(hop, rid) == /\ hop \in [Nat -> Rid]
                  /\ hop[0] = rid
                  /\ \A n \in Nat : hop[n + 1] = Hop[hop[n]]

LEMMA TargetWalks ==
  ASSUME LayoutInv, NEW rid \in Rid
  PROVE  \E hop : Walk(hop, rid) /\ Target(rid) = hop[Cardinality(LiveRids)]
<1> DEFINE D(f) == f = [n \in Nat |-> IF n = 0 THEN rid ELSE Hop[f[n - 1]]]
           hop == CHOOSE f : D(f)
<1>1. Hop \in [Rid -> Rid]
  BY SlotsHoldRids DEF Hop
<1>2. PICK f \in [Nat -> Rid] : D(f)
  BY <1>1, Recursion
<1>3. D(hop)
  BY <1>2
<1>4. Target(rid) = hop[Cardinality(LiveRids)]
  BY DEF Target
<1> HIDE DEF hop
<1>5. Walk(hop, rid)
  BY <1>1, <1>3, StepByStep DEF Walk
<1> QED BY <1>4, <1>5

\* Along every tombstone some rank decreases: the tombstones form no cycle.
Ranks(rank) == /\ rank \in [Rid -> Nat]
               /\ \A r \in Rid : IsTombstone(r) => rank[SlotAt(r).fwd] < rank[r]

Ranked == \E rank : Ranks(rank)

\* No walk along tombstones comes back to a slot, so none is longer than there
\* are live slots.
LEMMA WalksEnd ==
  ASSUME LayoutInv, Ranked, NEW rid \in Rid
  PROVE  ~IsTombstone(Target(rid))
<1>1. PICK hop : Walk(hop, rid) /\ Target(rid) = hop[Cardinality(LiveRids)]
  BY TargetWalks
<1>2. PICK rank : Ranks(rank)
  BY DEF Ranked
<1> DEFINE N == Cardinality(LiveRids)
<1>3. N \in Nat /\ IsFiniteSet(LiveRids)
  BY FinitelyMany
<1> SUFFICES ASSUME IsTombstone(hop[N]) PROVE FALSE
  BY <1>1
<1>4. \A n \in Nat : ~IsTombstone(hop[n]) => hop[n + 1] = hop[n]
  BY <1>1 DEF Walk, Hop
<1>5. \A i \in 0..N : IsTombstone(hop[i])
  <2> DEFINE T == {k \in Nat : k <= N => IsTombstone(hop[N - k])}
  <2>1. 0 \in T
    BY <1>3
  <2>2. ASSUME NEW k \in Nat, k \in T PROVE k + 1 \in T
    <3> SUFFICES ASSUME k + 1 <= N PROVE IsTombstone(hop[N - (k + 1)])
      OBVIOUS
    <3>1. N - (k + 1) \in Nat /\ (N - (k + 1)) + 1 = N - k /\ k <= N
      BY <1>3
    <3> QED BY <1>4, <2>2, <3>1
  <2>3. Nat \subseteq T
    <3> HIDE DEF T
    <3> QED BY <2>1, <2>2, Induct
  <2> SUFFICES ASSUME NEW i \in 0..N PROVE IsTombstone(hop[i])
    OBVIOUS
  <2>4. N - i \in Nat /\ N - i <= N /\ N - (N - i) = i
    BY <1>3
  <2>5. N - i \in T
    BY <2>3, <2>4
  <2> QED BY <2>4, <2>5
<1>6. \A i \in 0..N : i < N => rank[hop[i + 1]] < rank[hop[i]]
  <2> SUFFICES ASSUME NEW i \in 0..N, i < N PROVE rank[hop[i + 1]] < rank[hop[i]]
    OBVIOUS
  <2>1. IsTombstone(hop[i]) /\ hop[i] \in Rid /\ hop[i + 1] = Hop[hop[i]]
    BY <1>1, <1>5 DEF Walk
  <2> QED BY <1>2, <2>1 DEF Ranks, Hop
<1>7. ASSUME NEW i \in 0..N, NEW j \in 0..N, i < j PROVE hop[i] # hop[j]
  <2> DEFINE T == {k \in Nat : i + 1 + k <= N => rank[hop[i + 1 + k]] < rank[hop[i]]}
  <2>1. \A n \in Nat : hop[n] \in Rid /\ rank[hop[n]] \in Nat
    BY <1>1, <1>2 DEF Walk, Ranks
  <2>2. 0 \in T
    <3>1. i + 1 + 0 = i + 1 /\ (i + 1 <= N => i < N)
      BY <1>3
    <3> QED BY <1>6, <3>1
  <2>3. ASSUME NEW k \in Nat, k \in T PROVE k + 1 \in T
    <3> SUFFICES ASSUME i + 1 + (k + 1) <= N
                 PROVE  rank[hop[i + 1 + (k + 1)]] < rank[hop[i]]
      OBVIOUS
    <3>1. /\ i + 1 + k \in 0..N /\ i + 1 + k < N /\ i + 1 + (k + 1) = (i + 1 + k) + 1
          /\ i \in Nat /\ (i + 1 + k) + 1 \in Nat
      BY <1>3
    <3>2. rank[hop[i + 1 + k]] < rank[hop[i]]
      BY <2>3, <3>1
    <3>3. rank[hop[(i + 1 + k) + 1]] < rank[hop[i + 1 + k]]
      BY <1>6, <3>1
    <3> QED BY <2>1, <3>1, <3>2, <3>3
  <2>4. Nat \subseteq T
    <3> HIDE DEF T
    <3> QED BY <2>2, <2>3, Induct
  <2>5. j - (i + 1) \in Nat /\ i + 1 + (j - (i + 1)) = j /\ j <= N /\ i \in Nat /\ j \in Nat
    BY <1>3, <1>7
  <2>6. j - (i + 1) \in T
    BY <2>4, <2>5
  <2>7. rank[hop[j]] < rank[hop[i]]
    BY <2>5, <2>6
  <2> QED BY <2>1, <2>5, <2>7
<1> DEFINE f == [i \in 0..N |-> hop[i]]
<1>8. f \in [0..N -> LiveRids]
  <2>1. \A i \in 0..N : hop[i] \in LiveRids
    BY <1>1, <1>5, LiveRidsAre DEF IsTombstone, Walk
  <2> QED BY <2>1
<1>9. IsFiniteSet(0..N) /\ Cardinality(LiveRids) < Cardinality(0..N)
  BY <1>3, FS_Interval
<1>10. \E i, j \in 0..N : i # j /\ f[i] = f[j]
  <2> HIDE DEF f
  <2> QED BY <1>3, <1>8, <1>9, FS_PigeonHole
<1> QED BY <1>3, <1>7, <1>10

\* Operations that leave all tombstones but one, and let that one lead to a
\* slot that is no tombstone, close no cycle.
LEMMA StaysRanked ==
  ASSUME LayoutInv, Ranked, NEW rid, NEW to \in Rid, to # rid, ~IsTombstone(to)',
         \A r \in Rid : IsTombstone(r)' =>
            \/ IsTombstone(r) /\ SlotAt(r)'.fwd = SlotAt(r).fwd
            \/ r = rid /\ SlotAt(r)'.fwd = to
  PROVE  Ranked'
<1>1. PICK rank : Ranks(rank)
  BY DEF Ranked
<1> DEFINE next == [r \in Rid |-> IF r = to THEN 0 ELSE rank[r] + 1]
<1>2. next \in [Rid -> Nat]
  BY <1>1 DEF Ranks
<1>3. ASSUME NEW r \in Rid, IsTombstone(r)' PROVE next[SlotAt(r)'.fwd] < next[r]
  <2>1. r # to /\ rank[r] \in Nat /\ next[r] = rank[r] + 1
    BY <1>1, <1>3 DEF Ranks
  <2>2. CASE r = rid /\ SlotAt(r)'.fwd = to
    BY <2>1, <2>2
  <2>3. CASE IsTombstone(r) /\ SlotAt(r)'.fwd = SlotAt(r).fwd
    <3>1. SlotAt(r).fwd \in Rid
      BY <2>3, SlotsHoldRids
    <3>2. rank[SlotAt(r).fwd] < rank[r] /\ rank[SlotAt(r).fwd] \in Nat
      BY <1>1, <2>3, <3>1 DEF Ranks
    <3> QED BY <2>1, <2>3, <3>1, <3>2
  <2> QED BY <1>3, <2>2, <2>3
<1> HIDE DEF next
<1> QED BY <1>2, <1>3 DEF Ranked, Ranks

\* The same when no tombstone is new.
LEMMA StaysRankedOld ==
  ASSUME Ranked,
         \A r \in Rid : IsTombstone(r)' => IsTombstone(r) /\ SlotAt(r)'.fwd = SlotAt(r).fwd
  PROVE  Ranked'
<1>1. PICK rank : Ranks(rank)
  BY DEF Ranked
<1>2. \A r \in Rid : IsTombstone(r)' => rank[SlotAt(r)'.fwd] < rank[r]
  BY <1>1 DEF Ranks
<1> QED BY <1>1, <1>2 DEF Ranked, Ranks

\* What each kind of change means for tombstones.
LEMMA ChangeStaysRanked ==
  ASSUME NoLookAlikes, LayoutInv, Ranked, NEW rid \in Rid, NEW rec \in Records,
         NEW to \in Rid,
         \/ Frees(rid) \/ Fills(rid, rec) \/ Writes(rid, rec, ReadsAs[rec])
         \/ /\ Exists(rid) /\ ~Exists(to)
            /\ Writes(rid, NoRecord, to) \/ Moves(rid, rec, to)
  PROVE  Ranked'
<1>1. ReadsAs[rec] = NoRid
  BY DEF NoLookAlikes
<1>2. CASE Frees(rid)
  BY <1>2, StaysRankedOld DEF Frees, Kept, SameContent, IsTombstone
<1>3. CASE Fills(rid, rec)
  BY <1>1, <1>3, StaysRankedOld DEF Fills, Kept, SameContent, IsTombstone
<1>4. CASE Writes(rid, rec, ReadsAs[rec])
  BY <1>1, <1>4, StaysRankedOld DEF Writes, Kept, SameContent, IsTombstone
<1>5. CASE Exists(rid) /\ ~Exists(to) /\ Writes(rid, NoRecord, to)
  BY <1>5, StaysRanked DEF Writes, Kept, SameContent, IsTombstone
<1>6. CASE Exists(rid) /\ ~Exists(to) /\ Moves(rid, rec, to)
  BY <1>1, <1>6, StaysRanked DEF Moves, Kept, SameContent, IsTombstone
<1> QED BY <1>2, <1>3, <1>4, <1>5, <1>6

\* The inductive invariant of the chains.
ChainInv == LayoutInv /\ Ranked

LEMMA ChainStep ==
  ASSUME NoLookAlikes, ChainInv, [RoomyNext]_vars
  PROVE  ChainInv'
<1> USE DEF ChainInv
<1>0. LayoutInv'
  BY StepGood
<1>1. ASSUME NEW rec \in Records, insertRecord(rec) PROVE Ranked'
  BY <1>1, InsertRidsAreRids, InsertFills, ChangeStaysRanked DEF insertRecord
<1>2. ASSUME NEW rid \in Rid, Exists(rid), DropSlot(rid) PROVE Ranked'
  BY <1>2, DropFrees, StaysRankedOld DEF Frees, Kept, SameContent, IsTombstone
<1>3. ASSUME NEW rid \in LiveRids, deleteRecord(rid) PROVE Ranked'
  BY <1>2, <1>3, LiveRidsAre DEF deleteRecord
<1>4. ASSUME UNCHANGED pages PROVE Ranked'
  BY <1>4 DEF Ranked, Ranks, IsTombstone, Exists, SlotAt
<1>5. ASSUME DeleteForwarded PROVE Ranked'
  BY <1>2, <1>4, <1>5 DEF DeleteForwarded, LayoutInv
<1>6. ASSUME NEW rid \in LiveRids, NEW rec \in Records, updateRecord(rid, rec)
      PROVE  Ranked'
  <2>1. rid \in Rid /\ Exists(rid)
    BY <1>6, LiveRidsAre
  <2>2. CASE UpdateInPlace(rid, rec) \/ UpdateAtEnd(rid, rec)
    BY <2>1, <2>2, UpdateWrites, ChangeStaysRanked
  <2>3. ASSUME NEW to \in InsertRids, UpdateByMoving(rid, rec, to) PROVE Ranked'
    <3>1. to \in Rid
      BY InsertRidsAreRids
    <3> QED BY <2>1, <2>3, <3>1, UpdateMoves, ChangeStaysRanked
  <2> QED BY <1>6, <2>2, <2>3 DEF updateRecord
<1> QED BY <1>0, <1>1, <1>3, <1>4, <1>5, <1>6 DEF RoomyNext, vars

\* The chains readRecord and deleteRecord follow end, whatever RIDs the client
\* passes, unless a record looks like a tombstone.
THEOREM ChainsAlwaysEnd ==
  ASSUME NoLookAlikes PROVE RoomySpec => []ChainsEnd
<1>1. Init => ChainInv
  <2> SUFFICES ASSUME Init PROVE Ranked
    BY InitGood DEF ChainInv
  <2>1. \A r \in Rid : ~IsTombstone(r)
    BY DEF Init, IsTombstone, Exists
  <2>2. Ranks([r \in Rid |-> 0])
    BY <2>1 DEF Ranks
  <2> QED BY <2>2 DEF Ranked
<1>2. ChainInv /\ [RoomyNext]_vars => ChainInv'
  BY ChainStep
<1>3. ChainInv => ChainsEnd
  BY WalksEnd, LiveRidsAre DEF ChainInv, ChainsEnd
<1> QED BY <1>1, <1>2, <1>3, PTL DEF RoomySpec

-----------------------------------------------------------------------------
(* The careful client. *)

\* TombstonesLead, and what holds of a copy whose tombstone is gone already.
PendingAlone ==
  pending # NoRid => /\ Exists(pending) /\ ~IsTombstone(pending)
                     /\ \A q \in LiveRids : SlotAt(q).fwd # pending

CareInv == LayoutInv /\ TombstonesLead /\ PendingAlone

\* Both without the set of live RIDs.
LeadsAll ==
  \A r \in Rid : IsTombstone(r) =>
     /\ Exists(SlotAt(r).fwd) /\ ~IsTombstone(SlotAt(r).fwd)
     /\ \A q \in Rid \ {r} : Exists(q) => SlotAt(q).fwd # SlotAt(r).fwd

AloneAll ==
  pending # NoRid => /\ Exists(pending) /\ ~IsTombstone(pending)
                     /\ \A q \in Rid : Exists(q) => SlotAt(q).fwd # pending

LEMMA CareInvIs == CareInv <=> LayoutInv /\ LeadsAll /\ AloneAll
BY LiveRidsAre DEF CareInv, TombstonesLead, PendingAlone, LeadsAll, AloneAll, IsTombstone

LEMMA CareInvNext == CareInv' <=> LayoutInv' /\ LeadsAll' /\ AloneAll'
BY CareInvIs, PTL

\* A RID insertRecord has handed out.
Home(r) == /\ Exists(r) /\ r # pending
           /\ \A q \in Rid : IsTombstone(q) => SlotAt(q).fwd # r

LEMMA HomeRidsAre == LayoutInv => HomeRids = {r \in Rid : Home(r)}
<1> SUFFICES ASSUME LayoutInv PROVE HomeRids = {r \in Rid : Home(r)}
  OBVIOUS
<1>1. \A r : r \in Forwarded <=> \E q \in Rid : IsTombstone(q) /\ SlotAt(q).fwd = r
  BY LiveRidsAre DEF Forwarded, IsTombstone
<1> QED BY <1>1, LiveRidsAre DEF HomeRids, Home

LEMMA HomeRidsNext == LayoutInv' => HomeRids' = {r \in Rid : Home(r)'}
<1>1. (LayoutInv => HomeRids = {r \in Rid : Home(r)})'
  BY HomeRidsAre, PTL
<1> QED BY <1>1

\* Reads take one hop at most.
LEMMA OneHop == CareInv => \A r \in Rid : Target(r) = Hop[r]
<1> SUFFICES ASSUME CareInv, NEW r \in Rid PROVE Target(r) = Hop[r]
  OBVIOUS
<1> USE DEF CareInv
<1>1. PICK hop : Walk(hop, r) /\ Target(r) = hop[Cardinality(LiveRids)]
  BY TargetWalks
<1>2. IsFiniteSet(LiveRids) /\ Cardinality(LiveRids) \in Nat
  BY FinitelyMany
<1>3. CASE IsTombstone(r)
  <2>1. r \in LiveRids /\ SlotAt(r).fwd \in Rid /\ Hop[r] = SlotAt(r).fwd
    BY <1>3, LiveRidsAre, SlotsHoldRids DEF IsTombstone, Hop
  <2>2. ~IsTombstone(Hop[r])
    BY <1>3, <2>1 DEF TombstonesLead
  <2>3. Cardinality(LiveRids) # 0
    BY <1>2, <2>1, FS_EmptySet
  <2> DEFINE T == {n \in Nat : hop[n + 1] = Hop[r]}
  <2>4. 0 \in T
    BY <1>1 DEF Walk
  <2>5. ASSUME NEW n \in Nat, n \in T PROVE n + 1 \in T
    <3>1. hop[(n + 1) + 1] = Hop[hop[n + 1]]
      BY <1>1 DEF Walk
    <3>2. Hop[Hop[r]] = Hop[r]
      BY <2>1, <2>2 DEF Hop
    <3> QED BY <2>5, <3>1, <3>2
  <2>6. Nat \subseteq T
    <3> HIDE DEF T
    <3> QED BY <2>4, <2>5, Induct
  <2>7. Cardinality(LiveRids) - 1 \in T /\ (Cardinality(LiveRids) - 1) + 1 = Cardinality(LiveRids)
    BY <1>2, <2>3, <2>6
  <2> QED BY <1>1, <2>7
<1>4. CASE ~IsTombstone(r)
  <2>1. Hop[r] = r
    BY <1>4 DEF Hop
  <2> DEFINE T == {n \in Nat : hop[n] = r}
  <2>2. 0 \in T
    BY <1>1 DEF Walk
  <2>3. ASSUME NEW n \in Nat, n \in T PROVE n + 1 \in T
    BY <1>1, <2>1, <2>3 DEF Walk
  <2>4. Nat \subseteq T
    <3> HIDE DEF T
    <3> QED BY <2>2, <2>3, Induct
  <2>5. hop[Cardinality(LiveRids)] = r
    BY <1>2, <2>4
  <2> QED BY <1>1, <2>1, <2>5
<1> QED BY <1>3, <1>4

\* What a read of a home RID returns.
Read(r) == IF IsTombstone(r) THEN SlotAt(SlotAt(r).fwd).rec ELSE SlotAt(r).rec

LEMMA ReadIs == CareInv => \A r \in HomeRids : readRecord(r) = Read(r)
<1> SUFFICES ASSUME CareInv, NEW r \in HomeRids PROVE readRecord(r) = Read(r)
  OBVIOUS
<1>1. r \in Rid /\ Exists(r)
  BY HomeRidsAre DEF CareInv, Home
<1>2. Target(r) = Hop[r]
  BY <1>1, OneHop
<1>3. IsTombstone(r) => Exists(SlotAt(r).fwd)
  BY <1>1, CareInvIs DEF LeadsAll
<1> QED BY <1>1, <1>2, <1>3 DEF readRecord, Read, Hop

LEMMA MappingIs ==
  CareInv => /\ DOMAIN Mapping = {r \in Rid : Home(r)}
             /\ Mapping = [r \in DOMAIN Mapping |-> Read(r)]
<1> SUFFICES ASSUME CareInv
             PROVE  /\ DOMAIN Mapping = {r \in Rid : Home(r)}
                    /\ Mapping = [r \in DOMAIN Mapping |-> Read(r)]
  OBVIOUS
<1>1. HomeRids = {r \in Rid : Home(r)}
  BY HomeRidsAre DEF CareInv
<1> QED BY <1>1, ReadIs DEF Mapping

LEMMA MappingNext ==
  CareInv' => /\ DOMAIN Mapping' = {r \in Rid : Home(r)'}
              /\ Mapping' = [r \in DOMAIN Mapping' |-> Read(r)']
<1>1. (CareInv => /\ DOMAIN Mapping = {r \in Rid : Home(r)}
                  /\ Mapping = [r \in DOMAIN Mapping |-> Read(r)])'
  BY MappingIs, PTL
<1> QED BY <1>1

-----------------------------------------------------------------------------
(* What the careful client's calls mean for the invariant and the readers. *)

\* The record of rid is `rec' from now on; everyone else's is what it was.
OnlyReads(rid, rec) ==
  /\ Read(rid)' = rec
  /\ \A r \in Rid \ {rid} : Home(r) => Read(r)' = Read(r)

LEMMA NoRidNever == LayoutInv' => ~Exists(NoRid)'
<1>1. LayoutInv => ~Exists(NoRid)
  BY SlotsHoldRids
<1>2. (LayoutInv => ~Exists(NoRid))'
  BY <1>1, PTL
<1> QED BY <1>2

\* The tombstones of a file in order, spelled out.
LEMMA Leading ==
  ASSUME CareInv
  PROVE  /\ LayoutInv /\ ~Exists(NoRid) /\ NoRid \in Rid
         /\ \A r \in Rid : IsTombstone(r) <=> Exists(r) /\ SlotAt(r).fwd # NoRid
         /\ \A r \in Rid : Exists(r) => SlotAt(r).fwd \in Rid
         /\ \A r \in Rid : IsTombstone(r) =>
               /\ Exists(SlotAt(r).fwd) /\ ~IsTombstone(SlotAt(r).fwd)
               /\ \A q \in Rid \ {r} : Exists(q) => SlotAt(q).fwd # SlotAt(r).fwd
BY CareInvIs, SlotsHoldRids DEF LeadsAll

LEMMA FillCare ==
  ASSUME NoLookAlikes, CareInv, NEW rid \in Rid, NEW rec \in Records,
         pending = NoRid, pending' = NoRid, Fills(rid, rec), LayoutInv'
  PROVE  /\ CareInv' /\ ~Home(rid)
         /\ \A r \in Rid : Home(r)' <=> Home(r) \/ r = rid
         /\ OnlyReads(rid, rec)
<1>1. /\ ~Exists(rid)
      /\ \A r \in Rid : Exists(r)' <=> Exists(r) \/ r = rid
      /\ SlotAt(rid)'.rec = rec /\ SlotAt(rid)'.fwd = NoRid
      /\ \A r \in Rid : Exists(r) => /\ SlotAt(r)'.rec = SlotAt(r).rec
                                     /\ SlotAt(r)'.fwd = SlotAt(r).fwd
  BY DEF Fills, NoLookAlikes, Kept, SameContent
<1>2. rid # NoRid
  BY <1>1, NoRidNever
<1>3. \A r \in Rid : IsTombstone(r)' <=> IsTombstone(r)
  BY <1>1 DEF IsTombstone
<1>4. LeadsAll'
  BY <1>1, <1>2, <1>3, Leading DEF LeadsAll
<1>5. CareInv'
  BY <1>4, CareInvNext DEF AloneAll
<1>6. \A r \in Rid : Home(r)' <=> Home(r) \/ r = rid
  BY <1>1, <1>2, <1>3, Leading DEF Home
<1>7. OnlyReads(rid, rec)
  <2>1. Read(rid)' = rec
    BY <1>1, <1>3, Leading DEF Read
  <2>2. \A r \in Rid : Home(r) => Read(r)' = Read(r)
    BY <1>1, <1>3, Leading DEF Read, Home
  <2> QED BY <2>1, <2>2 DEF OnlyReads
<1> QED BY <1>1, <1>5, <1>6, <1>7 DEF Home

LEMMA FreeCare ==
  ASSUME CareInv, NEW rid \in Rid, Home(rid), Frees(rid),
         pending = NoRid, pending' = SlotAt(rid).fwd, LayoutInv'
  PROVE  /\ CareInv'
         /\ \A r \in Rid : Home(r)' <=> Home(r) /\ r # rid
         /\ \A r \in Rid : Home(r)' => Read(r)' = Read(r)
<1>1. /\ Exists(rid) /\ \A q \in Rid : IsTombstone(q) => SlotAt(q).fwd # rid
      /\ \A r \in Rid : Exists(r)' <=> Exists(r) /\ r # rid
      /\ \A r \in Rid \ {rid} : Exists(r) => /\ SlotAt(r)'.rec = SlotAt(r).rec
                                             /\ SlotAt(r)'.fwd = SlotAt(r).fwd
  BY DEF Frees, Home, Kept, SameContent
<1>2. \A r \in Rid : IsTombstone(r)' <=> IsTombstone(r) /\ r # rid
  BY <1>1 DEF IsTombstone
<1>3. LeadsAll'
  BY <1>1, <1>2, Leading DEF LeadsAll
<1>4. AloneAll'
  <2> SUFFICES ASSUME pending' # NoRid
               PROVE  /\ Exists(pending)' /\ ~IsTombstone(pending)'
                      /\ \A q \in Rid : Exists(q)' => SlotAt(q)'.fwd # pending'
    BY DEF AloneAll
  <2>1. IsTombstone(rid) /\ pending' = SlotAt(rid).fwd /\ pending' \in Rid
    BY <1>1, Leading
  <2>2. Exists(SlotAt(rid).fwd) /\ ~IsTombstone(SlotAt(rid).fwd) /\ SlotAt(rid).fwd # rid
    BY <1>1, <2>1, Leading
  <2>3. \A r \in Rid : (Exists(r) /\ ~IsTombstone(r) /\ r # rid)
                          => Exists(r)' /\ ~(Exists(r)' /\ SlotAt(r)'.fwd # NoRid)
    BY <1>1, Leading
  <2>4. Exists(pending)' /\ ~IsTombstone(pending)'
    <3>1. Exists(pending)' <=> /\ pending'[1] \in DOMAIN pages'
                               /\ pending'[2] \in Live(pages'[pending'[1]])
      BY DEF Exists
    <3>2. Exists(pending)' /\ SlotAt(pending)'.fwd = NoRid
      <4>1. ASSUME NEW r \in Rid, r = pending', Exists(r)', SlotAt(r)'.fwd = NoRid
            PROVE  Exists(pending)' /\ SlotAt(pending)'.fwd = NoRid
        BY <4>1 DEF Exists, SlotAt
      <4> QED BY <2>1, <2>2, <2>3, <4>1
    <3> QED BY <3>2 DEF IsTombstone
  <2>5. \A q \in Rid : Exists(q)' => SlotAt(q)'.fwd # pending'
    BY <1>1, <2>1, Leading
  <2> QED BY <2>4, <2>5
<1>5. CareInv'
  BY <1>3, <1>4, CareInvNext
<1>6. \A r \in Rid : Home(r)' <=> Home(r) /\ r # rid
  BY <1>1, <1>2, Leading DEF Home
<1>7. \A r \in Rid : Home(r)' => Read(r)' = Read(r)
  <2> SUFFICES ASSUME NEW r \in Rid, Home(r), r # rid PROVE Read(r)' = Read(r)
    BY <1>6
  <2>1. Exists(r) /\ (IsTombstone(r)' <=> IsTombstone(r))
    BY <1>2 DEF Home
  <2> QED BY <1>1, <2>1, Leading DEF Read
<1> QED BY <1>5, <1>6, <1>7

LEMMA FreeRestCare ==
  ASSUME CareInv, pending \in Rid, pending # NoRid, Frees(pending),
         pending' = SlotAt(pending).fwd, LayoutInv'
  PROVE  /\ CareInv'
         /\ \A r \in Rid : Home(r)' <=> Home(r)
         /\ \A r \in Rid : Home(r) => Read(r)' = Read(r)
<1>0. /\ Exists(pending) /\ ~IsTombstone(pending)
      /\ \A q \in Rid : Exists(q) => SlotAt(q).fwd # pending
  BY CareInvIs DEF AloneAll
<1>1. /\ pending' = NoRid
      /\ \A r \in Rid : Exists(r)' <=> Exists(r) /\ r # pending
      /\ \A r \in Rid \ {pending} : Exists(r) => /\ SlotAt(r)'.rec = SlotAt(r).rec
                                                 /\ SlotAt(r)'.fwd = SlotAt(r).fwd
  BY <1>0, Leading DEF Frees, Kept, SameContent
<1>2. \A r \in Rid : IsTombstone(r)' <=> IsTombstone(r)
  BY <1>0, <1>1 DEF IsTombstone
<1>3. LeadsAll'
  BY <1>0, <1>1, <1>2, Leading DEF LeadsAll
<1>4. CareInv'
  BY <1>1, <1>3, CareInvNext DEF AloneAll
<1>5. \A r \in Rid : Home(r)' <=> Home(r)
  BY <1>0, <1>1, <1>2, Leading DEF Home
<1>6. \A r \in Rid : Home(r) => Read(r)' = Read(r)
  BY <1>0, <1>1, <1>2, Leading DEF Read, Home
<1> QED BY <1>4, <1>5, <1>6

LEMMA WriteCare ==
  ASSUME CareInv, NEW rid \in Rid, NEW rec, Home(rid), ~IsTombstone(rid),
         pending = NoRid, pending' = NoRid, Writes(rid, rec, NoRid), LayoutInv'
  PROVE  /\ CareInv'
         /\ \A r \in Rid : Home(r)' <=> Home(r)
         /\ OnlyReads(rid, rec)
<1>1. /\ Exists(rid) /\ \A q \in Rid : IsTombstone(q) => SlotAt(q).fwd # rid
      /\ \A r \in Rid : Exists(r)' <=> Exists(r)
      /\ SlotAt(rid)'.rec = rec /\ SlotAt(rid)'.fwd = NoRid
      /\ \A r \in Rid \ {rid} : Exists(r) => /\ SlotAt(r)'.rec = SlotAt(r).rec
                                             /\ SlotAt(r)'.fwd = SlotAt(r).fwd
  BY DEF Writes, Home, Kept, SameContent
<1>2. \A r \in Rid : IsTombstone(r)' <=> IsTombstone(r)
  BY <1>1 DEF IsTombstone
<1>3. LeadsAll'
  BY <1>1, <1>2, Leading DEF LeadsAll
<1>4. CareInv'
  BY <1>3, CareInvNext DEF AloneAll
<1>5. \A r \in Rid : Home(r)' <=> Home(r)
  BY <1>1, <1>2, Leading DEF Home
<1>6. OnlyReads(rid, rec)
  BY <1>1, <1>2, Leading DEF OnlyReads, Read, Home
<1> QED BY <1>4, <1>5, <1>6

LEMMA MoveCare ==
  ASSUME NoLookAlikes, CareInv, NEW rid \in Rid, NEW rec \in Records, NEW to \in Rid,
         Home(rid), ~IsTombstone(rid),
         pending = NoRid, pending' = NoRid, Moves(rid, rec, to), LayoutInv'
  PROVE  /\ CareInv'
         /\ \A r \in Rid : Home(r)' <=> Home(r)
         /\ OnlyReads(rid, rec)
<1>1. /\ Exists(rid) /\ \A q \in Rid : IsTombstone(q) => SlotAt(q).fwd # rid
      /\ ~Exists(to) /\ to # rid
      /\ \A r \in Rid : Exists(r)' <=> Exists(r) \/ r = to
      /\ SlotAt(to)'.rec = rec /\ SlotAt(to)'.fwd = NoRid
      /\ SlotAt(rid)'.fwd = to
      /\ \A r \in Rid \ {rid} : Exists(r) => /\ SlotAt(r)'.rec = SlotAt(r).rec
                                             /\ SlotAt(r)'.fwd = SlotAt(r).fwd
  BY DEF Moves, NoLookAlikes, Home, Kept, SameContent
<1>2. to # NoRid
  BY <1>1, NoRidNever
<1>3. \A r \in Rid : IsTombstone(r)' <=> IsTombstone(r) \/ r = rid
  BY <1>1, <1>2 DEF IsTombstone
<1>4. LeadsAll'
  <2> SUFFICES ASSUME NEW r \in Rid, IsTombstone(r)'
               PROVE  /\ Exists(SlotAt(r).fwd)' /\ ~IsTombstone(SlotAt(r).fwd)'
                      /\ \A q \in Rid \ {r} : Exists(q)' => SlotAt(q)'.fwd # SlotAt(r)'.fwd
    BY DEF LeadsAll
  <2>1. CASE r = rid
    <3>1. SlotAt(r)'.fwd = to /\ Exists(to)' /\ ~IsTombstone(to)'
      BY <1>1, <1>3, <2>1 DEF IsTombstone
    <3>2. \A q \in Rid \ {r} : Exists(q)' => SlotAt(q)'.fwd # to
      BY <1>1, <1>2, <2>1, Leading
    <3> QED BY <3>1, <3>2 DEF Exists, IsTombstone, SlotAt
  <2>2. CASE r # rid
    <3> DEFINE u == SlotAt(r).fwd
    <3>1. IsTombstone(r) /\ u \in Rid /\ Exists(u) /\ ~IsTombstone(u) /\ u # rid /\ u # to
      BY <1>1, <1>3, <2>2, Leading
    <3>2. SlotAt(r)'.fwd = u
      BY <1>1, <2>2, <3>1, Leading
    <3>3. \A x \in Rid : (Exists(x) /\ ~IsTombstone(x) /\ x # rid)
                            => Exists(x)' /\ ~IsTombstone(x)'
      BY <1>1, <1>3
    <3>4. \A q \in Rid \ {r} : Exists(q)' => SlotAt(q)'.fwd # u
      BY <1>1, <2>2, <3>1, Leading
    <3>5. Exists(SlotAt(r).fwd)' /\ ~IsTombstone(SlotAt(r).fwd)'
      <4>1. ASSUME NEW x \in Rid, x = SlotAt(r)'.fwd, Exists(x)', ~IsTombstone(x)'
            PROVE  Exists(SlotAt(r).fwd)' /\ ~IsTombstone(SlotAt(r).fwd)'
        BY <4>1 DEF Exists, IsTombstone, SlotAt
      <4> HIDE DEF u
      <4> QED BY <3>1, <3>2, <3>3, <4>1
    <3> QED BY <3>2, <3>4, <3>5
  <2> QED BY <2>1, <2>2
<1>5. CareInv'
  BY <1>4, CareInvNext DEF AloneAll
<1>6. \A r \in Rid : Home(r)' <=> Home(r)
  <2> SUFFICES ASSUME NEW r \in Rid PROVE Home(r)' <=> Home(r)
    OBVIOUS
  <2>1. CASE r = to
    BY <1>1, <1>3, <2>1 DEF Home
  <2>2. CASE r # to
    BY <1>1, <1>3, <2>2, Leading DEF Home
  <2> QED BY <2>1, <2>2
<1>7. OnlyReads(rid, rec)
  <2>1. Read(rid)' = rec
    <3>1. ASSUME NEW x \in Rid, x = SlotAt(rid)'.fwd, SlotAt(x)'.rec = rec
          PROVE  SlotAt(SlotAt(rid).fwd)'.rec = rec
      BY <3>1 DEF SlotAt
    <3> QED BY <1>1, <1>3, <3>1 DEF Read
  <2>2. ASSUME NEW r \in Rid \ {rid}, Home(r) PROVE Read(r)' = Read(r)
    <3>1. Exists(r) /\ (IsTombstone(r)' <=> IsTombstone(r)) /\ SlotAt(r)'.fwd = SlotAt(r).fwd
      BY <1>1, <1>3, <2>2 DEF Home
    <3>2. CASE ~IsTombstone(r)
      BY <1>1, <3>1, <3>2 DEF Read
    <3>3. CASE IsTombstone(r)
      <4>1. /\ SlotAt(r).fwd \in Rid \ {rid} /\ Exists(SlotAt(r).fwd)
        BY <1>1, <3>3, Leading
      <4>2. \A x \in Rid : x = SlotAt(r)'.fwd =>
               SlotAt(SlotAt(r).fwd)'.rec = SlotAt(x)'.rec
        BY DEF SlotAt
      <4> QED BY <1>1, <3>1, <3>3, <4>1, <4>2 DEF Read
    <3> QED BY <3>2, <3>3
  <2> QED BY <2>1, <2>2 DEF OnlyReads
<1> QED BY <1>5, <1>6, <1>7

-----------------------------------------------------------------------------
(* The calls, as changes of what clients see. *)

\* insertRecord adds a RID that was not in use.
LEMMA InsertMaps ==
  ASSUME NoLookAlikes, CareInv, LayoutInv',
         NEW rec \in Records, insertRecord(rec)
  PROVE  /\ CareInv'
         /\ \E rid \in Rid : /\ Fills(rid, rec)
                             /\ rid \in DOMAIN Mapping' \ DOMAIN Mapping
                             /\ Mapping' = Store!With(Mapping, rid, rec)
<1>1. pending = NoRid /\ pending' = NoRid /\ LayoutInv
  BY DEF insertRecord, CareInv
<1>2. PICK rid \in Rid : /\ InsertsAt(rec, rid[1], rid[2])
                         /\ pages' = AfterInsert(rec, rid[1], rid[2])
  BY <1>1, InsertRidsAreRids DEF insertRecord
<1>3. Fills(rid, rec)
  BY <1>1, <1>2, InsertFills
<1>4. /\ CareInv' /\ ~Home(rid)
      /\ \A r \in Rid : Home(r)' <=> Home(r) \/ r = rid
      /\ OnlyReads(rid, rec)
  BY <1>1, <1>3, FillCare
<1>5. DOMAIN Mapping' = DOMAIN Mapping \cup {rid} /\ rid \notin DOMAIN Mapping
  BY <1>4, MappingIs, MappingNext
<1>6. \A r \in DOMAIN Mapping' : Read(r)' = IF r = rid THEN rec ELSE Mapping[r]
  BY <1>4, <1>5, MappingIs, MappingNext DEF OnlyReads
<1>7. Mapping' = Store!With(Mapping, rid, rec)
  BY <1>4, <1>5, <1>6, MappingNext DEF Store!With
<1> QED BY <1>3, <1>4, <1>5, <1>7

\* deleteRecord forgets its RID.
LEMMA DeleteMaps ==
  ASSUME CareInv, LayoutInv', NEW rid \in HomeRids, deleteRecord(rid)
  PROVE  /\ CareInv' /\ Frees(rid)
         /\ rid \in DOMAIN Mapping \ DOMAIN Mapping'
         /\ Mapping' = Restrict(Mapping, DOMAIN Mapping \ {rid})
<1>1. rid \in Rid /\ Home(rid) /\ Exists(rid) /\ LayoutInv
  BY HomeRidsAre DEF CareInv, Home
<1>2. Frees(rid) /\ pending = NoRid /\ pending' = SlotAt(rid).fwd
  BY <1>1, DropFrees DEF deleteRecord
<1>3. /\ CareInv'
      /\ \A r \in Rid : Home(r)' <=> Home(r) /\ r # rid
      /\ \A r \in Rid : Home(r)' => Read(r)' = Read(r)
  BY <1>1, <1>2, FreeCare
<1>4. DOMAIN Mapping' = DOMAIN Mapping \ {rid} /\ rid \in DOMAIN Mapping
  BY <1>1, <1>3, MappingIs, MappingNext
<1>5. Mapping' = Restrict(Mapping, DOMAIN Mapping \ {rid})
  BY <1>3, <1>4, MappingIs, MappingNext DEF Restrict
<1> QED BY <1>2, <1>3, <1>4, <1>5

\* The rest of a delete changes nothing for any client.
LEMMA RestMaps ==
  ASSUME CareInv, LayoutInv', DeleteForwarded
  PROVE  CareInv' /\ Frees(pending) /\ UNCHANGED Mapping
<1>1. /\ LayoutInv /\ pending \in Rid /\ pending # NoRid /\ Exists(pending)
      /\ DropSlot(pending) /\ pending' = SlotAt(pending).fwd
  BY CareInvIs DEF DeleteForwarded, AloneAll, LayoutInv
<1>2. Frees(pending)
  BY <1>1, DropFrees
<1>3. /\ CareInv'
      /\ \A r \in Rid : Home(r)' <=> Home(r)
      /\ \A r \in Rid : Home(r) => Read(r)' = Read(r)
  BY <1>1, <1>2, FreeRestCare
<1>4. DOMAIN Mapping' = DOMAIN Mapping
  BY <1>3, MappingIs, MappingNext
<1>5. Mapping' = Mapping
  BY <1>3, <1>4, MappingIs, MappingNext
<1> QED BY <1>2, <1>3, <1>5

\* What updateRecord does to a record that has not moved, unless insertRecord
\* chose the record's own page.
UpdatesSlot(rid, rec) ==
  \/ Writes(rid, rec, NoRid)
  \/ \E to \in Rid : to[1] # rid[1] /\ Moves(rid, rec, to)

LEMMA UpdateMaps ==
  ASSUME NoLookAlikes, CareInv, LayoutInv', NEW rid \in HomeRids, NEW rec \in Records,
         ~IsTombstone(rid), pending = NoRid, pending' = NoRid, UpdatesSlot(rid, rec)
  PROVE  /\ CareInv' /\ rid \in DOMAIN Mapping
         /\ Mapping' = [Mapping EXCEPT ![rid] = rec]
<1>1. rid \in Rid /\ Home(rid)
  BY HomeRidsAre DEF CareInv
<1>2. /\ CareInv'
      /\ \A r \in Rid : Home(r)' <=> Home(r)
      /\ OnlyReads(rid, rec)
  BY <1>1, WriteCare, MoveCare DEF UpdatesSlot
<1>3. DOMAIN Mapping' = DOMAIN Mapping /\ rid \in DOMAIN Mapping
  BY <1>1, <1>2, MappingIs, MappingNext
<1>4. \A r \in DOMAIN Mapping' : Read(r)' = IF r = rid THEN rec ELSE Mapping[r]
  BY <1>2, <1>3, MappingIs, MappingNext DEF OnlyReads
<1>5. Mapping' = [Mapping EXCEPT ![rid] = rec]
  BY <1>2, <1>3, <1>4, MappingNext
<1> QED BY <1>2, <1>3, <1>5

\* updateRecord either updates the slot or leaves a tombstone for a slot that
\* is free, when insertRecord chose the record's own page.
LEMMA UpdateChanges ==
  ASSUME NoLookAlikes, LayoutInv, NEW rid \in Rid, NEW rec \in Records,
         updateRecord(rid, rec)
  PROVE  /\ Exists(rid) /\ pending = NoRid /\ pending' = NoRid
         /\ \/ UpdatesSlot(rid, rec)
            \/ /\ OnOwnPage(rid, rec)
               /\ \E to \in Rid : /\ ~Exists(to) /\ to # NoRid
                                  /\ Writes(rid, NoRecord, to)
<1>1. Exists(rid) /\ pending = NoRid /\ pending' = NoRid
  BY DEF updateRecord
<1>2. CASE UpdateInPlace(rid, rec) \/ UpdateAtEnd(rid, rec)
  <2>1. Writes(rid, rec, NoRid)
    BY <1>1, <1>2, UpdateWrites DEF NoLookAlikes
  <2> QED BY <1>1, <2>1 DEF UpdatesSlot
<1>3. ASSUME NEW to \in InsertRids, UpdateByMoving(rid, rec, to)
      PROVE  \/ UpdatesSlot(rid, rec)
             \/ /\ OnOwnPage(rid, rec) /\ ~Exists(to) /\ to \in Rid /\ to # NoRid
                /\ Writes(rid, NoRecord, to)
  <2>1. to \in Rid
    BY InsertRidsAreRids
  <2>2. /\ ~Exists(to)
        /\ IF to[1] = rid[1] THEN Writes(rid, NoRecord, to) ELSE Moves(rid, rec, to)
    BY <1>1, <1>3, <2>1, UpdateMoves
  <2>3. CASE to[1] # rid[1]
    BY <2>1, <2>2, <2>3 DEF UpdatesSlot
  <2>4. CASE to[1] = rid[1]
    <3>1. to[1] # 0
      BY <1>1, <2>4, PagesAre DEF Exists
    <3>2. OnOwnPage(rid, rec)
      BY <1>3, <2>4 DEF UpdateByMoving, OnOwnPage, InsertsAt
    <3> QED BY <2>1, <2>2, <2>4, <3>1, <3>2 DEF NoRid
  <2> QED BY <2>3, <2>4
<1> QED BY <1>1, <1>2, <1>3, InsertRidsAreRids DEF updateRecord

-----------------------------------------------------------------------------
(* The careful client's file. *)

\* A tombstone leads where it led until its slot is freed.
KeepsTombstones ==
  \A r \in Rid : IsTombstone(r) /\ Exists(r)' => SlotAt(r)'.fwd = SlotAt(r).fwd

LEMMA CarefulStep ==
  ASSUME NoLookAlikes, CareInv, [CarefulNext]_vars
  PROVE  /\ CareInv' /\ KeepsTombstones
         /\ Store!Next \/ UNCHANGED Mapping
<1> USE DEF KeepsTombstones
<1>1. LayoutInv /\ HomeRids \subseteq LiveRids /\ HomeRids \subseteq Rid
  BY HomeRidsAre DEF CareInv, HomeRids
<1>2. LayoutInv'
  BY <1>1, StepGood DEF CarefulNext, RoomyNext
<1>3. CASE UNCHANGED vars
  <2>1. \A r : /\ Exists(r)' = Exists(r) /\ SlotAt(r)' = SlotAt(r)
               /\ IsTombstone(r)' = IsTombstone(r)
    BY <1>3 DEF vars, IsTombstone, Exists, SlotAt
  <2>2. CareInv'
    BY <1>2, <1>3, <2>1, CareInvIs, CareInvNext DEF vars, LeadsAll, AloneAll
  <2>3. \A r \in Rid : Home(r)' = Home(r) /\ Read(r)' = Read(r)
    BY <1>3, <2>1 DEF vars, Home, Read
  <2>4. Mapping' = Mapping
    BY <2>2, <2>3, MappingIs, MappingNext
  <2> QED BY <2>1, <2>2, <2>4
<1>4. ASSUME NEW rec \in Records, insertRecord(rec)
      PROVE  CareInv' /\ KeepsTombstones /\ Store!Next
  <2>1. PICK rid \in Rid : /\ Fills(rid, rec)
                           /\ rid \in DOMAIN Mapping' \ DOMAIN Mapping
                           /\ Mapping' = Store!With(Mapping, rid, rec)
    BY <1>2, <1>4, InsertMaps
  <2>2. KeepsTombstones
    BY <2>1 DEF Fills, Kept, SameContent, IsTombstone
  <2>3. Store!Insert
    BY <2>1 DEF Store!Insert
  <2> QED BY <1>2, <1>4, <2>2, <2>3, InsertMaps DEF Store!Next
<1>5. ASSUME NEW rid \in HomeRids, deleteRecord(rid)
      PROVE  CareInv' /\ KeepsTombstones /\ Store!Next
  <2>1. /\ CareInv' /\ Frees(rid)
        /\ rid \in DOMAIN Mapping \ DOMAIN Mapping'
        /\ Mapping' = Restrict(Mapping, DOMAIN Mapping \ {rid})
    BY <1>2, <1>5, DeleteMaps
  <2>2. KeepsTombstones
    BY <2>1 DEF Frees, Kept, SameContent, IsTombstone
  <2>3. Store!Delete
    BY <2>1 DEF Store!Delete, Store!Restrict, Restrict
  <2> QED BY <2>1, <2>2, <2>3 DEF Store!Next
<1>6. ASSUME DeleteForwarded
      PROVE  CareInv' /\ KeepsTombstones /\ UNCHANGED Mapping
  BY <1>2, <1>6, RestMaps DEF Frees, Kept, SameContent, IsTombstone
<1>7. ASSUME NEW rid \in HomeRids, NEW rec \in Records,
             ~IsTombstone(rid), ~OnOwnPage(rid, rec), updateRecord(rid, rec)
      PROVE  CareInv' /\ KeepsTombstones /\ Store!Next
  <2>1. UpdatesSlot(rid, rec) /\ pending = NoRid /\ pending' = NoRid /\ Exists(rid)
    BY <1>1, <1>7, UpdateChanges
  <2>2. KeepsTombstones
    BY <1>7, <2>1 DEF UpdatesSlot, Writes, Moves, Kept, SameContent, IsTombstone
  <2>3. /\ CareInv' /\ rid \in DOMAIN Mapping
        /\ Mapping' = [Mapping EXCEPT ![rid] = rec]
    BY <1>2, <1>7, <2>1, UpdateMaps
  <2>4. Store!Update
    BY <2>3 DEF Store!Update
  <2> QED BY <2>2, <2>3, <2>4 DEF Store!Next
<1> QED BY <1>3, <1>4, <1>5, <1>6, <1>7 DEF CarefulNext

LEMMA CareInit == Init => CareInv /\ Mapping = << >>
<1> SUFFICES ASSUME Init PROVE CareInv /\ Mapping = << >>
  OBVIOUS
<1>1. LayoutInv /\ pending = NoRid
  BY InitGood DEF Init
<1>2. \A r : ~Exists(r)
  BY DEF Init, Exists
<1>3. CareInv
  BY <1>1, <1>2, CareInvIs DEF LeadsAll, AloneAll, IsTombstone
<1>4. HomeRids = {}
  BY <1>1, <1>2, HomeRidsAre DEF Home
<1> QED BY <1>3, <1>4 DEF Mapping

\* The inductive invariant of the careful client's file.
THEOREM CareInvariant ==
  ASSUME NoLookAlikes PROVE CarefulSpec => []CareInv
<1>1. Init => CareInv
  BY CareInit
<1>2. CareInv /\ [CarefulNext]_vars => CareInv'
  BY CarefulStep
<1> QED BY <1>1, <1>2, PTL DEF CarefulSpec

\* A tombstone leads to a live record of its own, so reads take one hop and a
\* delete frees both slots.
THEOREM TombstonesAlwaysLead ==
  ASSUME NoLookAlikes PROVE CarefulSpec => []TombstonesLead
<1>1. CareInv => TombstonesLead
  BY DEF CareInv
<1> QED BY <1>1, CareInvariant, PTL

\* Deletes in two steps, compactions, moves and reused slots included, the file
\* implements a map from RIDs to records.
THEOREM RecordFileRefines ==
  ASSUME NoLookAlikes PROVE CarefulSpec => ImplementsStore
<1>1. Init => CareInv /\ Store!Init
  BY CareInit DEF Store!Init
<1>2. CareInv /\ [CarefulNext]_vars => CareInv' /\ [Store!Next]_Mapping
  BY CarefulStep
<1> QED BY <1>1, <1>2, PTL DEF CarefulSpec, ImplementsStore, Store!Spec

\* A call's effect on the readers is on the RID it was given, however one step
\* of the file can be explained as a call.
THEOREM CallsStayOnTheirRid ==
  ASSUME NoLookAlikes PROVE CarefulSpec => CallsActOnTheirRid
<1> DEFINE Acts ==
      LET before == Mapping
          after  == Mapping'
      IN  /\ \A rid \in HomeRids :
                deleteRecord(rid) => after = Restrict(before, DOMAIN before \ {rid})
          /\ \A rid \in HomeRids, rec \in Records :
                updateRecord(rid, rec) => after = [before EXCEPT ![rid] = rec]
          /\ \A rec \in Records : insertRecord(rec) =>
                \E rid \in DOMAIN after \ DOMAIN before :
                   after = [r \in DOMAIN before \cup {rid} |->
                              IF r = rid THEN rec ELSE before[r]]
<1>1. ASSUME CareInv, [CarefulNext]_vars PROVE Acts
  <2>1. CareInv' /\ LayoutInv /\ LayoutInv' /\ KeepsTombstones
    BY <1>1, CarefulStep DEF CareInv
  <2>2. ASSUME NEW rid \in HomeRids, deleteRecord(rid)
        PROVE  Mapping' = Restrict(Mapping, DOMAIN Mapping \ {rid})
    BY <1>1, <2>1, <2>2, DeleteMaps
  <2>3. ASSUME NEW rid \in HomeRids, NEW rec \in Records, updateRecord(rid, rec)
        PROVE  Mapping' = [Mapping EXCEPT ![rid] = rec]
    <3>1. rid \in Rid
      BY <2>1, HomeRidsAre
    <3>2. /\ Exists(rid) /\ pending = NoRid /\ pending' = NoRid
          /\ \/ UpdatesSlot(rid, rec)
             \/ \E to \in Rid : ~Exists(to) /\ to # NoRid /\ Writes(rid, NoRecord, to)
      BY <2>1, <2>3, <3>1, UpdateChanges
    <3>3. ~IsTombstone(rid)
      <4> SUFFICES ASSUME IsTombstone(rid) PROVE FALSE
        OBVIOUS
      <4>1. Exists(rid)' /\ (SlotAt(rid)'.fwd = NoRid \/ ~Exists(SlotAt(rid)'.fwd))
        BY <3>1, <3>2 DEF UpdatesSlot, Writes, Moves
      <4>2. SlotAt(rid)'.fwd = SlotAt(rid).fwd
        BY <2>1, <3>1, <4>1 DEF KeepsTombstones
      <4> QED BY <1>1, <3>1, <4>1, <4>2, Leading
    <3>4. UpdatesSlot(rid, rec)
      <4> SUFFICES ASSUME NEW to \in Rid, ~Exists(to), to # NoRid, Writes(rid, NoRecord, to)
                   PROVE  FALSE
        BY <3>2
      <4>1. IsTombstone(rid)' /\ SlotAt(rid)'.fwd = to /\ ~Exists(to)'
        BY <3>1, <3>2 DEF Writes, IsTombstone
      <4>2. Exists(SlotAt(rid).fwd)'
        BY <2>1, <3>1, <4>1, CareInvNext DEF LeadsAll
      <4> QED BY <4>1, <4>2 DEF Exists
    <3> QED BY <1>1, <2>1, <3>2, <3>3, <3>4, UpdateMaps
  <2>4. ASSUME NEW rec \in Records, insertRecord(rec)
        PROVE  \E rid \in DOMAIN Mapping' \ DOMAIN Mapping :
                  Mapping' = [r \in DOMAIN Mapping \cup {rid} |->
                                IF r = rid THEN rec ELSE Mapping[r]]
    BY <1>1, <2>1, <2>4, InsertMaps DEF Store!With
  <2> QED BY <2>2, <2>3, <2>4
<1>2. CareInv /\ [CarefulNext]_vars => [Acts]_vars
  BY <1>1
<1> QED BY <1>2, CareInvariant, PTL DEF CarefulSpec, CallsActOnTheirRid

-----------------------------------------------------------------------------
(* A scan of a changing file. *)

\* Where the record of a home RID lies.
Place(h) == IF IsTombstone(h) THEN SlotAt(h).fwd ELSE h

\* The scan has passed the record.
Behind(h) == ~NotBefore(Place(h), cursor)

\* The records left alone, each returned once the scan has passed it, if it matches.
Tally ==
  /\ returned \in [DOMAIN returned -> Nat]
  /\ \A h \in DOMAIN returned :
        /\ h \in HomeRids
        /\ returned[h] = IF Behind(h) /\ Matches(h) THEN 1 ELSE 0
        /\ Ended => Behind(h)

\* The inductive invariant.
ScanInv == CareInv /\ cursor \in Rid /\ scanning \in BOOLEAN /\ Tally

-----------------------------------------------------------------------------
(* Records and their places. *)

\* A record lies in a live slot that is no tombstone.
LEMMA PlaceIs ==
  ASSUME CareInv, NEW h \in HomeRids
  PROVE  /\ h \in Rid /\ Home(h) /\ Target(h) = Place(h)
         /\ Place(h) \in Scanned /\ Place(h) \in Rid
         /\ readRecord(h) = SlotAt(Place(h)).rec
<1>1. h \in Rid /\ Home(h) /\ Exists(h) /\ LayoutInv
  BY HomeRidsAre DEF CareInv, Home
<1>2. Target(h) = Place(h)
  BY <1>1, OneHop DEF Hop, Place
<1>3. Place(h) \in Rid /\ Exists(Place(h)) /\ ~IsTombstone(Place(h))
  BY <1>1, Leading DEF Place
<1>4. Place(h) \in Scanned
  BY <1>1, <1>3, LiveRidsAre DEF Scanned
<1>5. readRecord(h) = SlotAt(Place(h)).rec
  BY <1>1, <1>2, <1>3 DEF readRecord
<1> QED BY <1>1, <1>2, <1>3, <1>4, <1>5

\* The order of a scan.
LEMMA ScanOrder ==
  ASSUME NEW p \in Rid, NEW q \in Rid, NEW r \in Rid
  PROVE  /\ NotBefore(p, q) /\ NotBefore(q, r) => NotBefore(p, r)
         /\ NotBefore(p, p)
         /\ After(q) \in Rid
         /\ ~NotBefore(q, After(q))
         /\ NotBefore(p, q) /\ p # q => NotBefore(p, After(q))
         /\ NotBefore(After(q), q)
         /\ p[1] < q[1] => ~NotBefore(p, q)
         /\ NotBefore(p, Start) \/ p[1] = 0 \/ p[2] = 0
BY RidPair DEF NotBefore, After, Start

-----------------------------------------------------------------------------
(* The client's other calls. *)

\* The record of h stays what and where it is.
Untouched(h) == Home(h)' /\ Place(h)' = Place(h) /\ Read(h)' = Read(h)

LEMMA MatchesNext ==
  ASSUME CareInv, CareInv', NEW h \in Rid, Home(h), Untouched(h)
  PROVE  /\ h \in HomeRids /\ h \in HomeRids'
         /\ Matches(h)' <=> Matches(h)
         /\ UNCHANGED cursor => (Behind(h)' <=> Behind(h))
<1>1. h \in HomeRids /\ h \in HomeRids'
  BY HomeRidsAre, HomeRidsNext DEF CareInv, Untouched
<1>2. readRecord(h) = Read(h)
  BY <1>1, ReadIs
<1>3. (CareInv => \A r \in HomeRids : readRecord(r) = Read(r))'
  BY ReadIs, PTL
<1>4. readRecord(h)' = Read(h)'
  BY <1>1, <1>3
<1> QED BY <1>1, <1>2, <1>4 DEF Matches, Untouched, Behind

\* A call that leaves the cursor and the untouched records alone.
LEMMA CallKeepsTally ==
  ASSUME ScanInv, CareInv', UNCHANGED <<cursor, scanning>>,
         NEW D \in SUBSET DOMAIN returned, returned' = Restrict(returned, D),
         \A h \in D : Untouched(h)
  PROVE  ScanInv'
<1>1. /\ returned \in [DOMAIN returned -> Nat]
      /\ \A h \in DOMAIN returned : h \in Rid /\ Home(h)
  BY HomeRidsAre DEF ScanInv, Tally, CareInv
<1>2. DOMAIN returned' = D /\ \A h \in D : returned'[h] = returned[h]
  BY DEF Restrict
<1>3. returned' \in [DOMAIN returned' -> Nat]
  BY <1>1, <1>2 DEF Restrict
<1>4. ASSUME NEW h \in DOMAIN returned'
      PROVE  /\ h \in HomeRids'
             /\ returned'[h] = IF Behind(h)' /\ Matches(h)' THEN 1 ELSE 0
             /\ Ended' => Behind(h)'
  <2>1. /\ h \in HomeRids' /\ (Matches(h)' <=> Matches(h)) /\ (Behind(h)' <=> Behind(h))
    BY <1>1, <1>2, MatchesNext DEF ScanInv
  <2> QED BY <1>2, <2>1 DEF ScanInv, Tally, Ended
<1> QED BY <1>3, <1>4 DEF ScanInv, Tally

\* What a change of one slot leaves untouched.
LEMMA KeptPlace ==
  ASSUME NEW h \in Rid, Home(h), Home(h)', SlotAt(h)'.fwd = SlotAt(h).fwd
  PROVE  Place(h)' = Place(h)
BY DEF Place, IsTombstone, Home

LEMMA InsertKeeps ==
  ASSUME NoLookAlikes, ScanInv, CareInv', Insert
  PROVE  ScanInv'
<1>1. PICK rec \in Records : insertRecord(rec)
  BY DEF Insert
<1>2. PICK rid \in Rid : /\ Fills(rid, rec)
                         /\ rid \in DOMAIN Mapping' \ DOMAIN Mapping
                         /\ Mapping' = Store!With(Mapping, rid, rec)
  BY <1>1, InsertMaps DEF ScanInv, CareInv
<1>3. ASSUME NEW h \in Rid, Home(h) PROVE Untouched(h)
  <2>1. h \in DOMAIN Mapping /\ h # rid
    BY <1>2, <1>3, MappingIs DEF ScanInv
  <2>2. h \in DOMAIN Mapping' /\ Mapping'[h] = Mapping[h]
    BY <1>2, <2>1 DEF Store!With
  <2>3. Home(h)' /\ Read(h)' = Read(h)
    BY <2>1, <2>2, MappingIs, MappingNext DEF ScanInv
  <2>4. SlotAt(h)'.fwd = SlotAt(h).fwd
    BY <1>2, <1>3 DEF Fills, Kept, SameContent, Home
  <2> QED BY <1>3, <2>3, <2>4, KeptPlace DEF Untouched
<1>4. returned' = Restrict(returned, DOMAIN returned) /\ UNCHANGED <<cursor, scanning>>
  BY DEF Insert, scanVars, Restrict, ScanInv, Tally
<1>5. \A h \in DOMAIN returned : h \in Rid /\ Home(h)
  BY HomeRidsAre DEF ScanInv, Tally, CareInv
<1> QED BY <1>3, <1>4, <1>5, CallKeepsTally

LEMMA DeleteKeeps ==
  ASSUME ScanInv, CareInv', Delete
  PROVE  ScanInv'
<1>1. \A h \in DOMAIN returned : h \in Rid /\ Home(h)
  BY HomeRidsAre DEF ScanInv, Tally, CareInv
<1>2. ASSUME NEW rid \in HomeRids, deleteRecord(rid), Touches(rid) PROVE ScanInv'
  <2>1. /\ Frees(rid)
        /\ Mapping' = Restrict(Mapping, DOMAIN Mapping \ {rid})
    BY <1>2, DeleteMaps DEF ScanInv, CareInv
  <2>2. ASSUME NEW h \in Rid \ {rid}, Home(h) PROVE Untouched(h)
    <3>1. h \in DOMAIN Mapping
      BY <2>2, MappingIs DEF ScanInv
    <3>2. h \in DOMAIN Mapping' /\ Mapping'[h] = Mapping[h]
      BY <2>1, <2>2, <3>1 DEF Restrict
    <3>3. Home(h)' /\ Read(h)' = Read(h)
      BY <3>1, <3>2, MappingIs, MappingNext DEF ScanInv
    <3>4. SlotAt(h)'.fwd = SlotAt(h).fwd
      BY <2>1, <2>2 DEF Frees, Kept, SameContent, Home
    <3> QED BY <2>2, <3>3, <3>4, KeptPlace DEF Untouched
  <2> QED BY <1>1, <1>2, <2>2, CallKeepsTally DEF Touches
<1>3. ASSUME DeleteForwarded, UNCHANGED scanVars PROVE ScanInv'
  <2>1. Frees(pending) /\ UNCHANGED Mapping
    BY <1>3, RestMaps DEF ScanInv, CareInv
  <2>2. ASSUME NEW h \in Rid, Home(h) PROVE Untouched(h)
    <3>1. Home(h)' /\ Read(h)' = Read(h)
      BY <2>1, <2>2, MappingIs, MappingNext DEF ScanInv
    <3>2. SlotAt(h)'.fwd = SlotAt(h).fwd
      BY <2>1, <2>2 DEF Frees, Kept, SameContent, Home
    <3> QED BY <2>2, <3>1, <3>2, KeptPlace DEF Untouched
  <2>3. returned' = Restrict(returned, DOMAIN returned) /\ UNCHANGED <<cursor, scanning>>
    BY <1>3 DEF scanVars, Restrict, ScanInv, Tally
  <2> QED BY <1>1, <2>2, <2>3, CallKeepsTally
<1> QED BY <1>2, <1>3 DEF Delete

LEMMA UpdateKeeps ==
  ASSUME NoLookAlikes, ScanInv, CareInv', Update
  PROVE  ScanInv'
<1>1. PICK rid \in HomeRids, rec \in Records :
        /\ ~IsTombstone(rid) /\ ~OnOwnPage(rid, rec)
        /\ updateRecord(rid, rec) /\ Touches(rid)
  BY DEF Update, Touches
<1>2. rid \in Rid /\ LayoutInv /\ LayoutInv' /\ CareInv
  BY HomeRidsAre DEF ScanInv, CareInv
<1>3. UpdatesSlot(rid, rec) /\ pending = NoRid /\ pending' = NoRid
  BY <1>1, <1>2, UpdateChanges
<1>4. Mapping' = [Mapping EXCEPT ![rid] = rec]
  BY <1>1, <1>2, <1>3, UpdateMaps
<1>5. ASSUME NEW h \in Rid \ {rid}, Home(h) PROVE Untouched(h)
  <2>1. h \in DOMAIN Mapping
    BY <1>2, <1>5, MappingIs
  <2>2. h \in DOMAIN Mapping' /\ Mapping'[h] = Mapping[h]
    BY <1>4, <1>5, <2>1
  <2>3. Home(h)' /\ Read(h)' = Read(h)
    BY <1>2, <2>1, <2>2, MappingIs, MappingNext
  <2>4. SlotAt(h)'.fwd = SlotAt(h).fwd
    BY <1>3, <1>5 DEF UpdatesSlot, Writes, Moves, Kept, SameContent, Home
  <2> QED BY <1>5, <2>3, <2>4, KeptPlace DEF Untouched
<1>6. \A h \in DOMAIN returned : h \in Rid /\ Home(h)
  BY <1>2, HomeRidsAre DEF ScanInv, Tally
<1> QED BY <1>1, <1>5, <1>6, CallKeepsTally DEF Touches

-----------------------------------------------------------------------------
(* The scan itself. *)

\* Steps of the scan change no page.
LEMMA ScanReads ==
  ASSUME CareInv, UNCHANGED vars
  PROVE  /\ CareInv' /\ HomeRids' = HomeRids /\ Len(pages') = Len(pages)
         /\ \A h \in HomeRids : Place(h)' = Place(h) /\ (Matches(h)' <=> Matches(h))
<1>1. \A r : /\ Exists(r)' = Exists(r) /\ SlotAt(r)' = SlotAt(r)
             /\ IsTombstone(r)' = IsTombstone(r)
  BY DEF vars, IsTombstone, Exists, SlotAt
<1>2. CareInv'
  BY <1>1, CareInvIs, CareInvNext DEF vars, LeadsAll, AloneAll, LayoutInv, PagesGood
<1>3. \A r \in Rid : Home(r)' = Home(r) /\ Place(r)' = Place(r) /\ Read(r)' = Read(r)
  BY <1>1 DEF vars, Home, Place, Read
<1>4. HomeRids' = HomeRids
  BY <1>2, <1>3, HomeRidsAre, HomeRidsNext DEF CareInv
<1>5. \A h \in HomeRids : h \in Rid /\ Home(h) /\ Untouched(h)
  BY <1>3, PlaceIs DEF Untouched
<1> QED BY <1>2, <1>3, <1>4, <1>5, MatchesNext DEF vars

LEMMA ScanBegins ==
  ASSUME ScanInv, scan
  PROVE  ScanInv'
<1>1. /\ CareInv /\ CareInv' /\ HomeRids' = HomeRids /\ cursor' = Start /\ scanning' = TRUE
      /\ \A h \in HomeRids : Place(h)' = Place(h)
      /\ returned' = [h \in HomeRids |-> 0]
  BY ScanReads DEF ScanInv, scan
<1>2. Start \in Rid
  BY DEF Start, Rid
<1>3. ASSUME NEW h \in HomeRids PROVE ~Behind(h)'
  <2>1. Place(h) \in Rid /\ Exists(Place(h)) /\ LayoutInv
    BY <1>1, PlaceIs, LiveRidsAre DEF Scanned, CareInv
  <2>2. Place(h)[1] # 0 /\ Place(h)[2] # 0
    BY <2>1, PagesAre DEF Exists
  <2>3. NotBefore(Place(h), Start)
    BY <1>2, <2>1, <2>2, ScanOrder
  <2> QED BY <1>1, <2>3 DEF Behind
<1>4. ~Ended'
  BY <1>1 DEF Ended
<1>5. returned' \in [DOMAIN returned' -> Nat] /\ DOMAIN returned' = HomeRids
  BY <1>1
<1> QED BY <1>1, <1>2, <1>3, <1>4, <1>5 DEF ScanInv, Tally

LEMMA ScanAdvances ==
  ASSUME ScanInv, getNextRecord
  PROVE  ScanInv'
<1>1. /\ CareInv /\ CareInv' /\ LayoutInv /\ HomeRids' = HomeRids /\ scanning
      /\ \A h \in HomeRids : Place(h)' = Place(h) /\ (Matches(h)' <=> Matches(h))
      /\ cursor \in Rid /\ returned \in [DOMAIN returned -> Nat]
  BY ScanReads DEF ScanInv, getNextRecord, CareInv, Tally
<1>2. \A h \in DOMAIN returned :
        /\ h \in HomeRids /\ Place(h) \in Rid /\ Target(h) = Place(h)
        /\ returned[h] = IF Behind(h) /\ Matches(h) THEN 1 ELSE 0
        /\ Matches(h) /\ ~Behind(h) => Place(h) \in Ahead
  BY <1>1, PlaceIs DEF ScanInv, Tally, Ahead, Behind, Matches
<1>3. ASSUME NEW r \in Ahead, \A q \in Ahead : NotBefore(q, r), cursor' = After(r),
             returned' = [h \in DOMAIN returned |->
                            IF Target(h) = r THEN returned[h] + 1 ELSE returned[h]],
             UNCHANGED scanning
      PROVE  ScanInv'
  <2>1. r \in Rid /\ NotBefore(r, cursor) /\ SlotAt(r).rec \in Matching
    BY <1>1, LiveRidsAre DEF Ahead, Scanned
  <2>2. After(r) \in Rid /\ returned' \in [DOMAIN returned' -> Nat] /\ ~Ended'
    BY <1>1, <1>3, <2>1, ScanOrder DEF Ended
  <2>3. ASSUME NEW h \in DOMAIN returned
        PROVE  returned'[h] = IF Behind(h)' /\ Matches(h)' THEN 1 ELSE 0
    <3>1. CASE Place(h) = r
      <4>1. ~Behind(h) /\ Matches(h)
        BY <1>1, <1>2, <2>1, <3>1, PlaceIs DEF Behind, Matches
      <4>2. Behind(h)' /\ Matches(h)'
        BY <1>1, <1>2, <1>3, <2>1, <3>1, <4>1, ScanOrder DEF Behind
      <4> QED BY <1>2, <1>3, <3>1, <4>1, <4>2
    <3>2. CASE Place(h) # r
      <4>1. Behind(h) => Behind(h)'
        BY <1>1, <1>2, <1>3, <2>1, <2>2, ScanOrder DEF Behind
      <4>2. Matches(h) /\ ~Behind(h) => ~Behind(h)'
        BY <1>1, <1>2, <1>3, <2>1, <2>2, <3>2, ScanOrder DEF Behind
      <4> QED BY <1>1, <1>2, <1>3, <3>2, <4>1, <4>2
    <3> QED BY <3>1, <3>2
  <2> QED BY <1>1, <1>2, <1>3, <2>2, <2>3 DEF ScanInv, Tally
<1>4. ASSUME Ahead = {}, cursor' = <<Len(pages) + 1, 1>>, scanning' = FALSE, UNCHANGED returned
      PROVE  ScanInv'
  <2>1. Len(pages) \in Nat /\ cursor' \in Rid
    BY <1>1, <1>4, PagesAre DEF Rid
  <2>2. ASSUME NEW h \in HomeRids PROVE Behind(h)'
    <3>1. Place(h) \in Rid /\ Exists(Place(h))
      BY <1>1, PlaceIs, LiveRidsAre DEF Scanned
    <3>2. Place(h)[1] < cursor'[1]
      BY <1>1, <1>4, <3>1, PagesAre, RidPair DEF Exists
    <3> QED BY <1>1, <2>1, <3>1, <3>2, ScanOrder DEF Behind
  <2>3. \A h \in DOMAIN returned :
          returned'[h] = IF Behind(h)' /\ Matches(h)' THEN 1 ELSE 0
    BY <1>1, <1>2, <1>4, <2>2
  <2> QED BY <1>1, <1>2, <1>4, <2>1, <2>2, <2>3 DEF ScanInv, Tally
<1> QED BY <1>3, <1>4 DEF getNextRecord

-----------------------------------------------------------------------------

LEMMA ScanInvInit == ScanInit => ScanInv
<1> SUFFICES ASSUME ScanInit PROVE ScanInv
  OBVIOUS
<1>1. CareInv /\ Start \in Rid
  BY CareInit DEF ScanInit, Start, Rid
<1>2. DOMAIN returned = {} /\ returned \in [DOMAIN returned -> Nat]
  BY DEF ScanInit
<1> QED BY <1>1, <1>2 DEF ScanInit, ScanInv, Tally

LEMMA ScanInvStep ==
  ASSUME NoLookAlikes, ScanInv, [ScanNext]_allVars
  PROVE  ScanInv'
<1>1. [CarefulNext]_vars
  BY DEF ScanNext, scan, getNextRecord, Insert, Delete, Update, allVars, vars, CarefulNext
<1>2. CareInv'
  BY <1>1, CarefulStep DEF ScanInv
<1>3. CASE UNCHANGED allVars
  <2>1. /\ HomeRids' = HomeRids
        /\ \A h \in HomeRids : Place(h)' = Place(h) /\ (Matches(h)' <=> Matches(h))
    BY <1>3, ScanReads DEF allVars, vars, ScanInv
  <2> QED BY <1>2, <1>3, <2>1 DEF allVars, ScanInv, Tally, Behind, Ended
<1> QED BY <1>2, <1>3, ScanBegins, ScanAdvances, InsertKeeps, DeleteKeeps, UpdateKeeps
        DEF ScanNext

\* While the scan runs, the records left alone that it has passed have been returned
\* once each, the others not at all.
THEOREM ScanInvariant ==
  ASSUME NoLookAlikes PROVE ScanSpec => []ScanInv
<1>1. ScanInv /\ [ScanNext]_allVars => ScanInv'
  BY ScanInvStep
<1> QED BY <1>1, ScanInvInit, PTL DEF ScanSpec

\* Whatever inserts, deletes, updates and moves come between its calls, a scan
\* returns a record that is left alone once, if it matches.
THEOREM ScanReturnsOnce ==
  ASSUME NoLookAlikes PROVE ScanSpec => []ScanExact
<1>1. ScanInv => ScanExact
  BY DEF ScanInv, Tally, ScanExact
<1> QED BY <1>1, ScanInvariant, PTL
=============================================================================
