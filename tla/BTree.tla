------------------------------- MODULE BTree --------------------------------
(***************************************************************************)
(* The B+ tree of the index manager (ix.cc).  Page 0 of an index file is   *)
(* hidden and holds the root's page number (0: empty tree); every other    *)
(* page is a leaf, with entries in key order and the number of the next    *)
(* leaf, or an internal node, with one pointer more than separator keys.   *)
(*                                                                         *)
(* A handle caches the root's page number, loaded by openFile and stored   *)
(* by closeFile, and the file's page count, kept by the paged file layer.  *)
(* A page's bytes are contiguous, so its free space offset is not stored   *)
(* but computed (Fso).                                                     *)
(***************************************************************************)
EXTENDS Integers, SequencesExt

CONSTANTS
  PAGE_SIZE,    \* bytes in a page
  Keys,         \* key values, ordered as compareKeys orders them
  KeyLen,       \* KeyLen[k]: bytes of key k, 4 for integers and reals
  VarChar,      \* whether the attribute's type is TypeVarChar
  Rids,         \* the RIDs entries point to
  Handles       \* the IXFileHandles clients may open on the file

METADATA_SIZE  == 16
RID_SIZE       == 6
PTR_SIZE       == 4
MIN_DATA_BYTES == (PAGE_SIZE - METADATA_SIZE) \div 2

ASSUME BTreeAssumption ==
  /\ PAGE_SIZE \in Nat
  /\ Keys \subseteq Int /\ KeyLen \in [Keys -> Nat \ {0}]
  /\ \A k \in Keys : METADATA_SIZE + KeyLen[k] + RID_SIZE <= PAGE_SIZE
  /\ VarChar \in BOOLEAN
  /\ Handles # {}

VARIABLES
  nodes,        \* nodes[p]: page p of the file, for p > 0
  hidden,       \* the root's page number stored in page 0
  handles       \* handles[h]: whether h is open, its root and its page count

vars == <<nodes, hidden, handles>>

Entry == [key : Keys, rid : Rids]

Leaf(entries, next)  == [leaf |-> TRUE, entries |-> entries, next |-> next]
Internal(keys, ptrs) == [leaf |-> FALSE, keys |-> keys, ptrs |-> ptrs]

Node == [leaf : {TRUE}, entries : Seq(Entry), next : Nat]
          \cup [leaf : {FALSE}, keys : Seq(Keys), ptrs : Seq(Nat)]

Closed == [open |-> FALSE, root |-> 0, count |-> 0]

-----------------------------------------------------------------------------
(* Pages. *)

Bytes(keys, extra) ==
  LET upTo[i \in 0..Len(keys)] == IF i = 0 THEN 0 ELSE upTo[i - 1] + KeyLen[keys[i]] + extra
  IN  upTo[Len(keys)]

KeysOf(entries) == [i \in DOMAIN entries |-> entries[i].key]

\* The data bytes of a page, and its free space offset.
Used(n) == IF n.leaf THEN Bytes(KeysOf(n.entries), RID_SIZE)
                     ELSE PTR_SIZE + Bytes(n.keys, PTR_SIZE)
Fso(n)  == METADATA_SIZE + Used(n)

\* The position of the first key of a sequence that passes a test, or the
\* position behind the last.
FirstKey(keys, Test(_)) ==
  LET hits == {i \in DOMAIN keys : Test(keys[i])}
  IN  IF hits = {} THEN Len(keys) + 1 ELSE CHOOSE i \in hits : \A j \in hits : i <= j

\* Where a key is inserted: behind the keys equal to it.
findInsertPos(keys, key) == FirstKey(keys, LAMBDA k : key < k)

\* The child to insert below: a key equal to a separator goes right of it.
findInternalChildIds(n, key) == FirstKey(n.keys, LAMBDA k : key < k)

\* The child to delete or scan from: a key equal to a separator goes left.
findInternalChildIdsLeft(n, key) == FirstKey(n.keys, LAMBDA k : key <= k)

\* A view of the file through one handle: the pages, t.root and t.count.
View      == [nodes : Seq(Node), root : Nat, count : Nat]
ViewOf(h) == [nodes |-> nodes, root |-> handles[h].root, count |-> handles[h].count]

WriteNode(t, p, n) == [t EXCEPT !.nodes[p] = n]

\* appendPage: the new page's number is taken to be t.count, the page count
\* cached by the handle before the call.
AppendNode(t, n) == [t EXCEPT !.nodes = Append(@, n), !.count = @ + 1]

\* The pages from the root to a leaf, each the child Choose picks for key.
Path(t, key, Choose(_, _)) ==
  LET walk[p \in DOMAIN t.nodes] ==
        LET n == t.nodes[p]
        IN  IF n.leaf THEN <<p>> ELSE <<p>> \o walk[n.ptrs[Choose(n, key)]]
  IN  walk[t.root]

-----------------------------------------------------------------------------
(* Insertion. *)

\* What a split passes up: the new page and the first key below it.
Split   == [key : Int, page : Nat]
NoSplit == [key |-> 0, page |-> 0]

\* Mutant: the leaf that is split keeps its next pointer.
insertIntoLeaf_KeepNext(t, p, e) ==
  LET n     == t.nodes[p]
      all   == InsertAt(n.entries, findInsertPos(KeysOf(n.entries), e.key), e)
      left  == Len(all) \div 2
      right == SubSeq(all, left + 1, Len(all))
  IN  IF KeyLen[e.key] + Fso(n) + RID_SIZE <= PAGE_SIZE
      THEN [tree |-> WriteNode(t, p, Leaf(all, n.next)), split |-> NoSplit]
      ELSE [tree  |-> WriteNode(AppendNode(t, Leaf(right, n.next)), p,
                                Leaf(SubSeq(all, 1, left), n.next)),
            split |-> [key |-> right[1].key, page |-> t.count]]

\* insertWithSpaceLeaf, or insertSplitLeaf: half of the entries, by number,
\* move to a new page, whose first key is passed up.
insertIntoLeaf(t, p, e) ==
  LET n     == t.nodes[p]
      all   == InsertAt(n.entries, findInsertPos(KeysOf(n.entries), e.key), e)
      left  == Len(all) \div 2
      right == SubSeq(all, left + 1, Len(all))
  IN  IF KeyLen[e.key] + Fso(n) + RID_SIZE <= PAGE_SIZE
      THEN [tree |-> WriteNode(t, p, Leaf(all, n.next)), split |-> NoSplit]
      ELSE [tree  |-> WriteNode(AppendNode(t, Leaf(right, n.next)), p,
                                Leaf(SubSeq(all, 1, left), t.count)),
            split |-> [key |-> right[1].key, page |-> t.count]]

\* Mutant: the space for the new pointer is not asked for.
insertIntoInternal_NoPointer(t, p, split, size) ==
  LET n    == t.nodes[p]
      at   == findInsertPos(n.keys, split.key)
      keys == InsertAt(n.keys, at, split.key)
      ptrs == InsertAt(n.ptrs, at + 1, split.page)
      left == Len(keys) \div 2
  IN  IF size + Fso(n) <= PAGE_SIZE
      THEN [tree |-> WriteNode(t, p, Internal(keys, ptrs)), split |-> NoSplit]
      ELSE [tree  |-> WriteNode(AppendNode(t, Internal(SubSeq(keys, left + 2, Len(keys)),
                                                       SubSeq(ptrs, left + 2, Len(ptrs)))),
                                p, Internal(SubSeq(keys, 1, left),
                                            SubSeq(ptrs, 1, left + 1))),
            split |-> [key |-> keys[left + 1], page |-> t.count]]

\* insertWithSpaceInternal, or insertSplitInternal: the middle key moves up.
\* Whether there is space is decided by `size', the length of the key being
\* inserted into the tree, not of the separator being inserted here.
insertIntoInternal(t, p, split, size) ==
  LET n    == t.nodes[p]
      at   == findInsertPos(n.keys, split.key)
      keys == InsertAt(n.keys, at, split.key)
      ptrs == InsertAt(n.ptrs, at + 1, split.page)
      left == Len(keys) \div 2
  IN  IF size + Fso(n) + PTR_SIZE <= PAGE_SIZE
      THEN [tree |-> WriteNode(t, p, Internal(keys, ptrs)), split |-> NoSplit]
      ELSE [tree  |-> WriteNode(AppendNode(t, Internal(SubSeq(keys, left + 2, Len(keys)),
                                                       SubSeq(ptrs, left + 2, Len(ptrs)))),
                                p, Internal(SubSeq(keys, 1, left),
                                            SubSeq(ptrs, 1, left + 1))),
            split |-> [key |-> keys[left + 1], page |-> t.count]]

\* The way of insert down to a leaf, and what it leaves at each level of it, from the leaf
\* up: splits go back up the same path.
InsertPath(t, e) == Path(t, e.key, findInternalChildIds)

Climb(t, e) ==
  LET path == InsertPath(t, e)
      climb[k \in 0..Len(path) - 1] ==
        IF k = 0 THEN insertIntoLeaf(t, Last(path), e)
        ELSE LET d == climb[k - 1]
             IN  IF d.split = NoSplit THEN d
                 ELSE insertIntoInternal(d.tree, path[Len(path) - k], d.split, KeyLen[e.key])
  IN  climb

\* insertEntry: a first leaf if the tree is empty, and a new root if the old one splits.
InsertEntry(t, e) ==
  LET grown == IF t.root = 0
               THEN [AppendNode(t, Leaf(<< >>, 0)) EXCEPT !.root = t.count]
               ELSE t
      top   == Climb(grown, e)[Len(InsertPath(grown, e)) - 1]
  IN  IF top.split = NoSplit THEN top.tree
      ELSE [AppendNode(top.tree, Internal(<<top.split.key>>, <<top.tree.root, top.split.page>>))
              EXCEPT !.root = top.tree.count]

\* Whether a page split by the insertion of e has the separator passed up to its right
\* already: the new page then goes behind that one, and not next to the page split.
Misplaces(t, e) ==
  LET path  == InsertPath(t, e)
      climb == Climb(t, e)
  IN  /\ t.root # 0
      /\ \E k \in 1..Len(path) - 1 :
           LET n == t.nodes[path[Len(path) - k]]
               s == climb[k - 1].split
           IN  s # NoSplit /\ findInsertPos(n.keys, s.key) # findInternalChildIds(n, e.key)

-----------------------------------------------------------------------------
(* Deletion. *)

\* findLeafEntry takes two VarChar keys of the same length for equal.
Matches(x, e) ==
  /\ x.rid = e.rid
  /\ x.key = e.key \/ (VarChar /\ KeyLen[x.key] = KeyLen[e.key])

\* The leaf deleteEntry finds e on, or 0: from the leaf its descent reaches it
\* follows the chain until a leaf starts with a larger key.
LeafOf(t, e) ==
  LET Past(p) == t.nodes[p].entries # << >> /\ t.nodes[p].entries[1].key > e.key
      Has(p)  == \E x \in ToSet(t.nodes[p].entries) : Matches(x, e)
      follow[p \in DOMAIN t.nodes] ==
        LET next == t.nodes[p].next
        IN  IF Has(p) \/ next = 0 \/ Past(next) THEN p ELSE next
      leaf[i \in 0..Len(t.nodes)] ==
        IF i = 0 THEN Last(Path(t, e.key, findInternalChildIdsLeft)) ELSE follow[leaf[i - 1]]
      stop == leaf[Len(t.nodes)]
  IN  IF t.root # 0 /\ Has(stop) THEN stop ELSE 0

\* The sibling of child j an underflow is repaired with: the left one if any.
Sibling(j) == IF j > 1 THEN j - 1 ELSE j + 1

\* One entry moves from the sibling to the child; the separator between them
\* becomes the first key of the right page, or what its bytes still hold.
redistributeLeaves(t, p, j) ==
  LET par   == t.nodes[p]
      cp    == par.ptrs[j]
      sp    == par.ptrs[Sibling(j)]
      child == t.nodes[cp].entries
      sib   == t.nodes[sp].entries
      left  == j > 1
      moved == IF left THEN Last(sib) ELSE Head(sib)
      first == IF left \/ Len(sib) = 1 THEN moved ELSE sib[2]
  IN  [t EXCEPT !.nodes = [@ EXCEPT
         ![cp].entries = IF left THEN Cons(moved, child) ELSE Append(child, moved),
         ![sp].entries = IF left THEN Front(sib) ELSE Tail(sib),
         ![p].keys[IF left THEN j - 1 ELSE j] = first.key]]

\* Mutant: the sibling's edge key does not move up.
redistributeInternals_KeepSeparator(t, p, j) ==
  LET par   == t.nodes[p]
      cp    == par.ptrs[j]
      sp    == par.ptrs[Sibling(j)]
      child == t.nodes[cp]
      sib   == t.nodes[sp]
      left  == j > 1
      at    == IF left THEN j - 1 ELSE j
      sep   == par.keys[at]
  IN  [t EXCEPT !.nodes = [@ EXCEPT
         ![cp] = IF left
                 THEN Internal(Cons(sep, child.keys), Cons(Last(sib.ptrs), child.ptrs))
                 ELSE Internal(Append(child.keys, sep), Append(child.ptrs, Head(sib.ptrs))),
         ![sp] = IF left THEN Internal(Front(sib.keys), Front(sib.ptrs))
                         ELSE Internal(Tail(sib.keys), Tail(sib.ptrs))]]

\* The separator moves down, the sibling's edge key up, its edge pointer over.
redistributeInternals(t, p, j) ==
  LET par   == t.nodes[p]
      cp    == par.ptrs[j]
      sp    == par.ptrs[Sibling(j)]
      child == t.nodes[cp]
      sib   == t.nodes[sp]
      left  == j > 1
      at    == IF left THEN j - 1 ELSE j
      sep   == par.keys[at]
  IN  [t EXCEPT !.nodes = [@ EXCEPT
         ![cp] = IF left
                 THEN Internal(Cons(sep, child.keys), Cons(Last(sib.ptrs), child.ptrs))
                 ELSE Internal(Append(child.keys, sep), Append(child.ptrs, Head(sib.ptrs))),
         ![sp] = IF left THEN Internal(Front(sib.keys), Front(sib.ptrs))
                         ELSE Internal(Tail(sib.keys), Tail(sib.ptrs)),
         ![p].keys[at] = IF left THEN Last(sib.keys) ELSE Head(sib.keys)]]

\* Mutant: the pages are joined in the wrong order.
mergedNode_Swapped(l, sep, r) ==
  IF l.leaf THEN Leaf(r.entries \o l.entries, r.next)
            ELSE Internal(Append(l.keys, sep) \o r.keys, l.ptrs \o r.ptrs)

\* Mutant: the separator does not move down.
mergedNode_NoSeparator(l, sep, r) ==
  IF l.leaf THEN Leaf(l.entries \o r.entries, r.next)
            ELSE Internal(l.keys \o r.keys, l.ptrs \o r.ptrs)

\* Mutant: the left leaf keeps pointing to the page merged into it.
mergedNode_KeepNext(l, sep, r) ==
  IF l.leaf THEN Leaf(l.entries \o r.entries, l.next)
            ELSE Internal(Append(l.keys, sep) \o r.keys, l.ptrs \o r.ptrs)

mergedNode(l, sep, r) ==
  IF l.leaf THEN Leaf(l.entries \o r.entries, r.next)
            ELSE Internal(Append(l.keys, sep) \o r.keys, l.ptrs \o r.ptrs)

\* Mutant: the left page of the pair goes into the right one.
merge_IntoRight(t, p, j) ==
  LET par    == t.nodes[p]
      at     == IF j > 1 THEN j - 1 ELSE j
      merged == mergedNode(t.nodes[par.ptrs[at]], par.keys[at], t.nodes[par.ptrs[at + 1]])
  IN  IF Fso(merged) > PAGE_SIZE THEN t
      ELSE [t EXCEPT !.nodes = [@ EXCEPT
              ![par.ptrs[at + 1]] = merged,
              ![p]                = Internal(RemoveAt(par.keys, at), RemoveAt(par.ptrs, at))]]

\* The right page of the pair goes into the left one; its separator and its
\* pointer leave the parent, unless the result would not fit in a page.
merge(t, p, j) ==
  LET par    == t.nodes[p]
      at     == IF j > 1 THEN j - 1 ELSE j
      merged == mergedNode(t.nodes[par.ptrs[at]], par.keys[at], t.nodes[par.ptrs[at + 1]])
  IN  IF Fso(merged) > PAGE_SIZE THEN t
      ELSE [t EXCEPT !.nodes = [@ EXCEPT
              ![par.ptrs[at]] = merged,
              ![p]            = Internal(RemoveAt(par.keys, at), RemoveAt(par.ptrs, at + 1))]]

redistributeOrMergeEntries(t, p, j) ==
  LET sib == t.nodes[t.nodes[p].ptrs[Sibling(j)]]
  IN  IF Used(sib) <= MIN_DATA_BYTES THEN merge(t, p, j)
      ELSE IF t.nodes[t.nodes[p].ptrs[j]].leaf THEN redistributeLeaves(t, p, j)
           ELSE redistributeInternals(t, p, j)

Underflows(n) == Used(n) < MIN_DATA_BYTES

\* del, for an entry found on leaf q: underflow is signalled up the path only
\* if q is the leaf the descent reached.
del(t, e, q) ==
  LET path == Path(t, e.key, findInternalChildIdsLeft)
      at   == CHOOSE i \in DOMAIN t.nodes[q].entries :
                /\ Matches(t.nodes[q].entries[i], e)
                /\ \A j \in 1..i - 1 : ~Matches(t.nodes[q].entries[j], e)
      cut  == [t EXCEPT !.nodes[q].entries = RemoveAt(@, at)]
      up[d \in [tree : View, at : Nat]] ==
        IF d.at = 0 \/ ~Underflows(d.tree.nodes[path[d.at + 1]]) THEN d
        ELSE [tree |-> redistributeOrMergeEntries(d.tree, path[d.at],
                         findInternalChildIdsLeft(d.tree.nodes[path[d.at]], e.key)),
              at   |-> d.at - 1]
      climb[k \in 0..Len(path) - 1] ==
        IF k = 0 THEN [tree |-> cut, at |-> Len(path) - 1] ELSE up[climb[k - 1]]
  IN  IF q = Last(path) THEN climb[Len(path) - 1].tree ELSE cut

\* Mutant: a root that has lost its last key is kept.
shrinkRoot_KeepInternal(t) ==
  LET r == t.nodes[t.root]
  IN  IF r.leaf /\ r.entries = << >> THEN [t EXCEPT !.root = 0] ELSE t

\* An empty leaf at the root leaves the tree empty; an internal root without
\* keys gives way to its only child.
shrinkRoot(t) ==
  LET r == t.nodes[t.root]
  IN  IF r.leaf
      THEN IF r.entries = << >> THEN [t EXCEPT !.root = 0] ELSE t
      ELSE IF r.keys = << >> THEN [t EXCEPT !.root = r.ptrs[1]] ELSE t

-----------------------------------------------------------------------------
(* The operations. *)

Init == nodes = << >> /\ hidden = 0 /\ handles = [h \in Handles |-> Closed]

\* openFile reads the hidden page and the size of the file.
openFile(h) ==
  /\ ~handles[h].open
  /\ handles' = [handles EXCEPT
       ![h] = [open |-> TRUE, root |-> hidden, count |-> Len(nodes) + 1]]
  /\ UNCHANGED <<nodes, hidden>>

\* Mutant: the root is not written back.
closeFile_NoHiddenPage(h) ==
  /\ handles[h].open
  /\ handles' = [handles EXCEPT ![h] = Closed]
  /\ UNCHANGED <<nodes, hidden>>

closeFile(h) ==
  /\ handles[h].open
  /\ hidden' = handles[h].root
  /\ handles' = [handles EXCEPT ![h] = Closed]
  /\ UNCHANGED nodes

\* A handle whose page count is right.  Through any other, new pages are given
\* wrong numbers and reads of pages beyond the count fail, which insert does
\* not notice: it goes on with an uninitialised buffer, and is not modelled.
Current(h) == handles[h].open /\ handles[h].count = Len(nodes) + 1

Becomes(h, t) ==
  /\ nodes' = t.nodes
  /\ handles' = [handles EXCEPT ![h].root = t.root, ![h].count = t.count]
  /\ UNCHANGED hidden

insertEntry(h, e) == Current(h) /\ \E t \in {InsertEntry(ViewOf(h), e)} : Becomes(h, t)

\* An entry that is not found is an error that changes nothing.
deleteEntry(h, e) ==
  /\ Current(h)
  /\ \E q \in {LeafOf(ViewOf(h), e)} \ {0} :
       \E t \in {del(ViewOf(h), e, q)} : Becomes(h, shrinkRoot(t))

-----------------------------------------------------------------------------
(* What a file holds. *)

\* The leaves from page p on, along the next pointers, as many at most as there are pages
\* and one more: a chain without an end is that long.
Chain(p) ==
  LET longer == [ps \in Seq(1..Len(nodes)) |->
                   LET next == nodes[Last(ps)].next
                   IN  IF next = 0 THEN ps ELSE Append(ps, next)]
      walk[i \in 0..Len(nodes)] == IF i = 0 THEN <<p>> ELSE longer[walk[i - 1]]
  IN  walk[Len(nodes)]

FirstLeaf(r) ==
  Last(Path([nodes |-> nodes, root |-> r], 0, LAMBDA n, key : 1))

\* The entries a scan of the tree at root r meets, in its order.
ScanOrder(r) ==
  IF r = 0 THEN << >>
  ELSE FoldLeft(LAMBDA order, p : order \o nodes[p].entries, << >>, Chain(FirstLeaf(r)))

Contents(r) ==
  IF r = 0 THEN {} ELSE UNION {ToSet(nodes[p].entries) : p \in ToSet(Chain(FirstLeaf(r)))}

\* The root of the tree: an open handle's, or the one in the hidden page.
Root == IF \E h \in Handles : handles[h].open
        THEN handles[CHOOSE h \in Handles : handles[h].open].root
        ELSE hidden

\* Clients insert no entry that is in the index: a RID has one key.
New(h, e) == e \notin Contents(handles[h].root)

\* A client that works through one handle at a time.
Next ==
  \E h \in Handles :
     \/ (\A g \in Handles : ~handles[g].open) /\ openFile(h)
     \/ closeFile(h)
     \/ \E e \in Entry : New(h, e) /\ insertEntry(h, e)
     \/ \E e \in Entry : deleteEntry(h, e)

Spec == Init /\ [][Next]_vars

\* A client that inserts no entry behind a separator equal to its key.
OrderlyNext ==
  \E h \in Handles :
     \/ (\A g \in Handles : ~handles[g].open) /\ openFile(h)
     \/ closeFile(h)
     \/ \E e \in Entry : New(h, e) /\ ~Misplaces(ViewOf(h), e) /\ insertEntry(h, e)
     \/ \E e \in Entry : deleteEntry(h, e)

OrderlySpec == Init /\ [][OrderlyNext]_vars

-----------------------------------------------------------------------------
(* Properties. *)

\* The leaves below page r, from left to right, and the pages below it.
TreeLeaves(r) ==
  LET below[p \in DOMAIN nodes] ==
        IF nodes[p].leaf THEN <<p>>
        ELSE FlattenSeq([i \in DOMAIN nodes[p].ptrs |-> below[nodes[p].ptrs[i]]])
  IN  below[r]

Children(p) == IF nodes[p].leaf THEN {} ELSE ToSet(nodes[p].ptrs)

TreePages(r) ==
  LET below[p \in DOMAIN nodes] == {p} \cup UNION {below[q] : q \in Children(p)}
  IN  below[r]

KeysBelow(r)  == {e.key : e \in UNION {ToSet(nodes[p].entries) : p \in ToSet(TreeLeaves(r))}}

\* The depth of the leftmost leaf below page p.
Height(p) == Len(Path([nodes |-> nodes, root |-> p], 0, LAMBDA n, key : 1))

TypeOK ==
  /\ \A p \in DOMAIN nodes :
        IF nodes[p].leaf
        THEN nodes[p].entries \in Seq(Entry) /\ nodes[p].next \in 0..Len(nodes)
        ELSE /\ nodes[p].keys \in Seq(Keys) /\ nodes[p].ptrs \in Seq(1..Len(nodes))
             /\ Len(nodes[p].ptrs) = Len(nodes[p].keys) + 1
  /\ hidden \in 0..Len(nodes)
  /\ handles \in [Handles -> [open : BOOLEAN, root : 0..Len(nodes), count : Nat]]

\* No page overflows: what a split, a rotation or a new separator writes into
\* a page ends within it.
PagesFit == \A p \in DOMAIN nodes : Fso(nodes[p]) <= PAGE_SIZE

\* All leaves are at the same depth, and every internal node of the tree has
\* two children at least, so an underflowing child always has a sibling.
WellShaped ==
  Root # 0 =>
    \A p \in TreePages(Root) : ~nodes[p].leaf =>
      /\ nodes[p].keys # << >>
      /\ \A q \in Children(p) : Height(q) = Height(nodes[p].ptrs[1])

\* The separators bound the keys below the pointers next to them.
SeparatorsBound ==
  Root # 0 =>
    \A p \in {q \in TreePages(Root) : ~nodes[q].leaf} :
      \A i \in DOMAIN nodes[p].ptrs : \A k \in KeysBelow(nodes[p].ptrs[i]) :
        /\ i > 1 => nodes[p].keys[i - 1] <= k
        /\ i <= Len(nodes[p].keys) => k <= nodes[p].keys[i]

\* The chain of next pointers visits exactly the tree's leaves, left to right:
\* splits, rotations and merges keep the two structures in step.
ChainInOrder ==
  Root # 0 => Chain(FirstLeaf(Root)) = TreeLeaves(Root)

\* A scan returns the entries in key order.
ScanSorted ==
  LET order == ScanOrder(Root)
  IN  \A i \in 1..Len(order) - 1 : order[i].key <= order[i + 1].key

\* Every entry on a leaf of the tree is found by a descent to its key and a
\* walk along the chain: deleteEntry and a scan from that key reach it.
Findable ==
  Root # 0 =>
    \A p \in ToSet(TreeLeaves(Root)) : \A e \in ToSet(nodes[p].entries) :
      LeafOf([nodes |-> nodes, root |-> Root], e) # 0

\* The stored root number goes stale: insertEntry and deleteEntry change the handle's
\* only, and a handle that is dropped without closeFile, or closed when another has
\* changed the root, leaves an earlier one.  Until the index is empty, a scan from any
\* page that was its root returns all of it: it starts at the same first leaf.
EarlierRootsReach ==
  [][\A p \in DOMAIN nodes :
       Root # 0 /\ Root' # 0 /\ FirstLeaf(p) = FirstLeaf(Root) =>
         FirstLeaf(p)' = FirstLeaf(Root)']_vars

\* Each call adds or removes the entry it was given and no other, whatever
\* splits, rotations, merges and root changes it causes, and closing and
\* reopening the file changes nothing.
Store == INSTANCE IndexStore WITH Entries <- Entry, entries <- Contents(Root)

ImplementsIndex == Store!Spec
=============================================================================
