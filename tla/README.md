# PeterDB: a TLA+ model of its storage layers, relation manager and query operators

PeterDB is a small relational database in C++ built in layers: paged files,
record files, B+ tree indexes, a relation manager with a catalog, and a query
engine. This directory holds TLA+ modules for the three storage layers, their
scans, the relation manager and the query operators, the TLC configurations that
check them, and proofs for TLAPS. Paths below are relative to the repository root.

1. The system
2. The modules, and how they correspond to the code
3. The runs: what is checked, with which bounds
4. What is proved
5. Where the code departs from its documents
6. What is not modelled
7. The plan

## 1. The system

| Component | State | Operations | Talks to |
|---|---|---|---|
| `PagedFileManager`, `FileHandle` (`src/src/pfm/pfm.cc`) | a file of 4096-byte blocks, block 0 with three counters; per handle the counters and a cached page count | create, destroy, open, close; read, write, append a page | the C library |
| `RecordBasedFileManager` (`src/src/rbfm/rbfm.cc`) | heap pages: records from the front, slot directory from the back, free space offset and slot count in the last four bytes | insert, read, delete, update a record; read an attribute | pages through a `FileHandle` |
| `RBFM_ScanIterator` (same file) | a cursor (page, slot) and a condition | `scan`, `getNextRecord`, `close` | pages through the same handle |
| `IndexManager`, `IXFileHandle` (`src/src/ix/ix.cc`) | page 0 with the root's page number, leaves and internal nodes; per handle the root and the page count | create, destroy, open, close; insert and delete an entry; print | pages through a `FileHandle` of its own |
| `IX_ScanIterator` (same file) | a copy of one leaf, a position in it, the last key returned | `scan`, `getNextEntry`, `close` | pages through the client's handle |
| `RelationManager` (`src/src/rm/rm.cc`) | the tables `Tables` and `Columns`; one record file per table, one index file per indexed attribute | catalog, table, tuple, index operations, scans | record files and indexes, a handle per call |
| Tuple and record formats (`src/src/rbfm/rbfm.cc`, `src/src/qe/qe.cc`) | none | conversion, access by attribute, projection, concatenation, comparison | used by all above the pages |
| Query engine (`src/src/qe/qe.cc`, `src/src/include/qe.h`) | per operator: blocks, hash tables, queues, scans in progress, temporary tables, accumulators | TableScan, Filter, Project, BNLJoin, INLJoin, GHJoin, Aggregate; each `getNextTuple` | its inputs, the relation manager |
| CLI (`src/src/cli/cli.cc`) | none of its own | parses commands | relation manager, query engine |

The program is single-threaded. What makes it hard is not threads but *calls
interleaved through shared files*: a scan holds a cursor or a copy of a page
while its client changes the file; `updateRecord` calls `insertRecord` while it
holds a buffer of the page it will write back; two handles on one file each
believe their cached page count, counters and root; nothing is logged, so a
process that dies leaves what was written. Next to these stand the boundaries of
the page format (unsigned offsets, pages filled to the last byte, records
smaller than the tombstone that must replace them, keys of different lengths)
and long sequences of legal calls (moves, deletes, slot reuse; splits, rotations,
merges) after which references between pages must still lead somewhere. The query
operators keep their place across calls of `getNextTuple`: in a block, a queue, a
scan of the other input, and in temporary tables that outlive a crash.

What makes each component correct:

* *Paged files*: a page that passes the bounds check exists; `getNumberOfPages`
  is the number of pages; the stored counters are the operations performed.
* *Record files*: a file is a map from RIDs to records, and a call changes the
  record of its own RID only. This rests on the page layout: the data and the
  directory do not meet, records do not overlap, no byte is lost, every record can become a
  tombstone (it cannot: run `small_record`), and every tombstone leads to one record.
* *Record scans*: a record left alone is returned exactly once.
* *Indexes*: a file is a set of entries, and a call adds or removes its own entry
  only. This rests on the tree: balanced, separators that bound the keys next to
  them, pages that do not overflow, a leaf chain in tree order.
* *Index scans*: exactly the entries in range, in order, each once, also while
  the entries returned are deleted; and the scan ends.
* *Relation manager*: a table is a map from RIDs to tuples, and every index of a
  table holds the entries of its tuples, and no others. This rests on the catalog: unique ids and names, a file
  for every table it lists, and no rows or index files of tables that are gone.
* *Formats*: a value written is the value read, whichever way it is read, with any
  values null.
* *Query engine*: each operator returns what its relational definition says, each result
  as often as it occurs, then `QE_EOF`; and it leaves no tables behind.

## 2. The modules

    RecordStore   <- RecordFile <- RecordScan          PagedFile
                        |             |                    |
                  MCRecordFile   MCRecordScan        MCPagedFile <- PagedFileProofs

    MCPagedFile, MCRecordFile <- MCFiles

    RecordScan, Induction <- RecordFileProofs

    IndexStore    <- BTree <- BTreeBuilt <- MCBTree
                        |         |
                    IndexScan <- MCIndexScan

    BTree, Induction <- BTreeProofs <- IndexProofs <- KeyProofs

    Maps <- TableStore <- RelationManager <- MCRelation
    Catalog <- RelationManager <- RelationProofs

    JoinKeys <- JoinInputs <- BNLJoin, INLJoin
    Join     <- BNLJoin, INLJoin
    JoinKeys, Catalog <- GHJoin
    BNLJoin, INLJoin, GHJoin <- JoinProofs
    RecordFormat <- Select
    BNLJoin, INLJoin, GHJoin, Aggregate, Select, MCIndexScan <- MCOperators

(`A <- B`: B extends A, instantiates it, or implements it.) `RecordStore`, `IndexStore`,
`TableStore` and `Join` are the abstract specifications: a partial map from identifiers to
records, a set of entries, named tables of tuples, and the pairs a join has yet to return.
`RecordFile`, `BTree`, `RelationManager`, `BNLJoin` and `INLJoin` are
shown to implement them under the refinement mappings at the end of each module.
`RelationManager` does not contain the modules of the layers below: it stands on what
they were shown to implement, with the one thing those abstractions hide and the
relation manager sees, the RIDs at which moved records lie.
Modules with a name in `MC` only give constants values and bounds.
Definitions named `Something_Else` right before `Something` are mutants: plausible bugs that
the properties must notice; the specification does not use them.

### PagedFile

One file name; `files[f]` is the f-th file that has had it (a removed file lives
on for the handles that have it open), with the counters in its header block and
its pages; `handles[h]` is the file a `FileHandle` has open, its counters and its
cached page count. Each function of `pfm.cc` is an action of the same name;
`closeFile` also stands for the destructor of an open handle. `Crash` closes all
handles without storing their counters.

A page is as long as the stdio buffer, and every call seeks first, so a page
that was written is in the kernel when the call returns: a crash of the process
(not of the machine) loses what is in the handles and nothing else. `createFile`
is one step. Page contents are model values.

### RecordFile

`pages` is the sequence of pages, numbered from 1. A page is its slot directory
and its free space offset; a slot has the offset and length of the code, and the
*content* found there: a record, or for a tombstone the RID it holds. Attaching
the content to the slot is what the bytes say as long as records do not overlap,
which is what the layout invariants establish. A record is a model value
with a size (`Size[r]`, what `dataToByteArray` returns) and, since the code tells
tombstones by the first byte of the record, the RID a reader would take it for
(`ReadsAs[r]`, `NoRid` for none).

| Code | Model |
|---|---|
| `checkFreeSpace`, `compactPage` | operators of the same names |
| `insertRecord` | `insertRecord`; the choice of a page (`IsInsertPage`: last page, else the first with room, else a new one) and of a slot (`IsInsertSlot`: first deleted, else a new one) |
| `deleteRecord` | `deleteRecord`, and for a tombstone `DeleteForwarded`, the recursive call, as a step of its own; `pending` is its argument |
| `updateRecord` | `UpdateInPlace`, `UpdateAtEnd`, `UpdateByMoving` for its three cases; the third writes back the buffer it read before the nested insert |
| `readRecord` | `readRecord` through `Target`, the end of the tombstone chain |

A call that would return an error is not enabled. With a slot shorter than a
tombstone, case 3 wraps an unsigned difference and `compactPage` leaves the
page; that call has no successor in the model. `TombstoneRoom`, that no slot is so short, is
what the report says and not what the code does (run `small_record`).

Four clients use the file. `Next` passes any RID of a live slot, also one a scan
returned for a moved copy. `RoomyNext` does so too, and makes all calls but one: it does not
insert a record shorter than nine bytes in a page with room for the record and
not for nine (`ShortOfRoom`), where the code lets the record's space run into the slot
directory. Records of any size are inserted elsewhere, reuse slots and shrink in place.
`HomeNext` passes only RIDs `insertRecord` returned. `CarefulNext` passes only those, inserts as
`RoomyNext` does, and does not update a record that has already moved, nor one whose copy
would be placed on the record's own page: the cases of section 5 in which the code
loses track of a record.

### RecordScan

`cursor` is the next slot to examine. `getNextRecord` takes the first live slot
from there that is no tombstone and satisfies the condition (`Matching`), or ends
the scan. The client is the careful one, and calls between any two steps.
The history variable `returned` counts, for each record that existed when the scan began
and has been left alone since, how often it has been returned.

### BTree

`nodes[p]` is page p of the index file: a leaf with entries and a next pointer,
or an internal node with keys and pointers; `hidden` is the root stored in page
0; `handles[h]` is a handle's root and cached page count. Pages orphaned by
merges stay in `nodes`, as they stay in the file. Data is contiguous in every page, so
the free space offset is computed (`Fso`) from the lengths of the keys.

`InsertEntry` and `del` are the recursive functions of the code: the path from
the root to a leaf, the change of the leaf, and the way back up, on which
insertion passes on a split (`insertIntoInternal`) and deletion an underflow
(`redistributeOrMergeEntries`, with `redistributeLeaves`,
`redistributeInternals` and `merge`). `shrinkRoot` is the end of `deleteEntry`.
They are operators on a *view* (pages, root, count) so that a call is one step: the
program is single-threaded and a call's intermediate writes are seen by nobody,
except an iterator, which reads between calls only.

`deleteEntry` of an entry that is not there, an error, is not enabled. A handle
whose page count is wrong (`Current`) is not used: `insert` ignores failing reads
and goes on with an uninitialised buffer. Clients work through one handle at a time and
insert no entry twice; different entries may have the same key. A page that splits passes a
separator to its parent, where `findInsertPos` looks for the place; the place is the one behind the page
unless a separator equal to it follows (`Misplaces`: run `duplicates`). What the tree
says about keys and about the leaf chain holds for *orderly* clients, none of whose insertions
does that; clients with no two entries of one key are orderly. The relation manager's
indexes, which stand on `IndexStore`, are as good as their clients are orderly.

### IndexScan

`iter` is the iterator: the page number, the copy of the leaf, the position, the
last key returned. `scan` places it on the first entry above the lower bound.
`getNextEntry` returns the entry at the position; at the end of the copy
(`Advance`) it reads the page again, resumes at the first key not below the last
one if the page has changed, and otherwise follows the next pointer. Whether a
page *changed* is decided by the code on raw bytes including those behind the
entries; `residue` is a nondeterministic choice for what these say after a write.

Clients: `ScanNext` changes the index only between scans, or scans everything and
deletes each entry as it is returned (the loop of the tests in
`src/test/ix/ixtest_public.cc`); `RangeNext` does the latter with bounds. `Pull` is what
both do while a scan is open: ask, or delete what was returned.

### Catalog

`disk` is what the catalog leaves in the file system: which files exist, and the
rows of `Tables` and `Columns`. A row of `Tables` is an id and a name (table and file
have the same), a row of `Columns` the id of its table and the name of an attribute. `Columns`
is a bag: `createTable` always inserts its rows, and a cut `deleteTable` may have left equal
ones under an id that comes back. `getAttributes` then lists the attribute twice, and what loops
over its result deals with the attribute twice: `Listings` is how often it is listed,
`indexedAttrs` a bag with as many copies. The values of a tuple are unaffected:
`readAttribute` and the projection of a scan stop at the first field of the name they
look for, so the model's tuples have one value per name.
`createCatalog`, `deleteCatalog`, `createTable`, `deleteTable`, `createIndex` and
`destroyIndex` are actions of the same names; a call that returns an error without
writing is not enabled.

Each of them writes several files one after the other. A call either makes all its
writes or, in a *crash*, those up to some point: the second argument of `Write` is
where the call ends, the third the set of places where it can be cut. Since
the process is gone, the next call starts from what is on disk. Writes of one
kind whose order rests on slots or positions (rows of `Columns`, index files, table
files in `deleteCatalog`) may be cut at any subset. `cut` remembers which calls
have been cut, because some properties hold only while others have not.

Index files are named `t_a.idx`; `IndexFile` is this function, and the code finds
out which attributes have an index by asking whether such files exist
(`indexedAttrs`). The clients destroy the indexes before they delete the catalog:
`deleteCatalog` does not do it.

### RelationManager

`heaps[t]` is the record file of table t as RecordFile's refinement describes it:
records at RIDs, and tombstones. Where a record is put (`rid` in `insertTuple`), and
whether and where an update moves it (`at` in `updateTuple`), is a nondeterministic
choice among the free RIDs: more than the pages would allow. `entries[f]` is a bag,
so that an entry entered twice shows; a tuple has one entry in an index for every time
its attribute is listed. `insertTuple`, `deleteTuple` and `updateTuple`
are the whole calls: read the attributes, find the indexes, change the record and, in the
order of the code, the entries. `createIndex` is the catalog's action together with
`fillIndex`, which enters what a scan of the table returns. If `createIndex` is
cut, the index is empty: the root is stored by `closeFile` only. `KeepFiles` removes the contents of
files with the files.

`RNext` creates indexes at any time, `CarefulNext` only on tables none of whose tuples has
moved. Both pass to `updateTuple` only tuples that have not moved, and to
`deleteTuple` and `updateTuple` only RIDs `insertTuple` returned.

A crash can come between the steps of a tuple call: the step on the record file and one
step for each index, each of them whole. `Insert`, `Withdrawn` and `Update` therefore take
the bag of attributes whose indexes have been dealt with. A whole call takes all of it;
`insertTupleCut` and `updateTupleCut` a part (`SomeOf`), `withdrawCut` is a
`deleteTuple` or `updateTuple` that got no further than removing entries. `torn` remembers
that this has happened.

### RecordFormat and Select

`RecordFormat` has the two formats of a tuple and what `rbfm.cc` and `qe.cc` do with
them, as operators under the names of the code: `dataToByteArray`, `byteArrayToData`,
`readAttribute`, `getTupleSize`, `projectTuple`, `concatTuples`, `compareValues`. Memory is
a sequence of cells: a byte of a bitmap is the set of its bits, a byte of a value is the
value with its position, a byte of a length prefix the length. So a copy that starts one
byte off, or is one byte short, shows; which letters a text has does not. Three
loops of the code find the start of a value, each in its own way: `FieldPtr` skips what is
before it in a tuple, `byteArrayToData` carries the end of the last value along,
`LookBack` looks for it in the directory. That they agree is `FormatsAgree`.

`Select` is a plan of three operators, `Project` over `Filter` over `TableScan`, one step per
record the scan comes to. The client's file is not changed while the plan runs
(`RecordScan` has that). `TableScan::getAttributes` renames attributes to `table.attribute`;
the model leaves the table out of all names.

### BNLJoin, INLJoin

Both extend `JoinInputs`: tuples are told apart by their positions, and of their
contents the join key and, on the left, the size matter. One call of `getNextTuple` is the
steps from one that returns to the client to the next; a step that sets `ended` returns
`QE_EOF`.

In `BNLJoin`, `LoadTuple`, `EndOfLeft` and `ChunkFull` are the loop of `loadLeftChunk`,
`RightTuple` is one tuple of the right scan with `pushJoinedTuple`, `RightEnd` the end of
that scan. `leftDict` is the block, as a set of positions. `chunkLimit` is the unsigned
product, taken as an int. Null keys are no input: the code reads the key through a null
pointer.

In `INLJoin`, `NextLeft` restarts the index scan for the range that the left key and the
operator determine (`InRange`: what the code does), `NextRight` returns what the scan does, in
any order. The promise is made of the condition itself (`Satisfying`: left-hand side,
operator, right-hand side). The two agree for equality only, `EqualitySpec`.

### GHJoin

`GHJoin` extends `Catalog`: its temporary tables are created and deleted by the actions of
that module; `JoinKeys` has the keys, which it shares with the other joins. `joins[j]` is the state of one operator; several of them run in one
execution, their steps in any order, because a join can be the input of another.
`CreatePartition`, `PartitionLeft`, `PartitionRight` are `partition`, `probe`, `Fetch` and
`End` the rest of `getNextTuple`, `DeleteNext` the destructor. `Crash` ends the process
between any two steps: operators are lost, tables and their contents stay, and
`nextJoinId`, a static variable, starts over. A table that is there already
(`createTable` fails, which the code ignores) is filled further. History: `clash`
records that this happened to a join, `given` the pairs it has returned.

### Aggregate

One accumulator per group; the aggregate without groups is one with a single group that
is there from the start, which is how its code differs. Floats are whole numbers rounded to
`Mantissa` bits (24 in the program), to even (`Rounded`): every input is rounded when read,
every sum and count after each addition. `AVG` is left as the pair of sum and count.

### MCOperators

One operator is chosen by the initial state, of those in `Operators`, and runs with small inputs;
the variables of the others stay as they are: one run asks the same question of six operators, an
index scan (`MCIndexScan`) among them. `CompOps` are the operators of `INLJoin`'s condition. In
the same way `MCFiles` runs one of the two layers of files.

## 3. The runs

| Run | Question | Bounds |
|---|---|---|
| `files` | do record pages stay well formed, and do tombstone chains end, under any calls? are page counts and counters right through overlapping sessions, destruction and crashes? | 2 pages of 43 bytes (up to three records), record sizes 6, 13, 22, no insertion short of room; or 2 paged files of 2 pages, 2 handles, 2 reads or writes per file |
| `scan` | does a scan return exactly the records left alone, and does a record file implement a record store? | 2 pages of 43 bytes, record sizes 9, 13, 22; the largest records match; a client whose scan has ended begins another before its next call |
| `index` | does an index implement a set of entries, from the empty file on, through close and reopen, and with three levels? | from the empty file: 5 pages of two entries, 3 keys, up to three entries of one key; and any 4 calls on the trees built by insertion orders of 8 keys, one key twice |
| `relation` | does the relation manager implement tables, do indexes match them, and does the catalog survive crashes? | 2 tables of one attribute, 2 RIDs, 3 of them in use in both together, 2 keys and NULL, ids to 4, equal rows of `Columns` twice, 2 kinds of calls cut short |
| `operators` | do query operators and index scans return what they should, and end? | see below; joins on equality; scans of trees of three levels from 6 keys, any bounds, one other change |
| `small_record`, `moved_twice`, `overflow`, `duplicates`, `range_delete`, `moved_index`, `inequality` | see section 5 | violations |

Why the bounds are enough to be interesting:

* *Record files*: 43 bytes hold three records of 9 bytes or less or a 9 and a 13, or one of
  22; so a page has records on both sides of a gap, pages fill to the last byte,
  every case of `updateRecord` occurs on full and on nearly empty pages, slots are reused with
  longer and shorter records, and records move to and fro between pages. The 6 bytes of `files` are less than a tombstone's
  nine: such records take nine in a new slot, six in a reused one and after an update.
* *Indexes*: pages of 40 bytes hold two entries (10 bytes each) or two separators
  (8 each, and a pointer), so a page half full has one. Six keys give three levels, eight keys an
  internal level that splits, rotates left and right, merges and collapses within
  four calls. Three entries of a key do not fit in a leaf, so that a key is its own
  separator. A file with entries that are not of the first RID in its pages gets one page
  less (`Twinned`).
* *Paged files*: two files are needed for a handle that outlives its file's name,
  two handles for overlap.
* *Relations*: two tables for the reuse of ids and names; two RIDs for a tuple that
  moves, or two tuples, or a RID that is used again. Ids reach 4: 1 and 2 are the
  catalog's own. No more than three RIDs are in use in both tables together. With one
  attribute a table has at most one index, whose entries come twice when the table
  inherits the row of a table of the same id; `RelationProofs` covers any number. Two
  kinds of calls are cut short, those on tuples counted as one, each as often as the client
  makes them.
* *Index scans*: a client whose scan changed nothing makes no call of its own after it: the
  call would do what it does without the scan, which is checked as well.
* *Joins*: three left and two right tuples, so that a key comes twice on either side and
  is missing on one. Pages of 10 bytes, left tuples of 3 or 6: a block holds none, one
  or two of them, so there are up to three blocks, with the last one partial, full, or
  empty; 7 pages of 10 bytes wrap in `UINT_RANGE` 128.
* *Hash joins*: two joins with the same inputs over two partitions, two keys in one
  partition and a null key; one crash. After it the second join has the first one's number.
* *Aggregates*: up to three tuples of two groups or none, with values -3, 1, 7 and NULL; up
  to seven tuples of one group. With two bits of significand 7 is rounded, sums stop
  being exact at 5 and counts stop growing at 4, as they do at 2^24 with 24 bits.
* *Selections*: bitmaps with two bits to a byte, so three attributes take two bytes and two
  tuples joined take three; two numbers and a text of no, one or three letters, any of
  them NULL, in two orders; a byte has 8 values, so that records whose first value
  ends at the offset of the tombstone flag modulo 8 occur.

`CHECK_DEADLOCK FALSE` is set in `index.cfg` and `duplicates.cfg`, where a client
stops after `MaxCalls` calls or at the bounds, and in `operators.cfg` and `inequality.cfg`, where
an operator has come to its end or all hash joins are gone.
In `index` the last call is left out of the fingerprint (`VIEW`): it is a history variable
that only an action property reads. `files` uses symmetry of the handles: its properties do
not tell them apart, and it has no liveness. `index` uses symmetry of the RIDs other than the one
most entries have, which nothing compares. `relation` uses symmetry of RIDs and of keys,
which nothing compares, for invariants and a refinement without liveness.

The properties, by the hazard they answer:

* `DirectoryClear`, `RecordsApart`, `NoSpaceLeaks` (layout): one wrong
  offset or length shows up many calls later as garbage in another record.
* `ChainsEnd`, `TombstonesLead`: reads and deletes recurse along tombstones.
* `ImplementsStore`, `CallsActOnTheirRid`: moves, compactions and reused slots
  are invisible through every other RID. The second is more exact, it names the
  call; the first is the refinement.
* `ScanExact` (RecordScan): a cursor over pages that change.
* `CountExact`, `CountersTotal`, `AdmittedPagesExist`: cached values of a handle
  against the file, over sessions. The first two are claimed for files on which
  no two handles have been open at once.
* `WellShaped`, `SeparatorsBound`, `ChainInOrder`, `Findable`, `PagesFit`: the
  tree and the leaf chain are two structures that each call must keep in step.
* `ImplementsIndex`, `ScanSorted`, `CallsActOnTheirEntry`: what clients see of it.
* `EarlierRootsReach`: the root's number in page 0 is stored by `closeFile` only, so after a
  crash, a dropped handle or a late `closeFile` it is an earlier one. What was a root still
  leads to the first leaf, until the index is empty: why this holds is that merges
  keep the left page.
* `ScanExact` (IndexScan): the iterator finds its place again after merges.
* `CatalogSound`, `NothingStray`, `CatalogDeletable`: the catalog after calls cut short
  anywhere, and after ids and names have been reused. The second is claimed while no
  deletion has been cut, the third while `deleteCatalog` has not: see section 5.
* `IndexesMatch`: tuples and entries are changed by separate calls to two layers, and
  found again by values that change. After a crash in a tuple call an index may miss
  entries, but never has one its tuples are not due: entries go first and come last. An
  entry is there once, unless a cut deletion made the catalog list the attribute
  twice: then it may be there twice, and `deleteTuple` removes both.
* `ImplementsTables`: a table's tuples are its own, through deletes, moves, and
  files removed and created again.
* `ScanEnds`: the loop in `getNextEntry`, and the loops of its callers, end.
* `BNLImplementsJoin`, `INLImplementsJoin`: each pair that satisfies the condition once, and `QE_EOF`
  only after all, through blocks, restarted scans and queues; for `INLJoin` on equality, run
  `inequality` has the rest.
* `HashJoinExact`, `PartitionsOwned`: joins that run inside each other do not meet in
  their tables; a join that is dropped takes its tables with it, and only those of a
  process that died stay.
* `AggregateExact`: empty inputs, groups without values, and where floats stop being exact.
* `FormatsAgree`, `SelectExact`: nulls, bitmaps of several bytes, empty texts, and the flag
  of tombstones.
* `QueryEnds`: no state of blocks, scans and queues makes a call spin.

**Fairness** is assumed in `operators`: weak fairness of the steps of the operator that runs
(`Pulling`). The client calls `getNextTuple` until it returns `QE_EOF`, as the loops of
`src/src/cli/cli.cc` and of every operator over its input do, and the steps of one call follow
each other. For an index scan `Pulling` is `Pull`: a client that has opened a scan goes on asking
for entries until the end (the loops of the query engine and those of the tests run
until `IX_EOF`), and a client that deletes what it is returned does delete it. It is weak
fairness of the client's own next call; nothing is assumed of when other calls happen.

## 4. What is proved

`RecordFileProofs` proves, for every page size, any number of pages, records of any
size, and the client that passes any RID and makes all calls but insertions short of room
(`RoomySpec`):

* `LayoutInvariant`: `RoomySpec => []LayoutInv`, the inductive invariant;
* from it `TypeCorrect`, `DirectoryStaysClear`, `RecordsStayApart`, `NoSpaceIsLost`, the layout
  invariants of run `files`.

None of these is inductive alone. That records stay apart after a compaction
needs to know that what lies behind the gap starts behind it, that no two
records share an offset (so nonempty lengths), and that offsets below the gap are
not shifted; that no space is lost needs exactness of the lengths on both sides of
the gap; that the directory stays clear after `UpdateByMoving` rests on its guard, a slot long enough
for a tombstone. `GoodPage` collects them for one page; `LayoutInv` says every page is good.
Lemmas show that the page operators preserve it: dropping a slot and closing
its gap, shortening a slot in place, putting a record into a new or a reused slot,
moving it to the end. Each action is then one page changed by one of these,
`UpdateByMoving` two of them on two pages, or on the same page, where the buffer
written back is the one read before the insert. `ShortOfRoom` is the one step that
breaks the layout: it takes more from a page than the page has. The theorems say that nothing
else does; that the step occurs in the code is in section 5.

Its second part is about what the pages mean to their readers. It assumes
`NoLookAlikes`, that no record's first bytes spell a tombstone, a hypothesis of the theorems
because the code does not see to it (section 5).

* `ChainsAlwaysEnd`: under `RoomySpec`, walking along tombstones ends. The
  invariant is that the RIDs can be ranked (`Ranked`) such that every tombstone leads to a
  lower rank: the slot a move leads to holds no tombstone afterwards, so it can get the lowest
  rank and all others go up by one.
* `CareInvariant`, and from it `TombstonesAlwaysLead`: for the careful client a tombstone leads
  to a record, in one step, and no other tombstone leads there. Inductive together with
  the layout and with `PendingAlone`: between the two steps of a delete the record that is
  still to go has no tombstone.
* `RecordFileRefines`: the file implements `RecordStore` under its refinement mapping.
  Five kinds of change to a slot (`Frees`, `Fills`, `Writes` and so on) stand between the
  pages, where the layout lemmas speak, and the mapping.
* `CallsStayOnTheirRid`: the action property of run `scan`.
* `ScanInvariant`, `ScanReturnsOnce`: a record left alone has been returned once if it matches
  and its *place* is behind the cursor, and else not at all (`Tally`), the place being where
  the tombstone leads. It holds because the place of a record that nobody updates stays,
  and at the end of the scan no place is ahead.

`PagedFileProofs` proves, for any number of handles, files and operations,
`PagesInvariant` and with it `TypeCorrect` and `BoundsCheckIsSafe`: cached page counts
never run ahead of the file. The two conjuncts are inductive together: the page
`writePage` replaces exists because of the bound, and the count `openFile` takes
is of an existing file because of the type invariant. With the history variables of
`MCPagedFile`, and whatever its bounds, it proves `HistoryInvariant`, and from it
`CountStaysExact` and `CountersAddUp`: a handle that has never shared its file knows its
length, and the header of a closed file counts the operations of all sessions that neither
overlapped nor were cut short. The inductive part is what holds *within* a session
(`SessionTotal`: the handle's counters are ahead of the header by what the session has
done) and that every overlap has been noted.

`BTreeProofs` proves, for any page size from 40 bytes on, any keys of four bytes, any
RIDs, handles and number of pages and calls:

* `TreeInvariant`: `Spec => []IndexInvariant`, the inductive invariant;
* from it `IndexTypeCorrect` (`TypeOK`), `NoPageOverflows` (`PagesFit`) and
  `TreeStaysWellShaped` (`WellShaped`);
* `EarlierRootsStillReach`, the action property `EarlierRootsReach` of run `index`.

The hypothesis is `NumericKeys`: attributes of type integer or real. With VarChar keys
`PagesFit` is false (section 5, run `overflow`). The invariant has two parts. All pages of
the file have *levels* (`Leveled`): a leaf is at level 0 and leads to leaves, an internal
page's pointers lead one level down, and every page fits. This is said of the pages
that merges have left behind too, because new pages and the leaf chain do not
tell them apart. And the pages at and below the root are a *tree* (`Tree`): closed under
pointers, no page below two pointers, and no internal page of them without keys (`Keyed`). The
levels make every descent end, bound its length and give `Height`; that no page is
below two pointers is what makes a sibling another page than the child, so
that a rotation or a merge, which writes both, loses neither.

The action property rests on first children. Insertion changes none (`HeadsBut`): the right half
of a split is a new page, and the old root is the first child of a new one. A merge
writes into the left page and drops the right one from the parent. Only a rotation between
internal pages gives a page another first child, and that page is a right sibling, from
which no descent to the first leaf of the tree can start (`RightHead`): no two pages of the
tree at one level have the same first leaf (`FirstOnce`).

An insertion climbs back with a split or without: `Grown` says that the tree has two tops then,
or one, and `insertIntoLeaf`, `insertIntoInternal` and the new root are shown to go from
one level's `Grown` to the next's. A deletion climbs back with a page that may underflow:
`Climbed` says that all pages but this one have keys. Why the sibling's bytes alone decide
safely between a rotation and a merge: a sibling with more than half the bytes has a key to
give; and one with no more fits together with a child that has no key left, so that `merge`,
which gives up when the result does not fit, never leaves a page without keys (`MergeFits`,
`MergeRepairs`). `shrinkRoot` deals with a root that has lost its last key.

`IndexProofs` proves, under the same hypothesis and for any number of pages, entries and calls
of *orderly* clients, those that make no insertion that `Misplaces` a page (`OrderlySpec`):

* `OrderlyInvariant`: `OrderlySpec => []OrderInvariant`, the inductive invariant;
* `ChainStaysInOrder`: `OrderlySpec => []ChainInOrder`;
* `IndexRefines`: `OrderlySpec => ImplementsIndex`, the refinement of `IndexStore`.

For other clients both are false (section 5, run `duplicates`). The invariant adds to
`IndexInvariant` that there is a *picture* of the pages (`Picture`): every page of the tree is a
child at one place (`Placed`); every page has a right neighbour or none, which is the
next child of its parent, or the first child of its parent's neighbour (`Rows`); the entries of the
index are shared out to the leaves, none to two of them (`Shared`); and the pages of
the file are what the picture shows, a leaf's neighbour being its next page (`Shows`). So the
chain, of which the code keeps a pointer in each leaf, is defined for the levels above as well, and a
split, a merge or a rotation changes all levels in the same way: it puts a page behind another
(`FrameSplit`), takes one out (a split read backwards, `MergeRowsKept`), or moves
children between two that stand side by side (`FrameShifted`: a merge, and a split at
another place). A split page that the parent does not know yet is in the row of its level and not
below its parent (`Untold`), and the climb of `insertEntry` carries that from level to level.
That the new page's place in the parent is next to the page split is what `Misplaces` denies.

From a picture the leaves below a page, read from left to right, are a stretch of
the chain (`Stretch`), which for the root ends where the chain does (`RootRun`); a stretch visits
no leaf twice, because it ends, and so is no longer than the file (`RunLength`), which is as far as
`Chain` walks. The picture's entries are then those of `Contents`: `DeleteDrawn` takes the
entry given out of them, whatever `redistributeOrMergeEntries` does, and `InsertDrawn` puts it in.

`KeyProofs` proves that the keys are in order, of the same clients and under the same hypothesis:

* `KeyedStays`: `OrderlySpec => []KeyedInvariant`, which is `OrderInvariant` with the order of
  the keys;
* `SeparatorsStayBounds`: `OrderlySpec => []SeparatorsBound`;
* `EntriesStayFindable`: `OrderlySpec => []Findable`;
* `ScansStaySorted`: `OrderlySpec => []ScanSorted`;
* `CallsActOnTheirOwn`: `EmptySpec => CallsActOnTheirEntry`, of orderly clients that start
  from an empty file; it is `DeleteDrawn` and `InsertDrawn` put together.

The order is stated with a set of keys for every page (`Ordered`): it holds the keys of the page
and the sets of its children, each of which lies between the two separators next to the
pointer (`Amid`). The sets are only known to exist. They may be larger than what is on the
pages, and have to be: a deletion leaves separators that no entry has, and these go on bounding
what is inserted later. Page 0, which is no page of the file, stands above the root, so that a change of
root is a change of its only child. A lemma says what each change of the pages does to the sets:
a split divides the set of the page at the new separator (`SheetDivided`), a merge joins
the sets of two neighbours and the separator between them (`SheetJoined`), a rotation is a
merge and a split at another place (`SheetShifted`), and an insertion puts its key into the sets
of the pages on its path (`SheetGrown`), where `findInternalChildIds` has seen that there is
room for it (`WalkEntered`). `ClimbKeyDrawn` takes the order up the splits of an insertion,
`ClimbKeyedDown` up the repairs of a deletion. A new separator must be told to the parent at the
place of the page that was split; that is where it rests on `Misplaces`.

Reading it: the entries on the leaves below a page, from left to right, are in order (`RowsInRow`),
so they are within its set, which is `SeparatorsBound`; what a scan of everything passes, the
concatenation of the leaves by `FoldLeft`, is this row (`RowFolded`). For `Findable`,
`findInternalChildIdsLeft` leads to a leaf of the row (`LedTo`) such that all keys on the leaves
in front of it are smaller (`DescentLeads`); `LeafOf` follows the chain from there
until a leaf has the entry, and would stop too early only before a leaf that starts with a larger
key, behind which the entry cannot be (`WalkMeets`).

`RelationProofs` proves of the catalog, for any table and attribute names and any ids, with calls
cut short anywhere:

* `CatalogTypeCorrect`;
* `ListedTablesHaveFiles`: `Spec => []CatalogSound`;
* `NothingIsStray`, `CatalogStaysDeletable`: `[]NothingStray` and `[]CatalogDeletable`.

The last three assume `DistinctFiles`, which the code does not see to: a table
named like another's index would lose its file with it. The inductive invariant
`CatalogInv` adds to the properties that tables without file have no rows
(`NoFileNoRows`: a catalog created anew starts empty) and that rows are unique;
`NothingStray` needs the latter because a row deleted must be the only one that
its id's columns belong to. Each conjunct has a lemma for the step, with one case per
call, split into the whole and the cut one.

It proves `RelationKeepsCatalog`, `RSpec => Spec`: calls on tuples
leave the catalog alone. So the three catalog invariants hold of the relation manager
with its tuples and indexes, for every client (`RelationCatalog`). With `DistinctFiles`, for
any tables, attributes, RIDs and keys, and with crashes in all calls, it proves further:

* for every client, `TablesInvariant`: a tombstone leads to one record and no two to the same
  (`IsHeap`), a file that is not there has no contents, tuples have their table's attributes;
* from it `RelationRefines`: the relation manager implements `TableStore`. Every call, cut or
  not, is shown to be the abstract call, or none;
* for the client that creates indexes only over tuples that have not moved,
  `RelationInvariant`, and from it `RelationTypeCorrect` and `IndexesStayMatched`: an index
  holds entries of the present tuples only, none more often than the catalog lists the
  attribute (`Fits`), and lacks none unless a call was cut short. Lemmas on bags say
  what entering and removing does when an attribute is listed several times. `NothingInherited` is what makes this inductive: a table that is created
  finds no entries in index files that already have its name, which is where the
  cut calls of the catalog come in.

`JoinProofs` proves `BNLRefines`, `BNLSpec => BNLImplementsJoin`: for any inputs without
null keys, any tuple sizes and any block size, `BNLJoin` implements `Join`. The
invariant `BNLInv` adds to types which pairs are where (`NoneLost`): every matching pair of a
left tuple already read is returned, waiting in the queue, or of a left tuple in the block
and a right tuple not yet read; these three exclude each other. `Phases` says what `loadLeftChunk`
and `ended` rely on: the end is reported only when the left input has been read, and an empty
block means either that or a budget below one tuple (`BlockFits`). Neither is
inductive without the other. It also proves `INLRefines`, `EqualitySpec => INLImplementsJoin`,
for any inputs, null keys included: joins on equality implement `Join` with the pairs that
satisfy the condition. For inequalities this is false (run `inequality`). Its invariant
says that the pairs returned are those the scans have passed (`AllReturned`), and that
what is ahead belongs to the current left tuple (`Scanning`).

Of hash joins `JoinProofs` proves, for any number of them, of partitions and of tuples, with
joins dropped at any point and processes that die at any point, `HashJoinInvariant` and from it

* `PartitionsAlwaysOwned`: `GHSpec => []PartitionsOwned`;
* `HashJoinIsExact`: `GHSpec => []HashJoinExact`.

The hypotheses are `JoinNames`, that partitions of different joins, sides or numbers have
tables of different names, none of them the name of an index, and `JoinInputsOK`: at least
one partition, a hash value for each key, and NULL no key. The invariant says where
every tuple and every pair is: a table of a join that has met no foreign table holds
the tuples of its partition among those read (`Kept`), and the pairs returned or waiting
are those of the partitions before the current one (`Found`). One join's step leaves
another's tables alone because their numbers differ (`NumbersApart`); its tables are
those under its number (`OwnNames`); and a table it creates is empty unless `clash` is set,
because a file that is not there has no contents (`FilesInOrder`).

`Induction` holds what several of these need: induction, recursion and least elements
on the natural numbers, stated with *sets* and functions in the place of predicates and
operators. The library's theorems take an operator as a parameter, which the provers
cannot instantiate; a set comprehension they can. All follows from `<` being well founded.

Only model-checked, and why:

* Liveness (`ScanEnds`, `QueryEnds`) and what rests on `ENABLED`: out of the prover's reach.
* `ScanExact` of `IndexScan`: it comes next (section 7).
* Aggregates, selections and formats: recursive functions over the values of a tuple
  or the rows of a group, so that every statement is an induction over data.

## 5. Where the code departs from its documents

Each has a run TLC must find violated:

* `small_record`: the report says that any record can become a tombstone, since `insertRecord`
  allocates nine bytes at least. It does so in new slots only: a slot that is reused gets
  the record's own length (`src/src/rbfm/rbfm.cc:258`), and an update in place shrinks a record
  below nine (line 473). When such a record moves, the unsigned difference at line 500 wraps.
* `moved_twice`: `updateRecord` does not follow tombstones. Updating a record that
  has moved overwrites the tombstone and leaves the earlier copy, which scans return
  from then on.
* `overflow`: the space check for a separator uses the length of another key.
* `duplicates`: the report says that duplicates that span pages stay next to each other and that
  a scan of their key gets all. When a separator equal to the new one is there already,
  `insertIntoInternal` puts the new page behind the page of that separator, and not behind
  the page that was split: the leaf chain leaves tree order, and a scan of the key misses
  entries. Three entries of one key are enough.
* `range_delete`: a scan with a lower bound that deletes what it returns has its
  page merged into the left sibling, reads the orphaned page again and returns its
  last entry twice. (A scan of everything never has a left sibling with entries.)
* `moved_index`: an index created over a moved tuple has its entry under the RID of
  the copy. `deleteTuple` does not find it there, and it outlives the tuple.
* `inequality`: `INLJoin` evaluates an inequality with its sides exchanged: for `left < right` it
  scans the index below the left key (`src/src/qe/qe.cc:480`) and returns the pairs with
  `right < left`. `NE_OP` takes the whole index, equal keys too.

Found while modelling, and excluded by the clients or constants above:

* The nested `insertRecord` can choose the page that `updateRecord` holds in a
  buffer, when the free space equals the size of the record (`>=` at
  `src/src/rbfm/rbfm.cc:219`, `>` at line 476) and the page is not the last; the
  copy is then overwritten and the record lost (`OnOwnPage`).
* A record whose first directory entry is 1 modulo 256 is taken for a tombstone
  (`ReadsAs`; the runs set it to `NoRid`, the layout theorems leave it open, those about
  what readers see assume `NoLookAlikes`).
* Deleting a VarChar entry that is not there removes another entry with the same RID
  whose key has the same length (`src/src/ix/ix.cc:876`); the model's clients delete
  entries that are there.
* A record shorter than nine bytes takes nine in a new slot, but the free space
  check asks for its own size: on a full page the data runs into the directory
  (`ShortOfRoom`).
* A record updated during a scan can move behind the cursor, or ahead of it and be
  returned again; `ScanExact` speaks of records not updated.
* An entry deleted during a scan other than the one just returned makes the
  iterator return its last entry again.
* Handles on the same file that overlap: counters and the index's root are
  written back by each close, whatever another handle has stored. For a scan this is
  harmless until the index has been empty (`EarlierRootsReach`); when the last
  entry has gone and a crash or a late close leaves the old root in page 0, that page still
  holds the entry.
* `deleteCatalog` does not remove index files. A table created later under the same
  name has the old index, with entries that lead nowhere; `createIndex` fails.
* A crash in `deleteCatalog` after `Tables` and before `Columns` is removed leaves a
  catalog that can neither be deleted (`Tables` cannot be opened) nor created
  (`Columns` exists).
* A crash in `deleteTable` after the row of `Tables` is deleted leaves rows of
  `Columns` under an id that the next table may get, whose attributes they
  become; one of the same name is then listed twice, and its index gets the entries of
  each tuple twice, so that an index scan returns tuples twice. It also leaves the table's file, and so does a crash in `createTable`
  before the row is written: the name cannot be used again.
* File names collide: attribute `b_c` of table `a` and attribute `c` of table `a_b`
  share `a_b_c.idx`, and a table may be called `t_a.idx` (`DistinctFiles`).
* A crash in a tuple call leaves a tuple without some of its entries; index scans miss it
  from then on, and nothing repairs that (`torn`).
* An index scan ends at an entry whose tuple is gone: `readTuple`'s error passes for
  `QE_EOF` (`src/src/include/qe.h:143`). Such entries come from `createIndex` over moved tuples.
* `BNLJoin` returns nothing if its block cannot hold one tuple of the largest size, or the
  product of pages and page size overflows: the empty block is taken for the end
  (`BlockFits`). A NULL join key is read through a null pointer.
* `GHJoin` after a crash meets the tables the crash left, under the numbers it starts over
  with, and returns their pairs as well (`clash`); its destructor then removes them.
* `Aggregate` with groups gives 0 to a group all of whose values are NULL, where without
  groups it gives NULL (`AggregateExact` leaves the former open).
* A row whose first value ends at 1 modulo 256, for instance a text of 249 characters that
  is the first of four attributes, is missing from every selection (`LooksMoved`).
* `Project` with an unknown name reports the end of its input at the first tuple, unless
  the unknown name comes last: then it is ignored (`Misnamed`).
* `TableScan` and `IndexScan` with an alias use it as the name of the table when they are
  started again or read a tuple (`src/src/include/qe.h:78`, `:143`).

## 6. What is not modelled

* Keys and entries of index pages in bytes: a key is an integer with a length. In
  `RecordFile` a record is a value with a size; `RecordFormat` has its format.
* `readRecord` with a slot number behind the directory, and any other read of
  bytes that hold no record.
* I/O errors, and code that ignores them; a crash of the machine; a crash inside
  `createFile` or inside one step on a record file or index file.
* A tree that is changed through a handle with an earlier root.
* Catalog: the types, lengths and positions of attributes; the rows of `Columns` that
  describe the catalog itself.
* Scans of tables and indexes that stay open across other calls of the relation
  manager (within one file, `RecordScan` and `IndexScan` have them).
* Query plans other than those of `Select` and of hash joins inside each other; attribute
  names with tables in them, and aliases.
* `printBTree`, `printRecord`, the CLI.

## 7. The plan

Done: paged files, record files and their scans, B+ trees and their scans, the
catalog, tables with their indexes and crashes inside their calls, the formats of tuples,
the query operators. Proved: the invariants, action properties and refinements of paged
files, record files, record scans, the catalog, the relation manager and the three joins; type
correctness, page bounds and shape of the B+ tree, what its earlier roots are good for, its leaf
chain, the order of its keys, that every entry is found, and that it implements a set of entries.

Next, in this order:

1. Index scans: `ScanExact` of `IndexScan`, from the picture and the order of the keys: what a
   scan has passed is a stretch of the row of leaves.
2. Relation scans that stay open: `RM_ScanIterator` and `RM_IndexScanIterator` each hold
   a handle while tuple calls work through others, and a tree is changed through a handle with an
   earlier root.
