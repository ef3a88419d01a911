------------------------------- MODULE GHJoin -------------------------------
(***************************************************************************)
(* The Grace hash join (qe.cc).  The first call of getNextTuple of a join  *)
(* creates two temporary tables for each partition and distributes both    *)
(* inputs over them by the hash of the join key; then partition after      *)
(* partition is joined in memory, and the pairs wait in a queue.  The      *)
(* destructor deletes the tables.                                          *)
(*                                                                         *)
(* The tables are tables of the catalog, named by a number that counts the *)
(* joins of the process.  The process may die between any two calls to     *)
(* the relation manager (module Catalog has deaths within calls): the      *)
(* tables stay, and the count starts over.  The return codes of createTable *)
(* and insertTuple are ignored.  A join may be an input of another, whose  *)
(* steps then come between its own.                                        *)
(***************************************************************************)
EXTENDS JoinKeys, Catalog, SequencesExt

CONSTANTS
  Joins,            \* the join operators of an execution
  hash,             \* std::hash of a key
  numPartitions,
  Inputs            \* pairs of inputs a join may have: sequences of keys and NULL

VARIABLES
  contents,         \* contents[t]: the tuples in table t
  nextJoinId,       \* the static variable of the constructor
  joins             \* the state of each join

ghVars == <<disk, cut, contents, nextJoinId, joins>>

Side  == {"left", "right"}
Parts == 0..numPartitions - 1

PartName(side, id, i) == side \o "_join" \o ToString(id) \o "_" \o ToString(i)

\* The tables of join number id, in the order of their creation.
PartNames(id) ==
  [k \in 1..2 * numPartitions |->
     PartName(IF k % 2 = 1 THEN "left" ELSE "right", id, (k - 1) \div 2)]

partitionIndex(key) == hash[key] % numPartitions

\* A join that has no process, and the tables it has left.
Idle(phase, tables) ==
  [phase |-> phase, id |-> 0, left |-> << >>, right |-> << >>, partitionTables |-> tables,
   leftRead |-> 0, rightRead |-> 0, currentPart |-> 0, output |-> {},
   given |-> << >>, ended |-> FALSE, clash |-> FALSE]

Unborn == Idle("unborn", << >>)
Gone   == Idle("gone", << >>)

GHInit ==
  /\ disk = [files |-> CatalogFiles, tables |-> CatalogRows, columns |-> EmptyBag]
  /\ cut = {}
  /\ contents = [t \in TableNames |-> {}]
  /\ nextJoinId = 1
  /\ joins = [j \in Joins |-> Unborn]

-----------------------------------------------------------------------------
(* The constructor. *)

\* Mutant: each join counts for itself.
Construct_OwnCount(j, l, r) ==
  /\ joins[j].phase = "unborn"
  /\ joins' = [joins EXCEPT ![j].phase = "alive", ![j].id = 1,
                            ![j].left = l, ![j].right = r]
  /\ UNCHANGED <<vars, contents, nextJoinId>>

Construct(j, l, r) ==
  /\ joins[j].phase = "unborn"
  /\ joins' = [joins EXCEPT ![j].phase = "alive", ![j].id = nextJoinId,
                            ![j].left = l, ![j].right = r]
  /\ nextJoinId' = nextJoinId + 1
  /\ UNCHANGED <<vars, contents>>

-----------------------------------------------------------------------------
(* partition, in the first call of getNextTuple. *)

Open(t) == Listed(t) /\ t \in disk.files

\* The next table.  If there is one of its name, createTable fails.
CreatePartition(j) ==
  LET join == joins[j]
      k    == Len(join.partitionTables) + 1
      name == PartNames(join.id)[k]
      free == ~Listed(name) /\ name \notin disk.files
  IN  /\ join.phase = "alive"
      /\ k <= 2 * numPartitions
      /\ UNCHANGED <<cut, contents, nextJoinId>>
      /\ IF free THEN createTable(name, AttrNames) ELSE UNCHANGED disk
      /\ joins' = [joins EXCEPT ![j].partitionTables = Append(@, name),
                                ![j].clash = @ \/ ~free]

Partitioning(join) ==
  join.phase = "alive" /\ Len(join.partitionTables) = 2 * numPartitions

\* Where tuple number i of an input goes, if anywhere.
Insert(join, j, side, i, key) ==
  LET t == PartName(side, join.id, partitionIndex(key))
  IN  contents' = IF key # NULL /\ Open(t)
                  THEN [contents EXCEPT ![t] = @ \cup {[join |-> j, pos |-> i, key |-> key]}]
                  ELSE contents

PartitionLeft(j) ==
  LET join == joins[j]
      i    == join.leftRead + 1
  IN  /\ Partitioning(join)
      /\ i <= Len(join.left)
      /\ Insert(join, j, "left", i, join.left[i])
      /\ joins' = [joins EXCEPT ![j].leftRead = i]
      /\ UNCHANGED <<vars, nextJoinId>>

PartitionRight(j) ==
  LET join == joins[j]
      i    == join.rightRead + 1
  IN  /\ Partitioning(join)
      /\ join.leftRead = Len(join.left)
      /\ i <= Len(join.right)
      /\ Insert(join, j, "right", i, join.right[i])
      /\ joins' = [joins EXCEPT ![j].rightRead = i]
      /\ UNCHANGED <<vars, nextJoinId>>

Partitioned(join) ==
  Partitioning(join) /\ join.leftRead = Len(join.left) /\ join.rightRead = Len(join.right)

-----------------------------------------------------------------------------
(* The rest of getNextTuple. *)

TuplesIn(t) == IF Open(t) THEN contents[t] ELSE {}

Matches(i, id) ==
  {p \in TuplesIn(PartName("left", id, i)) \X TuplesIn(PartName("right", id, i)) :
     p[1].key = p[2].key}

probe(j) ==
  LET join == joins[j]
  IN  /\ Partitioned(join)
      /\ join.output = {}
      /\ join.currentPart < numPartitions
      /\ joins' = [joins EXCEPT ![j].output = Matches(join.currentPart, join.id),
                                ![j].currentPart = @ + 1]
      /\ UNCHANGED <<vars, contents, nextJoinId>>

\* The order in the queue does not matter.
Fetch(j) ==
  /\ joins[j].phase = "alive"
  /\ joins[j].output # {}
  /\ LET p == CHOOSE p \in joins[j].output : TRUE
     IN  joins' = [joins EXCEPT ![j].output = @ \ {p}, ![j].given = Append(@, p)]
  /\ UNCHANGED <<vars, contents, nextJoinId>>

End(j) ==
  /\ Partitioned(joins[j])
  /\ joins[j].output = {}
  /\ joins[j].currentPart = numPartitions
  /\ joins' = [joins EXCEPT ![j].ended = TRUE]
  /\ UNCHANGED <<vars, contents, nextJoinId>>

-----------------------------------------------------------------------------
(* The destructor, which runs between calls, and the death of the process. *)

Destroying(join) ==
  \/ join.phase = "dying"
  \/ join.phase = "alive" /\ (join.partitionTables = << >> \/ Partitioned(join))

\* Mutant: only the first of the two tables of the last partition is remembered.
DeleteNext_Skips(j) ==
  LET join == joins[j]
      name == Head(join.partitionTables)
  IN  /\ Destroying(join)
      /\ join.partitionTables # << >>
      /\ UNCHANGED <<cut, nextJoinId>>
      /\ IF Listed(name) THEN deleteTable(name) ELSE UNCHANGED disk
      /\ contents' = [contents EXCEPT ![name] = {}]
      /\ joins' = [joins EXCEPT ![j].phase = "dying",
                     ![j].partitionTables = IF Len(@) = 2 THEN << >> ELSE Tail(@)]

DeleteNext(j) ==
  LET join == joins[j]
      name == Head(join.partitionTables)
  IN  /\ Destroying(join)
      /\ join.partitionTables # << >>
      /\ UNCHANGED <<cut, nextJoinId>>
      /\ IF Listed(name) THEN deleteTable(name) ELSE UNCHANGED disk
      /\ contents' = [contents EXCEPT ![name] = {}]
      /\ joins' = [joins EXCEPT ![j].phase = "dying", ![j].partitionTables = Tail(@)]

Destroyed(j) ==
  /\ Destroying(joins[j])
  /\ joins[j].partitionTables = << >>
  /\ joins' = [joins EXCEPT ![j] = Gone]
  /\ UNCHANGED <<vars, contents, nextJoinId>>

Crash ==
  /\ \E j \in Joins : joins[j].phase \in {"alive", "dying"}
  /\ joins' = [j \in Joins |->
                 IF joins[j].phase \in {"alive", "dying"}
                 THEN Idle("lost", joins[j].partitionTables)
                 ELSE joins[j]]
  /\ nextJoinId' = 1
  /\ UNCHANGED <<vars, contents>>

GHNext ==
  \/ \E j \in Joins :
       \/ \E in \in Inputs : Construct(j, in[1], in[2])
       \/ CreatePartition(j) \/ PartitionLeft(j) \/ PartitionRight(j)
       \/ probe(j) \/ Fetch(j) \/ End(j)
       \/ DeleteNext(j) \/ Destroyed(j)
  \/ Crash

GHSpec == GHInit /\ [][GHNext]_ghVars

-----------------------------------------------------------------------------
(* Properties. *)

\* The pairs join j is to return, by position.
Wanted(join) ==
  {p \in (DOMAIN join.left) \X (DOMAIN join.right) :
     join.left[p[1]] = join.right[p[2]] /\ join.left[p[1]] # NULL}

\* Its own pairs, each once, and QE_EOF only after all of them.
ExactFor(j) ==
  LET join  == joins[j]
      pairs == [i \in DOMAIN join.given |-> <<join.given[i][1].pos, join.given[i][2].pos>>]
  IN  /\ \A i \in DOMAIN pairs : join.given[i][1].join = j /\ join.given[i][2].join = j
      /\ IsInjective(pairs)
      /\ Range(pairs) \subseteq Wanted(join)
      /\ join.ended => Range(pairs) = Wanted(join)

\* A join whose tables were not there before it returns exactly the matching pairs of
\* its inputs, whatever other joins run, end, or are dropped in between, and whatever
\* an earlier process has left.  (One that meets the tables of an earlier process returns
\* its pairs as well, though joins are numbered "so they create different files",
\* qe.cc:634.)
HashJoinExact == \A j \in Joins : ~joins[j].clash => ExactFor(j)

\* Every temporary table belongs to a join that is alive or died with its process:
\* whenever a client drops a join, its destructor leaves nothing behind.
PartitionsOwned ==
  \A t \in TableNames \cap disk.files :
    \E j \in Joins : t \in Range(joins[j].partitionTables)
=============================================================================
