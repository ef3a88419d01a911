------------------------------- MODULE BNLJoin -------------------------------
(***************************************************************************)
(* The block nested loop join (qe.cc).  The left input is read in blocks   *)
(* that fit a budget of bytes, each kept in a hash table by join key; for  *)
(* each block the right table is scanned from its start, and the pairs of  *)
(* one right tuple wait in a queue until the client has fetched them.      *)
(*                                                                         *)
(* One call of getNextTuple is a sequence of the steps below: from one     *)
(* that returns to the client (Return, or a step that sets ended) to the   *)
(* next.  A NULL join key is no input: the code reads it through a null    *)
(* pointer.                                                                *)
(***************************************************************************)
EXTENDS JoinInputs

CONSTANTS
  PAGE_SIZE,    \* bytes in a page
  UINT_RANGE,   \* 2^32
  maxSize       \* maxTupleSize(leftAttrs): what no left tuple exceeds

ASSUME BNLAssumption ==
  /\ PAGE_SIZE \in Nat /\ UINT_RANGE \in Nat \ {0}
  /\ maxSize \in Nat \ {0}

VARIABLES
  numPages,     \* the pages the block may take
  leftDict,     \* the left tuples of the block
  loading,      \* in loadLeftChunk
  bytesUsed,    \* its local variable
  rightRead,    \* how many right tuples have been read since setIterator
  output        \* the queue; its order does not matter

bnlVars == <<left, right, numPages, given, ended, leftRead, leftEnd, leftDict, loading,
             bytesUsed, rightRead, output>>

\* The product of unsigned numbers, assigned to an int.
chunkLimit ==
  LET product == (numPages * PAGE_SIZE) % UINT_RANGE
  IN  IF 2 * product < UINT_RANGE THEN product ELSE product - UINT_RANGE

NoNulls ==
  /\ \A i \in DOMAIN left : left[i].key # NULL
  /\ \A i \in DOMAIN right : right[i] # NULL

BNLInit ==
  /\ InputsTypeOK /\ NoNulls
  /\ numPages \in Nat
  /\ given = << >> /\ ended = FALSE
  /\ leftRead = 0 /\ leftEnd = FALSE
  /\ leftDict = {} /\ loading = FALSE /\ bytesUsed = 0
  /\ rightRead = 0 /\ output = {}

-----------------------------------------------------------------------------
(* loadLeftChunk. *)

\* getNextTuple finds nothing to return and no block.
StartChunk ==
  /\ ~loading /\ output = {} /\ leftDict = {}
  /\ loading' = TRUE
  /\ bytesUsed' = 0
  /\ UNCHANGED <<inputs, numPages, given, ended, leftRead, leftEnd, leftDict, rightRead, output>>

\* Whether the loop goes on to read a tuple.
HasRoom == ~leftEnd /\ bytesUsed + maxSize <= chunkLimit

LoadTuple ==
  /\ loading /\ HasRoom
  /\ leftRead < Len(left)
  /\ leftRead' = leftRead + 1
  /\ leftDict' = leftDict \cup {leftRead'}
  /\ bytesUsed' = bytesUsed + left[leftRead'].size
  /\ UNCHANGED <<inputs, numPages, given, ended, leftEnd, loading, rightRead, output>>

\* An empty block ends the join; otherwise the scan of the right starts over.
ChunkLoaded ==
  /\ loading' = FALSE
  /\ IF leftDict = {} THEN ended' = TRUE /\ UNCHANGED rightRead
                      ELSE rightRead' = 0 /\ UNCHANGED ended
  /\ UNCHANGED <<inputs, numPages, given, leftRead, leftDict, bytesUsed, output>>

EndOfLeft ==
  /\ loading /\ HasRoom
  /\ leftRead = Len(left)
  /\ leftEnd' = TRUE
  /\ ChunkLoaded

ChunkFull ==
  /\ loading /\ ~HasRoom
  /\ UNCHANGED leftEnd
  /\ ChunkLoaded

-----------------------------------------------------------------------------
(* The scan of the right table. *)

\* pushJoinedTuple: the pairs of the next right tuple.
RightTuple ==
  /\ ~loading /\ output = {} /\ leftDict # {}
  /\ rightRead < Len(right)
  /\ rightRead' = rightRead + 1
  /\ output' = {<<i, rightRead'>> : i \in {i \in leftDict : left[i].key = right[rightRead']}}
  /\ UNCHANGED <<inputs, numPages, given, ended, leftRead, leftEnd, leftDict, loading, bytesUsed>>

\* Mutant: the join ends with the first block.
RightEnd_Ends ==
  /\ ~loading /\ output = {} /\ leftDict # {}
  /\ rightRead = Len(right)
  /\ leftDict' = {}
  /\ ended' = TRUE
  /\ UNCHANGED <<inputs, numPages, given, leftRead, leftEnd, loading, bytesUsed, rightRead, output>>

RightEnd ==
  /\ ~loading /\ output = {} /\ leftDict # {}
  /\ rightRead = Len(right)
  /\ leftDict' = {}
  /\ ended' = (ended \/ leftEnd)
  /\ UNCHANGED <<inputs, numPages, given, leftRead, leftEnd, loading, bytesUsed, rightRead, output>>

Return ==
  /\ \E p \in output :
       /\ output' = output \ {p}
       /\ given' = Append(given, p)
  /\ ended' = FALSE
  /\ UNCHANGED <<inputs, numPages, leftRead, leftEnd, leftDict, loading, bytesUsed, rightRead>>

BNLNext ==
  \/ StartChunk \/ LoadTuple \/ EndOfLeft \/ ChunkFull
  \/ RightTuple \/ RightEnd \/ Return

BNLSpec == BNLInit /\ [][BNLNext]_bnlVars

-----------------------------------------------------------------------------
(* Properties. *)

\* Whether a block can hold a tuple.  If not, the join is empty: the empty block
\* is taken for the end of the left input.
BlockFits == maxSize <= chunkLimit

Promise == INSTANCE Join WITH matching <- IF BlockFits THEN Matching ELSE {}

\* Whatever the tuples, the keys they share, and the blocks they are cut into, each
\* matching pair is returned once, and QE_EOF only after all of them.
BNLImplementsJoin == Promise!Spec
=============================================================================
