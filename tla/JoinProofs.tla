----------------------------- MODULE JoinProofs ------------------------------
(***************************************************************************)
(* The block nested loop join and the index nested loop join on equality   *)
(* implement the abstract join, for all inputs and all sizes of tuples,    *)
(* pages and blocks.  Grace hash joins that run at the same time, are      *)
(* dropped, or die with their process do not meet in their temporary       *)
(* tables, return exactly the matching pairs, and leave no table without   *)
(* an owner.                                                               *)
(***************************************************************************)
EXTENDS BNLJoin, INLJoin, GHJoin, TLAPS

\* The set of the pairs returned.
Returned == {given[i] : i \in DOMAIN given}

\* One more pair given.
LEMMA GivenGrows ==
  ASSUME given \in Seq(Pairs), NEW p \in Pairs, given' = Append(given, p)
  PROVE  /\ given' \in Seq(Pairs)
         /\ Returned' = Returned \cup {p}
<1>1. given' \in Seq(Pairs)
  OBVIOUS
<1>2. /\ DOMAIN given = 1..Len(given) /\ DOMAIN given' = 1..(Len(given) + 1)
      /\ Len(given) \in Nat
      /\ \A i \in 1..Len(given) : given'[i] = given[i]
      /\ given'[Len(given) + 1] = p
  OBVIOUS
<1>3. Returned' \subseteq Returned \cup {p}
  BY <1>2 DEF Returned
<1>4. Returned \subseteq Returned'
  BY <1>2 DEF Returned
<1>5. p \in Returned'
  BY <1>2 DEF Returned
<1> QED
  BY <1>1, <1>3, <1>4, <1>5

-----------------------------------------------------------------------------
(* The block nested loop join. *)

\* The pairs whose right tuple has been read while their left tuple was in the block.
Met == {p \in Matching : /\ p[1] <= leftRead
                         /\ p[1] \in leftDict => ~loading /\ p[2] <= rightRead}

InputsOK == InputsTypeOK /\ NoNulls /\ numPages \in Nat

BNLTypeOK ==
  /\ leftRead \in 0..Len(left) /\ rightRead \in Nat
  /\ bytesUsed \in Nat
  /\ leftDict \subseteq 1..leftRead
  /\ leftEnd \in BOOLEAN /\ loading \in BOOLEAN /\ ended \in BOOLEAN

\* The pairs that have met are with the client or in the queue.
NoneLost ==
  /\ given \in Seq(Pairs)
  /\ Returned \cup output = Met
  /\ Returned \cap output = {}

\* When the queue is empty, and when the end is reported.
Phases ==
  /\ loading \/ leftDict = {} => output = {}
  /\ leftEnd => leftRead = Len(left)
  /\ loading /\ leftDict = {} => bytesUsed = 0
  /\ ended => leftDict = {} /\ output = {} /\ (BlockFits => leftEnd)
  /\ ~BlockFits => leftRead = 0

BNLInv == InputsOK /\ BNLTypeOK /\ NoneLost /\ Phases

-----------------------------------------------------------------------------

LEMMA LimitInt == ASSUME numPages \in Nat PROVE chunkLimit \in Int
<1>1. PAGE_SIZE \in Nat /\ UINT_RANGE \in Nat \ {0}
  BY BNLAssumption
<1>2. numPages * PAGE_SIZE \in Nat
  BY <1>1
<1>3. (numPages * PAGE_SIZE) % UINT_RANGE \in Int
  BY <1>1, <1>2
<1> QED
  BY <1>1, <1>3 DEF chunkLimit

LEMMA InitInv == BNLInit => BNLInv
<1> SUFFICES ASSUME BNLInit PROVE BNLInv
  OBVIOUS
<1>1. left \in Seq(LeftTuple) /\ right \in Seq(Key)
  BY DEF BNLInit, InputsTypeOK
<1>2. Len(left) \in Nat /\ DOMAIN left = 1..Len(left)
  BY <1>1
<1>3. /\ leftRead = 0 /\ leftEnd = FALSE /\ given = << >> /\ ended = FALSE
      /\ leftDict = {} /\ loading = FALSE /\ bytesUsed = 0 /\ rightRead = 0 /\ output = {}
  BY DEF BNLInit
<1>4. InputsOK
  BY DEF BNLInit, InputsOK
<1>5. BNLTypeOK
  <2>1. leftRead \in 0..Len(left) /\ rightRead \in Nat /\ bytesUsed \in Nat
    BY <1>2, <1>3
  <2>2. leftDict \subseteq 1..leftRead
    BY <1>3
  <2>3. leftEnd \in BOOLEAN /\ loading \in BOOLEAN /\ ended \in BOOLEAN
    BY <1>3
  <2> QED
    BY <2>1, <2>2, <2>3 DEF BNLTypeOK
<1>6. Returned = {}
  BY <1>3 DEF Returned
<1>7. Met = {}
  BY <1>2, <1>3 DEF Met, Matching, Pairs
<1>8. NoneLost
  BY <1>3, <1>6, <1>7 DEF NoneLost
<1>9. Phases
  BY <1>3 DEF Phases
<1> QED
  BY <1>4, <1>5, <1>8, <1>9 DEF BNLInv

-----------------------------------------------------------------------------
(* What does not change: the inputs, and with them the pairs and the limit. *)

LEMMA InputsFixed ==
  ASSUME InputsOK, UNCHANGED <<inputs, numPages>>
  PROVE  /\ InputsOK'
         /\ Pairs' = Pairs /\ Matching' = Matching
         /\ BlockFits' = BlockFits
         /\ left' = left /\ right' = right
         /\ Len(left) \in Nat /\ DOMAIN left = 1..Len(left)
         /\ Len(right) \in Nat /\ DOMAIN right = 1..Len(right)
         /\ chunkLimit \in Int /\ maxSize \in Nat \ {0}
         /\ \A i \in 1..Len(left) : left[i].size \in Nat
         /\ \A i \in 1..Len(right) : right[i] # NULL
         /\ \A p : p \in Matching <=>
                     \E i \in 1..Len(left), j \in 1..Len(right) :
                       p = <<i, j>> /\ left[i].key = right[j]
<1>1. left' = left /\ right' = right /\ numPages' = numPages
  BY DEF inputs
<1>2. left \in Seq(LeftTuple) /\ right \in Seq(Key) /\ numPages \in Nat
  BY DEF InputsOK, InputsTypeOK
<1>3. Len(left) \in Nat /\ DOMAIN left = 1..Len(left)
  BY <1>2
<1>4. Len(right) \in Nat /\ DOMAIN right = 1..Len(right)
  BY <1>2
<1>5. chunkLimit \in Int
  BY <1>2, LimitInt
<1>6. Pairs' = Pairs /\ Matching' = Matching
  BY <1>1 DEF Pairs, Matching
<1>7. BlockFits' = BlockFits
  BY <1>1 DEF BlockFits, chunkLimit
<1>8. InputsOK'
  BY <1>1 DEF InputsOK, InputsTypeOK, NoNulls
<1>9. \A i \in 1..Len(left) : left[i].size \in Nat
  <2>1. \A i \in 1..Len(left) : left[i] \in LeftTuple
    BY <1>2
  <2> QED
    BY <2>1 DEF LeftTuple
<1>10. \A i \in 1..Len(right) : right[i] # NULL
  BY <1>4 DEF InputsOK, NoNulls
<1>11. \A p : p \in Matching <=>
                 \E i \in 1..Len(left), j \in 1..Len(right) :
                   p = <<i, j>> /\ left[i].key = right[j]
  BY <1>3, <1>4, <1>10 DEF Matching, Pairs
<1> QED
  BY <1>1, <1>3, <1>4, <1>5, <1>6, <1>7, <1>8, <1>9, <1>10, <1>11, BNLAssumption

LEMMA StepInv == BNLInv /\ [BNLNext]_bnlVars => BNLInv'
<1> SUFFICES ASSUME BNLInv, [BNLNext]_bnlVars PROVE BNLInv'
  OBVIOUS
<1>0. InputsOK /\ BNLTypeOK /\ NoneLost /\ Phases
  BY DEF BNLInv
<1>a. UNCHANGED <<inputs, numPages>>
  BY DEF BNLNext, bnlVars, inputs, StartChunk, LoadTuple, EndOfLeft, ChunkFull, ChunkLoaded,
         RightTuple, RightEnd, Return
<1>1. /\ InputsOK'
      /\ Pairs' = Pairs /\ Matching' = Matching
      /\ BlockFits' = BlockFits
      /\ left' = left /\ right' = right
      /\ Len(left) \in Nat /\ DOMAIN left = 1..Len(left)
      /\ Len(right) \in Nat /\ DOMAIN right = 1..Len(right)
      /\ chunkLimit \in Int /\ maxSize \in Nat \ {0}
      /\ \A i \in 1..Len(left) : left[i].size \in Nat
      /\ \A i \in 1..Len(right) : right[i] # NULL
      /\ \A p : p \in Matching <=>
                  \E i \in 1..Len(left), j \in 1..Len(right) :
                    p = <<i, j>> /\ left[i].key = right[j]
  BY <1>0, <1>a, InputsFixed
\* Steps that give the client nothing and put nothing in the queue.
<1>2. ASSUME UNCHANGED <<given, output>>, Met' = Met
      PROVE  NoneLost'
  <2>1. Returned' = Returned
    BY <1>2 DEF Returned
  <2> QED
    BY <1>0, <1>1, <1>2, <2>1 DEF NoneLost
<1>3. ASSUME BNLTypeOK', NoneLost', Phases'
      PROVE  BNLInv'
  BY <1>1, <1>3 DEF BNLInv
<1>4. CASE StartChunk
  <2>1. /\ ~loading /\ output = {} /\ leftDict = {} /\ loading' = TRUE /\ bytesUsed' = 0
        /\ UNCHANGED <<given, ended, leftRead, leftEnd, leftDict, rightRead, output>>
    BY <1>4 DEF StartChunk
  <2>2. BNLTypeOK'
    BY <1>0, <1>1, <2>1 DEF BNLTypeOK
  <2>3. Met' = Met
    BY <1>1, <2>1 DEF Met
  <2>4. Phases'
    BY <1>0, <1>1, <2>1 DEF Phases
  <2> QED
    BY <1>2, <1>3, <2>1, <2>2, <2>3, <2>4
<1>5. CASE LoadTuple
  <2>1. /\ leftRead' = leftRead + 1 /\ leftRead < Len(left)
        /\ leftDict' = leftDict \cup {leftRead + 1}
        /\ ~leftEnd /\ bytesUsed + maxSize <= chunkLimit
        /\ loading /\ loading'
        /\ bytesUsed' = bytesUsed + left[leftRead + 1].size
        /\ UNCHANGED <<given, ended, leftEnd, loading, rightRead, output>>
    BY <1>5 DEF LoadTuple, HasRoom
  <2>2. leftRead \in Nat /\ bytesUsed \in Nat /\ leftDict \subseteq 1..leftRead
    BY <1>0, <1>1 DEF BNLTypeOK
  <2>3. leftRead + 1 \in 1..Len(left)
    BY <1>1, <2>1, <2>2
  <2>4. bytesUsed' \in Nat
    BY <1>1, <2>1, <2>2, <2>3
  <2>5. leftDict' \subseteq 1..leftRead'
    BY <2>1, <2>2
  <2>6. BNLTypeOK'
    BY <1>0, <1>1, <2>1, <2>2, <2>3, <2>4, <2>5 DEF BNLTypeOK
  <2>7. \A p \in Matching : p[1] \in 1..Len(left)
    BY <1>1
  <2>8. Met' = {p \in Matching : p[1] <= leftRead + 1 /\ p[1] \notin leftDict \cup {leftRead + 1}}
    BY <1>1, <2>1 DEF Met
  <2>9. Met = {p \in Matching : p[1] <= leftRead /\ p[1] \notin leftDict}
    BY <2>1 DEF Met
  <2>10. Met' = Met
    BY <2>2, <2>7, <2>8, <2>9
  <2>11. BlockFits
    BY <1>1, <2>1, <2>2 DEF BlockFits
  <2>12. Phases'
    BY <1>0, <1>1, <2>1, <2>11 DEF Phases
  <2> QED
    BY <1>2, <1>3, <2>1, <2>6, <2>10, <2>12
<1>6. ASSUME ChunkLoaded, loading, leftEnd' \in BOOLEAN,
             leftEnd' => leftRead = Len(left),
             leftEnd => leftEnd',
             leftDict = {} /\ BlockFits => leftEnd'
      PROVE  BNLInv'
  <2>1. /\ ~loading' /\ loading' \in BOOLEAN
        /\ UNCHANGED <<given, leftRead, leftDict, bytesUsed, output>>
        /\ IF leftDict = {} THEN ended' = TRUE /\ UNCHANGED rightRead
                            ELSE rightRead' = 0 /\ UNCHANGED ended
    BY <1>6 DEF ChunkLoaded
  <2>2. BNLTypeOK'
    <3>0. rightRead \in Nat /\ ended \in BOOLEAN
      BY <1>0 DEF BNLTypeOK
    <3>1. rightRead' \in Nat /\ ended' \in BOOLEAN
      <4>1. CASE leftDict = {}
        BY <2>1, <3>0, <4>1
      <4>2. CASE leftDict # {}
        BY <2>1, <3>0, <4>2
      <4> QED
        BY <4>1, <4>2
    <3> QED
      BY <1>0, <1>1, <1>6, <2>1, <3>1 DEF BNLTypeOK
  <2>3. \A p \in Matching : p[2] \in 1..Len(right)
    BY <1>1
  <2>4. Met = {p \in Matching : p[1] <= leftRead /\ p[1] \notin leftDict}
    BY <1>6 DEF Met
  <2>5. Met' = {p \in Matching : /\ p[1] <= leftRead
                                 /\ p[1] \in leftDict => p[2] <= rightRead'}
    BY <1>1, <2>1 DEF Met
  <2>6. Met' = Met
    <3>1. CASE leftDict = {}
      BY <2>4, <2>5, <3>1
    <3>2. CASE leftDict # {}
      <4>1. \A p \in Matching : ~(p[2] <= rightRead')
        BY <2>1, <2>3, <3>2
      <4> QED
        BY <2>4, <2>5, <4>1
    <3> QED
      BY <3>1, <3>2
  <2>7. Phases'
    BY <1>0, <1>1, <1>6, <2>1 DEF Phases
  <2> QED
    BY <1>2, <1>3, <2>1, <2>2, <2>6, <2>7
<1>7. CASE EndOfLeft
  BY <1>6, <1>7 DEF EndOfLeft
<1>8. CASE ChunkFull
  <2>1. leftDict = {} /\ BlockFits => leftEnd
    <3> SUFFICES ASSUME leftDict = {}, BlockFits PROVE leftEnd
      OBVIOUS
    <3>1. bytesUsed = 0
      BY <1>0, <1>8 DEF Phases, ChunkFull
    <3> QED
      BY <1>1, <1>8, <3>1 DEF ChunkFull, HasRoom, BlockFits
  <2> QED
    BY <1>0, <1>6, <1>8, <2>1 DEF ChunkFull, BNLTypeOK, Phases
<1>9. CASE RightTuple
  <2>1. /\ ~loading /\ output = {} /\ leftDict # {}
        /\ rightRead < Len(right) /\ rightRead' = rightRead + 1
        /\ output' = {<<i, rightRead + 1>> :
                         i \in {i \in leftDict : left[i].key = right[rightRead + 1]}}
        /\ UNCHANGED <<given, ended, leftRead, leftEnd, leftDict, bytesUsed, loading>>
    BY <1>9 DEF RightTuple
  <2>2. BNLTypeOK'
    BY <1>0, <1>1, <2>1 DEF BNLTypeOK
  <2>3. Returned' = Returned
    BY <2>1 DEF Returned
  <2>4. /\ rightRead \in Nat /\ rightRead + 1 \in 1..Len(right)
        /\ leftRead \in Nat /\ leftDict \subseteq 1..leftRead /\ leftDict \subseteq 1..Len(left)
    BY <1>0, <1>1, <2>1 DEF BNLTypeOK
  <2>5. output' = {p \in Matching : p[1] \in leftDict /\ p[2] = rightRead + 1}
    BY <1>1, <2>1, <2>4
  <2>6. \A p \in Matching : p[1] \in Nat /\ p[2] \in Nat
    BY <1>1
  <2>7. Met = {p \in Matching : p[1] <= leftRead /\ (p[1] \in leftDict => p[2] <= rightRead)}
    BY <2>1 DEF Met
  <2>8. Met' = {p \in Matching : p[1] <= leftRead /\ (p[1] \in leftDict => p[2] <= rightRead + 1)}
    BY <1>1, <2>1 DEF Met
  <2>9. \A i \in leftDict : i <= leftRead
    BY <2>4
  <2>10. Met' = Met \cup output' /\ Met \cap output' = {}
    BY <2>4, <2>5, <2>6, <2>7, <2>8, <2>9
  <2>11. NoneLost'
    BY <1>0, <1>1, <2>1, <2>3, <2>10 DEF NoneLost
  <2>12. Phases'
    BY <1>0, <1>1, <2>1 DEF Phases
  <2> QED
    BY <1>3, <2>2, <2>11, <2>12
<1>10. CASE RightEnd
  <2>1. /\ ~loading /\ output = {} /\ leftDict # {}
        /\ rightRead = Len(right) /\ leftDict' = {} /\ ended' = (ended \/ leftEnd)
        /\ UNCHANGED <<given, leftRead, leftEnd, loading, bytesUsed, rightRead, output>>
    BY <1>10 DEF RightEnd
  <2>2. BNLTypeOK'
    BY <1>0, <1>1, <2>1 DEF BNLTypeOK
  <2>3. \A p \in Matching : p[2] <= Len(right)
    BY <1>1
  <2>4. Met = {p \in Matching : p[1] <= leftRead}
    BY <2>1, <2>3 DEF Met
  <2>5. Met' = {p \in Matching : p[1] <= leftRead}
    BY <1>1, <2>1 DEF Met
  <2>6. Phases'
    BY <1>0, <1>1, <2>1 DEF Phases
  <2> QED
    BY <1>2, <1>3, <2>1, <2>2, <2>4, <2>5, <2>6
<1>11. CASE Return
  <2>1. PICK p \in output : output' = output \ {p} /\ given' = Append(given, p)
    BY <1>11 DEF Return
  <2>2. /\ ended' = FALSE
        /\ UNCHANGED <<leftRead, leftEnd, leftDict, loading, bytesUsed, rightRead>>
    BY <1>11 DEF Return
  <2>3. BNLTypeOK'
    BY <1>0, <1>1, <2>2 DEF BNLTypeOK
  <2>4. p \in Pairs
    BY <1>0 DEF NoneLost, Met, Matching
  <2>5. given' \in Seq(Pairs) /\ Returned' = Returned \cup {p}
    BY <1>0, <2>1, <2>4, GivenGrows DEF NoneLost
  <2>6. Met' = Met
    BY <1>1, <2>2 DEF Met
  <2>7. NoneLost'
    BY <1>0, <1>1, <2>1, <2>5, <2>6 DEF NoneLost
  <2>8. Phases'
    BY <1>0, <1>1, <2>1, <2>2 DEF Phases
  <2> QED
    BY <1>3, <2>3, <2>7, <2>8
<1>12. CASE UNCHANGED bnlVars
  BY <1>0, <1>1, <1>2, <1>3, <1>12
    DEF bnlVars, BNLTypeOK, Phases, Met
<1> QED
  BY <1>4, <1>5, <1>7, <1>8, <1>9, <1>10, <1>11, <1>12 DEF BNLNext

-----------------------------------------------------------------------------
(* The refinement. *)

LEMMA StepRefines ==
  BNLInv /\ BNLInv' /\ [BNLNext]_bnlVars =>
    [Promise!Next]_<<IF BlockFits THEN Matching ELSE {}, given, ended>>
<1> SUFFICES ASSUME BNLInv, BNLInv', [BNLNext]_bnlVars
             PROVE  Promise!Next \/ UNCHANGED <<IF BlockFits THEN Matching ELSE {}, given, ended>>
  OBVIOUS
<1>a. UNCHANGED <<inputs, numPages>>
  BY DEF BNLNext, bnlVars, inputs, StartChunk, LoadTuple, EndOfLeft, ChunkFull, ChunkLoaded,
         RightTuple, RightEnd, Return
<1>1. UNCHANGED (IF BlockFits THEN Matching ELSE {})
  BY <1>a, InputsFixed DEF BNLInv
<1>2. CASE Return
  <2>1. PICK p \in output : given' = Append(given, p)
    BY <1>2 DEF Return
  <2>2. ended' = FALSE
    BY <1>2 DEF Return
  <2>3. p \in Met /\ \A i \in DOMAIN given : given[i] # p
    BY DEF BNLInv, NoneLost, Returned
  <2>4. p \in Matching /\ BlockFits
    <3>1. p \in Matching /\ p[1] \in 1..Len(left) /\ p[1] <= leftRead
      BY <2>3 DEF Met, Matching, Pairs, BNLInv, InputsOK, InputsTypeOK
    <3>2. leftRead # 0
      BY <3>1
    <3> QED
      BY <3>1, <3>2 DEF BNLInv, Phases
  <2>5. Promise!Return
    BY <1>1, <2>1, <2>2, <2>3, <2>4 DEF Promise!Return
  <2> QED
    BY <2>5 DEF Promise!Next
<1>3. ASSUME UNCHANGED given, ended'
      PROVE  Promise!Next
  <2>1. BlockFits' = BlockFits /\ Matching' = Matching
    BY <1>a, InputsFixed DEF BNLInv
  <2>2. ASSUME BlockFits
        PROVE  \A p \in Matching : \E i \in DOMAIN given : given[i] = p
    <3>1. left' = left
      BY <1>a DEF inputs
    <3>2. leftDict' = {} /\ output' = {} /\ leftRead' = Len(left)
      BY <1>3, <2>1, <2>2, <3>1 DEF BNLInv, Phases
    <3>3. \A p \in Matching : p[1] <= Len(left)
      BY <1>a, InputsFixed DEF BNLInv
    <3>4. Met' = Matching
      BY <2>1, <3>2, <3>3 DEF Met
    <3>5. Returned' = Matching /\ Returned' = Returned
      BY <1>3, <3>2, <3>4 DEF BNLInv, NoneLost, Returned
    <3> QED
      BY <3>5 DEF Returned
  <2>3. Promise!End
    BY <1>1, <1>3, <2>2 DEF Promise!End, BNLInv, BNLTypeOK
  <2> QED
    BY <2>3 DEF Promise!Next
<1>4. CASE ~Return
  <2>1. UNCHANGED given /\ (ended' = ended \/ ended')
    BY <1>4 DEF BNLNext, bnlVars, StartChunk, LoadTuple, EndOfLeft, ChunkFull, ChunkLoaded,
                RightTuple, RightEnd, Return, BNLInv, BNLTypeOK
  <2> QED
    BY <1>1, <1>3, <2>1
<1> QED
  BY <1>2, <1>4

\* The join returns each matching pair once, and QE_EOF only after all of them (or, if
\* no block can hold a tuple, at once): getNextTuple of qe.cc implements module Join,
\* whatever the inputs, the sizes and the blocks they are cut into.
THEOREM BNLRefines == BNLSpec => BNLImplementsJoin
<1>1. BNLInit => Promise!Init
  BY DEF BNLInit, Promise!Init
<1>2. BNLSpec => []BNLInv
  BY InitInv, StepInv, PTL DEF BNLSpec
<1> QED
  BY <1>1, <1>2, StepRefines, PTL DEF BNLSpec, BNLImplementsJoin, Promise!Spec

-----------------------------------------------------------------------------
(* The index nested loop join. *)

\* The pairs the scans serve.
Served == {p \in Pairs : left[p[1]].key # NULL /\ p[2] \in Found(left[p[1]].key)}

\* Those they have passed: all of the left tuples before the current one, and
\* of that one those whose right tuple is not ahead.
Passed == {p \in Served : /\ p[1] <= leftRead
                          /\ p[1] = leftRead => p[2] \notin ahead}

INLTypeOK ==
  /\ InputsTypeOK
  /\ leftRead \in 0..Len(left)
  /\ hasCurrentLeft \in BOOLEAN /\ leftEnd \in BOOLEAN /\ ended \in BOOLEAN

\* What is ahead belongs to the left tuple whose scan is open.
Scanning ==
  /\ ~hasCurrentLeft => ahead = {}
  /\ hasCurrentLeft => /\ leftRead \in 1..Len(left)
                       /\ left[leftRead].key # NULL
                       /\ ahead \subseteq Found(left[leftRead].key)
  /\ leftEnd => leftRead = Len(left) /\ ~hasCurrentLeft

\* The pairs passed are with the client.
AllReturned == given \in Seq(Pairs) /\ Returned = Passed

INLInv == INLTypeOK /\ Scanning /\ AllReturned

-----------------------------------------------------------------------------

LEMMA SameInputs ==
  ASSUME InputsTypeOK, UNCHANGED <<inputs, compOp>>
  PROVE  /\ InputsTypeOK'
         /\ left' = left /\ right' = right
         /\ Pairs' = Pairs /\ Served' = Served
         /\ \A k : Found(k)' = Found(k)
         /\ Len(left) \in Nat /\ DOMAIN left = 1..Len(left)
         /\ \A k : Found(k) \subseteq DOMAIN right
         /\ \A p : p \in Served <=>
                     \E i \in 1..Len(left), r \in DOMAIN right :
                       p = <<i, r>> /\ left[i].key # NULL /\ r \in Found(left[i].key)
<1>1. left' = left /\ right' = right /\ compOp' = compOp
  BY DEF inputs
<1>2. left \in Seq(LeftTuple)
  BY DEF InputsTypeOK
<1>3. Len(left) \in Nat /\ DOMAIN left = 1..Len(left)
  BY <1>2
<1>4. \A k : Found(k)' = Found(k)
  BY <1>1 DEF Found, InRange
<1>5. Pairs' = Pairs
  BY <1>1 DEF Pairs
<1>6. Served' = Served
  BY <1>1, <1>4, <1>5 DEF Served
<1>7. InputsTypeOK'
  BY <1>1 DEF InputsTypeOK
<1>8. \A k : Found(k) \subseteq DOMAIN right
  BY DEF Found
<1>9. \A p : p \in Served <=>
               \E i \in 1..Len(left), r \in DOMAIN right :
                 p = <<i, r>> /\ left[i].key # NULL /\ r \in Found(left[i].key)
  BY <1>3 DEF Served, Pairs
<1> QED
  BY <1>1, <1>3, <1>4, <1>5, <1>6, <1>7, <1>8, <1>9

\* With EQ_OP the sides of the condition may be exchanged.
LEMMA PromisedPairs == ASSUME compOp = "EQ_OP" PROVE Satisfying = Served
<1>1. \A k : Found(k) = {r \in DOMAIN right : right[r] # NULL /\ right[r] = k}
  BY DEF Found, InRange
<1>2. \A p \in Pairs : p[2] \in DOMAIN right
  BY DEF Pairs
<1>3. \A l, r : Holds(l, r) <=> l = r
  BY DEF Holds
<1> QED
  BY <1>1, <1>2, <1>3 DEF Satisfying, Served

LEMMA INLInitInv == INLInit => INLInv
<1> SUFFICES ASSUME INLInit PROVE INLInv
  OBVIOUS
<1>1. /\ InputsTypeOK /\ leftRead = 0 /\ leftEnd = FALSE /\ given = << >> /\ ended = FALSE
      /\ hasCurrentLeft = FALSE /\ ahead = {}
  BY DEF INLInit
<1>2. left \in Seq(LeftTuple)
  BY <1>1 DEF InputsTypeOK
<1>3. Len(left) \in Nat /\ DOMAIN left = 1..Len(left)
  BY <1>2
<1>4. INLTypeOK
  <2>1. leftRead \in 0..Len(left)
    BY <1>1, <1>3
  <2>2. hasCurrentLeft \in BOOLEAN /\ leftEnd \in BOOLEAN /\ ended \in BOOLEAN
    BY <1>1
  <2> QED
    BY <1>1, <2>1, <2>2 DEF INLTypeOK
<1>5. Returned = {}
  BY <1>1 DEF Returned
<1>6. Passed = {}
  BY <1>1, <1>3 DEF Passed, Served, Pairs
<1>7. AllReturned
  BY <1>1, <1>5, <1>6 DEF AllReturned
<1>8. Scanning
  BY <1>1 DEF Scanning
<1> QED
  BY <1>4, <1>7, <1>8 DEF INLInv

LEMMA INLStepInv == INLInv /\ [INLNext]_inlVars => INLInv'
<1> SUFFICES ASSUME INLInv, [INLNext]_inlVars PROVE INLInv'
  OBVIOUS
<1>0. INLTypeOK /\ Scanning /\ AllReturned
  BY DEF INLInv
<1>a. UNCHANGED <<inputs, compOp>>
  BY DEF INLNext, inlVars, inputs, NextLeft, NoMoreLeft, RangeEnd, NextRight
<1>1. /\ InputsTypeOK'
      /\ left' = left /\ right' = right
      /\ Pairs' = Pairs /\ Served' = Served
      /\ \A k : Found(k)' = Found(k)
      /\ Len(left) \in Nat /\ DOMAIN left = 1..Len(left)
      /\ \A k : Found(k) \subseteq DOMAIN right
      /\ \A p : p \in Served <=>
                  \E i \in 1..Len(left), r \in DOMAIN right :
                    p = <<i, r>> /\ left[i].key # NULL /\ r \in Found(left[i].key)
  BY <1>0, <1>a, SameInputs DEF INLTypeOK
<1>2. leftRead \in 0..Len(left)
  BY <1>0 DEF INLTypeOK
\* Unless a pair is returned, the pairs passed must stay the same.
<1>3. ASSUME UNCHANGED given, Passed' = Passed
      PROVE  AllReturned'
  <2>1. Returned' = Returned
    BY <1>3 DEF Returned
  <2> QED
    BY <1>0, <1>1, <1>3, <2>1 DEF AllReturned
<1>4. CASE NextLeft
  <2>1. /\ ~hasCurrentLeft /\ ~leftEnd /\ leftRead < Len(left) /\ leftRead' = leftRead + 1
        /\ UNCHANGED <<leftEnd, given, ended>>
        /\ ahead = {}
    BY <1>4, <1>0 DEF NextLeft, Scanning
  <2>2. \/ left[leftRead'].key = NULL /\ UNCHANGED <<hasCurrentLeft, ahead>>
        \/ /\ left[leftRead'].key # NULL
           /\ hasCurrentLeft' = TRUE /\ ahead' = Found(left[leftRead'].key)
    BY <1>4 DEF NextLeft
  <2>3. leftRead' \in 1..Len(left)
    BY <1>1, <1>2, <2>1
  <2>4. INLTypeOK'
    <3>1. hasCurrentLeft' \in BOOLEAN /\ leftEnd' \in BOOLEAN /\ ended' \in BOOLEAN
      BY <1>0, <2>1, <2>2 DEF INLTypeOK
    <3>2. leftRead' \in 0..Len(left')
      BY <1>1, <2>3
    <3> QED
      BY <1>1, <3>1, <3>2 DEF INLTypeOK
  <2>5. Scanning'
    BY <1>1, <2>1, <2>2, <2>3 DEF Scanning
  <2>6. Passed' = Passed
    <3>1. ASSUME NEW i \in 1..Len(left), NEW r \in DOMAIN right,
                 left[i].key # NULL, r \in Found(left[i].key)
          PROVE  (i <= leftRead' /\ (i = leftRead' => r \notin ahead'))
                   <=> i <= leftRead
      <4>1. CASE i = leftRead'
        BY <1>2, <2>1, <2>2, <3>1, <4>1
      <4>2. CASE i # leftRead'
        BY <1>1, <1>2, <2>1, <4>2
      <4> QED BY <4>1, <4>2
    <3>2. \A p \in Served : (p[1] <= leftRead' /\ (p[1] = leftRead' => p[2] \notin ahead'))
                                 <=> p[1] <= leftRead
      BY <1>1, <3>1
    <3> QED
      BY <1>1, <2>1, <3>2 DEF Passed
  <2> QED
    BY <1>3, <2>1, <2>4, <2>5, <2>6 DEF INLInv
<1>5. CASE NoMoreLeft
  <2>1. /\ ~hasCurrentLeft /\ leftEnd' = TRUE /\ ended' = TRUE
        /\ UNCHANGED <<leftRead, given, hasCurrentLeft, ahead>>
        /\ leftRead = Len(left)
    BY <1>0, <1>5 DEF NoMoreLeft, Scanning
  <2>2. INLTypeOK'
    BY <1>0, <1>1, <2>1 DEF INLTypeOK
  <2>3. Scanning'
    BY <1>0, <1>1, <2>1 DEF Scanning
  <2>4. Passed' = Passed
    BY <1>1, <2>1 DEF Passed
  <2> QED
    BY <1>3, <2>1, <2>2, <2>3, <2>4 DEF INLInv
<1>6. CASE RangeEnd
  <2>1. /\ hasCurrentLeft /\ ahead = {} /\ hasCurrentLeft' = FALSE
        /\ UNCHANGED <<leftRead, leftEnd, given, ended, ahead>>
    BY <1>6 DEF RangeEnd
  <2>2. INLTypeOK'
    BY <1>0, <1>1, <2>1 DEF INLTypeOK
  <2>3. Scanning'
    BY <1>0, <1>1, <2>1 DEF Scanning
  <2>4. Passed' = Passed
    BY <1>1, <2>1 DEF Passed
  <2> QED
    BY <1>3, <2>1, <2>2, <2>3, <2>4 DEF INLInv
<1>7. CASE NextRight
  <2>1. PICK r \in ahead : ahead' = ahead \ {r} /\ given' = Append(given, <<leftRead, r>>)
    BY <1>7 DEF NextRight
  <2>2. hasCurrentLeft /\ ended' = FALSE /\ UNCHANGED <<leftRead, leftEnd, hasCurrentLeft>>
    BY <1>7 DEF NextRight
  <2>3. /\ leftRead \in 1..Len(left) /\ left[leftRead].key # NULL
        /\ ahead \subseteq Found(left[leftRead].key)
    BY <1>0, <2>2 DEF Scanning
  <2>4. INLTypeOK'
    BY <1>0, <1>1, <2>2 DEF INLTypeOK
  <2>5. Scanning'
    BY <1>0, <1>1, <2>1, <2>2, <2>3 DEF Scanning
  <2>6. <<leftRead, r>> \in Served
    BY <1>1, <2>3
  <2>7. Passed' = Passed \cup {<<leftRead, r>>}
    <3>1. ASSUME NEW p \in Served
          PROVE  (p[1] <= leftRead /\ (p[1] = leftRead => p[2] \notin ahead'))
                   <=> (p[1] <= leftRead /\ (p[1] = leftRead => p[2] \notin ahead))
                         \/ p = <<leftRead, r>>
      <4>1. PICK i \in 1..Len(left), k \in DOMAIN right : p = <<i, k>>
        BY <1>1, <3>1
      <4> QED
        BY <2>1, <2>3, <4>1
    <3> QED
      BY <1>1, <2>2, <2>6, <3>1 DEF Passed
  <2>8. <<leftRead, r>> \in Pairs
    BY <2>6 DEF Served
  <2>9. given' \in Seq(Pairs) /\ Returned' = Returned \cup {<<leftRead, r>>}
    BY <1>0, <2>1, <2>8, GivenGrows DEF AllReturned
  <2>10. AllReturned'
    BY <1>0, <1>1, <2>7, <2>9 DEF AllReturned
  <2> QED
    BY <2>4, <2>5, <2>10 DEF INLInv
<1>8. CASE UNCHANGED inlVars
  <2>1. UNCHANGED <<leftRead, leftEnd, given, ended, hasCurrentLeft, ahead>>
    BY <1>8 DEF inlVars
  <2>2. INLTypeOK'
    BY <1>0, <1>1, <2>1 DEF INLTypeOK
  <2>3. Scanning'
    BY <1>0, <1>1, <2>1 DEF Scanning
  <2>4. Passed' = Passed
    BY <1>1, <2>1 DEF Passed
  <2> QED
    BY <1>3, <2>1, <2>2, <2>3, <2>4 DEF INLInv
<1> QED
  BY <1>4, <1>5, <1>6, <1>7, <1>8 DEF INLNext

-----------------------------------------------------------------------------
(* The refinement. *)

LEMMA INLStepRefines ==
  INLInv /\ compOp = "EQ_OP" /\ [INLNext]_inlVars =>
    [IndexPromise!Next]_<<Satisfying, given, ended>>
<1> SUFFICES ASSUME INLInv, compOp = "EQ_OP", [INLNext]_inlVars
             PROVE  \/ IndexPromise!Next
                    \/ UNCHANGED <<Satisfying, given, ended>>
  OBVIOUS
<1>0. INLTypeOK /\ Scanning /\ AllReturned
  BY DEF INLInv
<1>a. UNCHANGED <<inputs, compOp>>
  BY DEF INLNext, inlVars, inputs, NextLeft, NoMoreLeft, RangeEnd, NextRight
<1>1. /\ left' = left /\ right' = right
      /\ Pairs' = Pairs /\ Served' = Served
      /\ Len(left) \in Nat
      /\ \A p : p \in Served <=>
                  \E i \in 1..Len(left), r \in DOMAIN right :
                    p = <<i, r>> /\ left[i].key # NULL /\ r \in Found(left[i].key)
  BY <1>0, <1>a, SameInputs DEF INLTypeOK
<1>2. UNCHANGED Satisfying
  BY <1>1, <1>a DEF Satisfying, Holds
<1>3. \A p : (\E i \in DOMAIN given : given[i] = p) <=> p \in Passed
  BY <1>0 DEF AllReturned, Returned
<1>4. CASE NoMoreLeft
  <2>1. /\ ended' = TRUE /\ UNCHANGED given
        /\ leftRead = Len(left) /\ ahead = {}
    BY <1>0, <1>4 DEF NoMoreLeft, Scanning
  <2>2. Passed = Served
    BY <1>1, <2>1 DEF Passed
  <2>3. IndexPromise!End
    BY <1>2, <1>3, <2>1, <2>2, PromisedPairs DEF IndexPromise!End
  <2> QED
    BY <2>3 DEF IndexPromise!Next
<1>5. CASE NextRight
  <2>1. PICK r \in ahead : given' = Append(given, <<leftRead, r>>)
    BY <1>5 DEF NextRight
  <2>2. hasCurrentLeft /\ ended' = FALSE
    BY <1>5 DEF NextRight
  <2>3. /\ leftRead \in 1..Len(left) /\ left[leftRead].key # NULL
        /\ r \in Found(left[leftRead].key) /\ r \in DOMAIN right
    BY <1>0, <2>1, <2>2 DEF Scanning, Found
  <2>4. <<leftRead, r>> \in Served
    BY <1>1, <2>3
  <2>5. <<leftRead, r>> \notin Passed
    BY <2>1 DEF Passed
  <2>6. \A i \in DOMAIN given : given[i] # <<leftRead, r>>
    BY <1>3, <2>5
  <2>7. IndexPromise!Return
    BY <1>2, <2>1, <2>2, <2>4, <2>6, PromisedPairs DEF IndexPromise!Return
  <2> QED
    BY <2>7 DEF IndexPromise!Next
<1>6. CASE NextLeft \/ RangeEnd \/ UNCHANGED inlVars
  BY <1>2, <1>6 DEF NextLeft, RangeEnd, inlVars
<1> QED
  BY <1>4, <1>5, <1>6 DEF INLNext

\* A join on equality returns each pair of equal keys once, and QE_EOF only after all of
\* them, for all inputs, null keys among them: setIterator's bounds, chosen anew for each
\* left tuple, leave out no pair and repeat none.
THEOREM INLRefines == EqualitySpec => INLImplementsJoin
<1>1. INLInit => IndexPromise!Init
  BY DEF INLInit, IndexPromise!Init
<1>2. EqualitySpec => []INLInv
  BY INLInitInv, INLStepInv, PTL DEF EqualitySpec
<1>3. compOp = "EQ_OP" /\ [INLNext]_inlVars => (compOp = "EQ_OP")'
  BY DEF INLNext, inlVars, NextLeft, NoMoreLeft, RangeEnd, NextRight
<1>4. EqualitySpec => [](compOp = "EQ_OP")
  BY <1>3, PTL DEF EqualitySpec
<1> QED
  BY <1>1, <1>2, <1>4, INLStepRefines, PTL DEF EqualitySpec, INLImplementsJoin, IndexPromise!Spec

-----------------------------------------------------------------------------
(* Grace hash joins. *)

\* What the names and the inputs are: tables of different joins, sides and
\* partitions have different names, none of them the name of an index.
JoinNames ==
  /\ TableNames \cap IndexFiles = {}
  /\ \A s \in Side, id \in Nat, i \in Parts : PartName(s, id, i) \in TableNames
  /\ \A s, t \in Side, c, d \in Nat, i, k \in Parts :
        PartName(s, c, i) = PartName(t, d, k) => s = t /\ c = d /\ i = k

Input == Seq(Keys \cup {NULL})

JoinInputsOK ==
  /\ numPartitions \in Nat \ {0}
  /\ NULL \notin Keys /\ hash \in [Keys -> Nat]
  /\ Inputs \subseteq Input \X Input

Tuple == [join : Joins, pos : Nat, key : Keys]

JoinState ==
  [phase : {"unborn", "alive", "dying", "gone", "lost"}, id : Nat,
   left : Input, right : Input, partitionTables : Seq(TableNames),
   leftRead : Nat, rightRead : Nat, currentPart : Nat,
   output : SUBSET (Tuple \X Tuple), given : Seq(Tuple \X Tuple),
   ended : BOOLEAN, clash : BOOLEAN]

DiskOK == disk.files \subseteq FileNames /\ disk.tables \subseteq TableRow

GHTypeOK ==
  /\ DiskOK
  /\ cut = {}
  /\ contents \in [TableNames -> SUBSET Tuple]
  /\ nextJoinId \in Nat
  /\ joins \in [Joins -> JoinState]

\* A file of a table is listed, and a file that is not there is empty.
FilesInOrder ==
  \A t \in TableNames : /\ t \in disk.files => Listed(t)
                        /\ t \notin disk.files => contents[t] = {}

Active(join) == join.phase \in {"alive", "dying"}

\* The tables of a join are named under its own number.
OwnNames(join) ==
  \A t \in Range(join.partitionTables) :
    \E s \in Side, i \in Parts : t = PartName(s, join.id, i)

\* Joins of one process have different numbers.
NumbersApart ==
  \A j \in Joins :
    Active(joins[j]) =>
      /\ joins[j].id < nextJoinId
      /\ OwnNames(joins[j])
      /\ \A k \in Joins \ {j} : Active(joins[k]) => joins[k].id # joins[j].id

\* The tuples of join j in partition i of a side.
Stored(join, j, side, i) ==
  LET input == IF side = "left" THEN join.left ELSE join.right
      read  == IF side = "left" THEN join.leftRead ELSE join.rightRead
  IN  {x \in Tuple : /\ x.join = j
                     /\ x.pos \in 1..read /\ x.key = input[x.pos]
                     /\ partitionIndex(x.key) = i}

PairsOf(join, j, i) ==
  {p \in Stored(join, j, "left", i) \X Stored(join, j, "right", i) : p[1].key = p[2].key}

\* How far a join that is alive has come.
Progress(join) ==
  /\ Len(join.partitionTables) <= 2 * numPartitions
  /\ \A k \in 1..Len(join.partitionTables) :
        join.partitionTables[k] = PartNames(join.id)[k]
  /\ Len(join.partitionTables) < 2 * numPartitions => join.leftRead = 0 /\ join.rightRead = 0
  /\ join.leftRead <= Len(join.left) /\ join.rightRead <= Len(join.right)
  /\ join.leftRead < Len(join.left) => join.rightRead = 0
  /\ ~Partitioned(join) => join.currentPart = 0
  /\ join.currentPart <= numPartitions
  /\ join.ended => join.currentPart = numPartitions /\ join.output = {}

\* Its tables hold what it has read.
Kept(join, j) ==
  \A s \in Side, i \in Parts :
    LET t == PartName(s, join.id, i)
    IN  t \in Range(join.partitionTables) =>
          t \in disk.files /\ contents[t] = Stored(join, j, s, i)

\* It has found the pairs of the partitions before the current one, each once.
Collected(join, j) ==
  /\ \A p \in Range(join.given) \cup join.output :
       \E i \in 0..join.currentPart - 1 : p \in PairsOf(join, j, i)
  /\ \A i \in 0..join.currentPart - 1 : PairsOf(join, j, i) \subseteq Range(join.given) \cup join.output
  /\ Range(join.given) \cap join.output = {}
  /\ IsInjective(join.given)

\* What ExactFor says of a join.
Position(join) == [i \in DOMAIN join.given |-> <<join.given[i][1].pos, join.given[i][2].pos>>]

Exact1(join, j) ==
  /\ \A i \in DOMAIN join.given : join.given[i][1].join = j /\ join.given[i][2].join = j
  /\ IsInjective(Position(join))
  /\ Range(Position(join)) \subseteq Wanted(join)
  /\ join.ended => Range(Position(join)) = Wanted(join)

Serves(join, j) ==
  /\ join.phase = "alive" => Progress(join) /\ (~join.clash => Kept(join, j) /\ Collected(join, j))
  /\ join.phase = "dying" /\ ~join.clash => Exact1(join, j)
  /\ ~Active(join) => join.given = << >> /\ ~join.ended
  /\ join.phase = "unborn" => join = Unborn

JoinsServe == \A j \in Joins : Serves(joins[j], j)

\* The inductive invariant.
GHInv == GHTypeOK /\ FilesInOrder /\ NumbersApart /\ PartitionsOwned /\ JoinsServe

-----------------------------------------------------------------------------
(* What the operators compute. *)

LEMMA PartNamesAre ==
  ASSUME JoinInputsOK, NEW id \in Nat
  PROVE  /\ \A k \in 1..2 * numPartitions :
              \E s \in Side, i \in Parts : PartNames(id)[k] = PartName(s, id, i)
         /\ \A s \in Side, i \in Parts :
              \E k \in 1..2 * numPartitions : PartNames(id)[k] = PartName(s, id, i)
<1>0. numPartitions \in Nat /\ numPartitions > 0
  BY DEF JoinInputsOK
<1>1. ASSUME NEW k \in 1..2 * numPartitions
      PROVE  \E s \in Side, i \in Parts : PartNames(id)[k] = PartName(s, id, i)
  <2>1. (k - 1) \div 2 \in Parts
    BY <1>0 DEF Parts
  <2>2. PartNames(id)[k] = PartName(IF k % 2 = 1 THEN "left" ELSE "right", id, (k - 1) \div 2)
    BY <1>0 DEF PartNames
  <2> QED BY <2>1, <2>2 DEF Side
<1>2. ASSUME NEW i \in Parts
      PROVE  /\ PartNames(id)[2 * i + 1] = PartName("left", id, i)
             /\ PartNames(id)[2 * i + 2] = PartName("right", id, i)
             /\ {2 * i + 1, 2 * i + 2} \subseteq 1..2 * numPartitions
  <2>1. i \in Nat /\ i < numPartitions
    BY <1>0 DEF Parts
  <2>2. {2 * i + 1, 2 * i + 2} \subseteq 1..2 * numPartitions
    BY <1>0, <2>1
  <2>3. (2 * i + 1) % 2 = 1 /\ (2 * i + 2) % 2 # 1
        /\ (2 * i + 1 - 1) \div 2 = i /\ (2 * i + 2 - 1) \div 2 = i
    BY <2>1
  <2> QED BY <2>2, <2>3 DEF PartNames
<1> QED BY <1>1, <1>2 DEF Side

\* Tables made so far have names in order, and when all are there, every name.
LEMMA TablesNamed ==
  ASSUME JoinInputsOK, NEW join \in JoinState, Progress(join)
  PROVE  /\ OwnNames(join)
         /\ Partitioning(join) =>
              \A s \in Side, i \in Parts : PartName(s, join.id, i) \in Range(join.partitionTables)
<1>1. join.id \in Nat /\ join.partitionTables \in Seq(TableNames)
  BY DEF JoinState
<1>2. DOMAIN join.partitionTables = 1..Len(join.partitionTables)
  BY <1>1
<1>3. OwnNames(join)
  <2> SUFFICES ASSUME NEW k \in DOMAIN join.partitionTables
               PROVE  \E s \in Side, i \in Parts :
                        join.partitionTables[k] = PartName(s, join.id, i)
    BY DEF OwnNames, Range
  <2>1. k \in 1..2 * numPartitions
    BY <1>1, <1>2 DEF Progress, JoinInputsOK
  <2>2. join.partitionTables[k] = PartNames(join.id)[k]
    BY <1>2 DEF Progress
  <2>3. \E s \in Side, i \in Parts : PartNames(join.id)[k] = PartName(s, join.id, i)
    BY <1>1, <2>1, PartNamesAre
  <2> QED BY <2>2, <2>3
<1>4. ASSUME Partitioning(join), NEW s \in Side, NEW i \in Parts
      PROVE  PartName(s, join.id, i) \in Range(join.partitionTables)
  <2>1. PICK k \in 1..2 * numPartitions : PartNames(join.id)[k] = PartName(s, join.id, i)
    BY <1>1, PartNamesAre
  <2>2. Len(join.partitionTables) = 2 * numPartitions
    BY <1>4 DEF Partitioning
  <2>3. k \in DOMAIN join.partitionTables /\ join.partitionTables[k] = PartName(s, join.id, i)
    BY <1>2, <2>1, <2>2 DEF Progress
  <2> QED BY <2>3 DEF Range
<1> QED BY <1>3, <1>4

\* A key belongs to one partition.
LEMMA PartitionIndexType ==
  ASSUME JoinInputsOK, NEW key \in Keys
  PROVE  partitionIndex(key) \in Parts
<1>1. hash[key] \in Nat /\ numPartitions \in Nat /\ numPartitions > 0
  BY DEF JoinInputsOK
<1>2. hash[key] % numPartitions \in 0..numPartitions - 1
  BY <1>1
<1> QED BY <1>2 DEF partitionIndex, Parts

\* A join that has found what it is to find returns what it is to return.
LEMMA FoundIsExact ==
  ASSUME JoinInputsOK, NEW join \in JoinState, NEW j \in Joins, Progress(join), Collected(join, j)
  PROVE  Exact1(join, j)
<1> DEFINE pairs == join.given
<1>0. /\ pairs \in Seq(Tuple \X Tuple) /\ DOMAIN pairs = 1..Len(pairs)
      /\ join.left \in Input /\ join.right \in Input
      /\ join.leftRead \in Nat /\ join.rightRead \in Nat /\ join.currentPart \in Nat
      /\ numPartitions \in Nat /\ numPartitions > 0
      /\ DOMAIN join.left = 1..Len(join.left) /\ DOMAIN join.right = 1..Len(join.right)
      /\ Len(join.left) \in Nat /\ Len(join.right) \in Nat
  BY DEF JoinState, JoinInputsOK, Input
<1>1. ASSUME NEW k \in DOMAIN pairs
      PROVE  \E i \in 0..join.currentPart - 1 : pairs[k] \in PairsOf(join, j, i)
  BY <1>1 DEF Collected, Range
<1>2. ASSUME NEW k \in DOMAIN pairs
      PROVE  /\ pairs[k] \in Tuple \X Tuple
             /\ pairs[k][1].join = j /\ pairs[k][2].join = j
             /\ pairs[k][1].pos \in 1..join.leftRead /\ pairs[k][2].pos \in 1..join.rightRead
             /\ pairs[k][1].key = join.left[pairs[k][1].pos]
             /\ pairs[k][2].key = join.right[pairs[k][2].pos]
             /\ pairs[k][1].key = pairs[k][2].key
             /\ pairs[k][1].key \in Keys
  BY <1>1 DEF PairsOf, Stored, Tuple
<1>3. ASSUME NEW k \in DOMAIN pairs
      PROVE  Position(join)[k] \in Wanted(join)
  <2>1. pairs[k][1].pos \in DOMAIN join.left /\ pairs[k][2].pos \in DOMAIN join.right
    BY <1>0, <1>2, SMTT(30) DEF Progress
  <2>2. join.left[pairs[k][1].pos] = join.right[pairs[k][2].pos]
        /\ join.left[pairs[k][1].pos] # NULL
    BY <1>2 DEF JoinInputsOK
  <2> QED BY <2>1, <2>2 DEF Position, Wanted
<1>4. Range(Position(join)) \subseteq Wanted(join)
  BY <1>3 DEF Range, Position
<1>5. IsInjective(Position(join))
  <2> SUFFICES ASSUME NEW a \in DOMAIN pairs, NEW b \in DOMAIN pairs,
                      Position(join)[a] = Position(join)[b]
               PROVE  a = b
    BY DEF IsInjective, Position
  <2>1. pairs[a][1].pos = pairs[b][1].pos /\ pairs[a][2].pos = pairs[b][2].pos
    BY DEF Position
  <2>2. pairs[a][1] = pairs[b][1] /\ pairs[a][2] = pairs[b][2]
    BY <1>2, <2>1 DEF Tuple
  <2>3. pairs[a] = pairs[b]
    BY <1>2, <2>2
  <2> QED BY <2>3 DEF Collected, IsInjective
<1>6. ASSUME join.ended, NEW w \in Wanted(join)
      PROVE  w \in Range(Position(join))
  <2>1. join.currentPart = numPartitions /\ join.output = {} /\ Partitioned(join)
    BY <1>0, <1>6 DEF Progress
  <2>2. join.leftRead = Len(join.left) /\ join.rightRead = Len(join.right)
    BY <2>1 DEF Partitioned
  <2> DEFINE key == join.left[w[1]]
             i == partitionIndex(key)
             x == [join |-> j, pos |-> w[1], key |-> key]
             y == [join |-> j, pos |-> w[2], key |-> key]
  <2>3. w[1] \in 1..join.leftRead /\ w[2] \in 1..join.rightRead /\ w = <<w[1], w[2]>>
        /\ key = join.right[w[2]] /\ key # NULL /\ key \in Keys
    BY <1>0, <1>6, <2>2 DEF Wanted, Input
  <2>4. x \in Tuple /\ y \in Tuple
    BY <1>0, <2>3 DEF Tuple
  <2>5. i \in 0..join.currentPart - 1
    BY <2>1, <2>3, PartitionIndexType DEF Parts
  <2>6. x \in Stored(join, j, "left", i) /\ y \in Stored(join, j, "right", i)
    BY <2>3, <2>4 DEF Stored
  <2>7. <<x, y>> \in PairsOf(join, j, i)
    BY <2>6 DEF PairsOf
  <2>8. PICK k \in DOMAIN pairs : pairs[k] = <<x, y>>
    BY <2>1, <2>5, <2>7 DEF Collected, Range
  <2>9. Position(join)[k] = w /\ k \in DOMAIN Position(join)
    BY <2>3, <2>8 DEF Position
  <2> QED BY <2>9 DEF Range
<1> QED BY <1>2, <1>4, <1>5, <1>6 DEF Exact1

\* What a step of join j, which leaves it as `now', must see to.
LEMMA StepOfOne ==
  ASSUME JoinNames, JoinInputsOK, GHInv, NEW j \in Joins, NEW now \in JoinState,
         joins' = [joins EXCEPT ![j] = now],
         DiskOK',
         cut' = cut, contents' \in [TableNames -> SUBSET Tuple], FilesInOrder',
         nextJoinId' \in Nat, nextJoinId <= nextJoinId',
         Active(now) => /\ OwnNames(now) /\ now.id < nextJoinId'
                        /\ (Active(joins[j]) /\ now.id = joins[j].id) \/ now.id = nextJoinId,
         \A t \in TableNames :
           ~(\E s \in Side, i \in Parts : t = PartName(s, joins[j].id, i) /\ Active(joins[j])) =>
             /\ contents'[t] = contents[t]
             /\ t \in disk'.files <=> t \in disk.files,
         \A t \in TableNames \cap disk'.files :
           \/ t \in Range(now.partitionTables)
           \/ t \in disk.files /\ t \notin Range(joins[j].partitionTables),
         Serves(now, j)'
  PROVE  GHInv'
<1> USE DEF GHInv, GHTypeOK
<1>1. \A k \in Joins : joins'[k] = IF k = j THEN now ELSE joins[k]
  OBVIOUS
<1>2. GHTypeOK'
  OBVIOUS
<1>3. NumbersApart'
  <2> SUFFICES ASSUME NEW k \in Joins, Active(joins'[k])
               PROVE  /\ joins'[k].id < nextJoinId'
                      /\ OwnNames(joins'[k])
                      /\ \A l \in Joins \ {k} : Active(joins'[l]) => joins'[l].id # joins'[k].id
    BY DEF NumbersApart, Active, OwnNames
  <2>1. \A l \in Joins : joins[l].id \in Nat
    BY DEF JoinState
  <2>2. CASE k = j
    <3>1. now.id \in Nat
      BY DEF JoinState
    <3>2. \A l \in Joins \ {k} : Active(joins[l]) => joins[l].id # now.id
      BY <1>1, <2>1, <2>2 DEF NumbersApart
    <3> QED BY <1>1, <2>2, <3>2
  <2>3. CASE k # j
    <3>1. Active(joins[k]) /\ joins'[k] = joins[k]
      BY <1>1, <2>3
    <3>2. joins[k].id < nextJoinId /\ OwnNames(joins[k])
      BY <3>1 DEF NumbersApart
    <3>3. Active(now) => now.id # joins[k].id
      BY <1>1, <2>1, <2>3, <3>1, <3>2 DEF NumbersApart
    <3>4. \A l \in Joins \ {k} : Active(joins'[l]) => joins'[l].id # joins[k].id
      BY <1>1, <3>1, <3>3 DEF NumbersApart
    <3> QED BY <2>1, <3>1, <3>2, <3>4
  <2> QED BY <2>2, <2>3
<1>4. PartitionsOwned'
  BY <1>1 DEF PartitionsOwned
<1>5. ASSUME NEW k \in Joins \ {j}
      PROVE  Serves(joins[k], k)'
  <2>1. joins'[k] = joins[k] /\ joins[k] \in JoinState /\ Serves(joins[k], k)
    BY <1>1, <1>5 DEF JoinsServe
  <2>2. CASE joins[k].phase = "alive" /\ ~joins[k].clash
    <3> SUFFICES Kept(joins[k], k)'
      BY <2>1, <2>2 DEF Serves
    <3> SUFFICES ASSUME NEW s \in Side, NEW i \in Parts,
                        PartName(s, joins[k].id, i) \in Range(joins[k].partitionTables)
                 PROVE  LET t == PartName(s, joins[k].id, i)
                        IN  t \in disk'.files /\ contents'[t] = Stored(joins[k], k, s, i)
      BY <2>1 DEF Kept
    <3> DEFINE t == PartName(s, joins[k].id, i)
    <3>1. t \in disk.files /\ contents[t] = Stored(joins[k], k, s, i)
      BY <2>1, <2>2 DEF Serves, Kept
    <3>2. joins[k].id \in Nat /\ joins[j].id \in Nat /\ t \in TableNames
      BY <2>1 DEF JoinState, JoinNames
    <3>3. Active(joins[j]) => joins[j].id # joins[k].id
      BY <2>2 DEF NumbersApart, Active
    <3>4. ~(\E u \in Side, l \in Parts : t = PartName(u, joins[j].id, l) /\ Active(joins[j]))
      BY <3>2, <3>3 DEF JoinNames
    <3> QED BY <3>1, <3>2, <3>4
  <2>3. CASE ~(joins[k].phase = "alive" /\ ~joins[k].clash)
    BY <2>1, <2>3 DEF Serves
  <2> QED BY <2>2, <2>3
<1>6. JoinsServe'
  BY <1>1, <1>5 DEF JoinsServe
<1> QED BY <1>2, <1>3, <1>4, <1>6

\* A step that leaves the catalog and the tables alone.
LEMMA QuietStep ==
  ASSUME JoinNames, JoinInputsOK, GHInv, NEW j \in Joins, NEW now \in JoinState,
         joins' = [joins EXCEPT ![j] = now], UNCHANGED <<vars, contents>>,
         nextJoinId' \in Nat, nextJoinId <= nextJoinId',
         Active(now) => /\ OwnNames(now) /\ now.id < nextJoinId'
                        /\ (Active(joins[j]) /\ now.id = joins[j].id) \/ now.id = nextJoinId,
         Range(joins[j].partitionTables) \subseteq Range(now.partitionTables),
         Serves(now, j)'
  PROVE  GHInv'
<1>1. disk' = disk /\ cut' = cut /\ contents' = contents
  BY DEF vars
<1>2. FilesInOrder'
  BY <1>1 DEF GHInv, FilesInOrder, Listed, RowsOf
<1>3. \A t \in TableNames \cap disk'.files :
        \/ t \in Range(now.partitionTables)
        \/ t \in disk.files /\ t \notin Range(joins[j].partitionTables)
  BY <1>1
<1>4. /\ DiskOK'
      /\ contents' \in [TableNames -> SUBSET Tuple]
  BY <1>1 DEF GHInv, GHTypeOK, DiskOK
<1>5. \A t \in TableNames : contents'[t] = contents[t] /\ (t \in disk'.files <=> t \in disk.files)
  BY <1>1
<1> QED BY <1>1, <1>2, <1>3, <1>4, <1>5, StepOfOne

\* What has been read and stored stays so.
LEMMA KeptStays ==
  ASSUME NEW j, NEW was, NEW now, Kept(was, j), disk' = disk, contents' = contents,
         now.id = was.id, now.partitionTables = was.partitionTables,
         now.left = was.left, now.right = was.right,
         now.leftRead = was.leftRead, now.rightRead = was.rightRead
  PROVE  Kept(now, j)'
BY DEF Kept, Stored

LEMMA PairsStay ==
  ASSUME NEW j, NEW i, NEW was, NEW now, now.left = was.left, now.right = was.right,
         now.leftRead = was.leftRead, now.rightRead = was.rightRead
  PROVE  PairsOf(now, j, i) = PairsOf(was, j, i)
BY DEF PairsOf, Stored

\* Before and after.
LEMMA Moment ==
  ASSUME GHInv, NEW j \in Joins
  PROVE  /\ joins[j] \in JoinState /\ Serves(joins[j], j)
         /\ nextJoinId \in Nat
         /\ Active(joins[j]) => OwnNames(joins[j]) /\ joins[j].id < nextJoinId
BY DEF GHInv, GHTypeOK, JoinsServe, NumbersApart

-----------------------------------------------------------------------------
(* Every step preserves the invariant. *)

LEMMA ConstructKeeps ==
  ASSUME JoinNames, JoinInputsOK, GHInv, NEW j \in Joins, NEW in \in Inputs,
         Construct(j, in[1], in[2])
  PROVE  GHInv'
<1>1. PICK now : now = [joins[j] EXCEPT !.phase = "alive", !.id = nextJoinId,
                                        !.left = in[1], !.right = in[2]]
  OBVIOUS
<1>2. joins' = [joins EXCEPT ![j] = now]
  BY <1>1, Moment DEF Construct, GHInv, GHTypeOK, JoinState
<1>3. joins[j] = Unborn
  BY Moment DEF Serves, Construct
<1>4. in[1] \in Input /\ in[2] \in Input
  BY DEF JoinInputsOK
<1>5. now \in JoinState
  BY <1>1, <1>4, Moment DEF JoinState
<1>6. /\ now.phase = "alive" /\ now.id = nextJoinId /\ now.partitionTables = << >>
      /\ now.leftRead = 0 /\ now.rightRead = 0 /\ now.currentPart = 0 /\ now.output = {}
      /\ now.given = << >> /\ now.ended = FALSE
  BY <1>1, <1>3 DEF Unborn, Idle
<1>7. Range(now.partitionTables) = {} /\ Range(now.given) = {} /\ Range(joins[j].partitionTables) = {}
  BY <1>3, <1>6 DEF Range, Unborn, Idle
<1>8. Progress(now)
  <2>1. Len(now.left) \in Nat /\ Len(now.right) \in Nat
    BY <1>5 DEF JoinState, Input
  <2>2. numPartitions \in Nat /\ numPartitions > 0
    BY DEF JoinInputsOK
  <2>3. ~Partitioned(now)
    BY <1>6, <2>2 DEF Partitioned, Partitioning
  <2> QED BY <1>6, <2>1, <2>2, <2>3 DEF Progress
<1>9. Collected(now, j)
  BY <1>6, <1>7 DEF Collected, IsInjective
<1>10. Kept(now, j)'
  BY <1>7 DEF Kept
<1>11. Serves(now, j)'
  BY <1>6, <1>8, <1>9, <1>10 DEF Serves, Active
<1>12. OwnNames(now)
  BY <1>7 DEF OwnNames
<1>13. /\ UNCHANGED <<vars, contents>>
       /\ nextJoinId' \in Nat /\ nextJoinId < nextJoinId' /\ nextJoinId <= nextJoinId'
  BY Moment DEF Construct
<1>14. Range(joins[j].partitionTables) \subseteq Range(now.partitionTables)
  BY <1>7
<1> QED BY <1>2, <1>5, <1>6, <1>11, <1>12, <1>13, <1>14, QuietStep

\* A step within the memory of a join.
LEMMA InMemory ==
  ASSUME JoinNames, JoinInputsOK, GHInv, NEW j \in Joins, NEW now \in JoinState,
         joins' = [joins EXCEPT ![j] = now], UNCHANGED <<vars, contents, nextJoinId>>,
         joins[j].phase = "alive", now.phase = "alive", now.id = joins[j].id,
         now.partitionTables = joins[j].partitionTables,
         now.left = joins[j].left, now.right = joins[j].right,
         now.leftRead = joins[j].leftRead, now.rightRead = joins[j].rightRead,
         now.clash = joins[j].clash,
         Progress(now), ~now.clash => Collected(now, j)
  PROVE  GHInv'
<1>1. PICK was : was = joins[j]
  OBVIOUS
<1>2. Serves(was, j) /\ OwnNames(was) /\ now.id < nextJoinId /\ nextJoinId \in Nat
  BY <1>1, Moment DEF Active
<1>3. ~now.clash => Kept(now, j)'
  BY <1>1, <1>2, KeptStays DEF Serves, vars
<1>4. Serves(now, j)'
  BY <1>3 DEF Serves, Active
<1>5. OwnNames(now)
  BY <1>1, <1>2 DEF OwnNames
<1>6. /\ UNCHANGED <<vars, contents>>
      /\ nextJoinId' \in Nat /\ nextJoinId <= nextJoinId' /\ now.id < nextJoinId'
  BY <1>2
<1>7. Range(joins[j].partitionTables) \subseteq Range(now.partitionTables)
  OBVIOUS
<1>8. Active(joins[j])
  BY DEF Active
<1> QED BY <1>4, <1>5, <1>6, <1>7, <1>8, QuietStep

LEMMA probeKeeps ==
  ASSUME JoinNames, JoinInputsOK, GHInv, NEW j \in Joins, probe(j)
  PROVE  GHInv'
<1>1. PICK was : was = joins[j]
  OBVIOUS
<1>2. /\ was \in JoinState /\ was.phase = "alive" /\ Partitioned(was) /\ Partitioning(was)
      /\ was.output = {} /\ was.currentPart < numPartitions
      /\ Progress(was) /\ (~was.clash => Kept(was, j) /\ Collected(was, j))
  BY <1>1, Moment DEF probe, Partitioned, Partitioning, Serves
<1> DEFINE c == was.currentPart
           now == [was EXCEPT !.output = Matches(c, was.id), !.currentPart = c + 1]
<1>3. c \in Nat /\ numPartitions \in Nat /\ c \in Parts /\ was.id \in Nat
  BY <1>2 DEF JoinState, JoinInputsOK, Parts
<1>4. \A s \in Side : TuplesIn(PartName(s, was.id, c)) \subseteq Tuple
  BY <1>3 DEF TuplesIn, JoinNames, GHInv, GHTypeOK
<1>5. Matches(c, was.id) \subseteq Tuple \X Tuple
  BY <1>4 DEF Matches, Side
<1>6. now \in JoinState
  <2>1. c + 1 \in Nat /\ Matches(c, was.id) \in SUBSET (Tuple \X Tuple)
    BY <1>3, <1>5
  <2> QED BY <1>2, <2>1 DEF JoinState
<1>7. joins' = [joins EXCEPT ![j] = now]
  BY <1>1 DEF probe, GHInv, GHTypeOK, JoinState
<1>8. /\ now.phase = "alive" /\ now.id = was.id /\ now.partitionTables = was.partitionTables
      /\ now.left = was.left /\ now.right = was.right
      /\ now.leftRead = was.leftRead /\ now.rightRead = was.rightRead
      /\ now.clash = was.clash /\ now.ended = was.ended /\ now.given = was.given
      /\ now.output = Matches(c, was.id) /\ now.currentPart = c + 1
  BY <1>2 DEF JoinState
<1>9. Progress(now)
  <2>1. Partitioned(now)
    BY <1>2, <1>8 DEF Partitioned, Partitioning
  <2>2. ~was.ended
    BY <1>2, <1>3 DEF Progress
  <2> QED BY <1>2, <1>3, <1>8, <2>1, <2>2 DEF Progress
<1>10. ASSUME ~was.clash PROVE Collected(now, j)
  <2>1. \A i : PairsOf(now, j, i) = PairsOf(was, j, i)
    BY <1>8, PairsStay
  <2>2. \A s \in Side : TuplesIn(PartName(s, was.id, c)) = Stored(was, j, s, c)
    <3> SUFFICES ASSUME NEW s \in Side
                 PROVE  TuplesIn(PartName(s, was.id, c)) = Stored(was, j, s, c)
      OBVIOUS
    <3>1. PartName(s, was.id, c) \in Range(was.partitionTables)
      BY <1>2, <1>3, TablesNamed
    <3>2. /\ PartName(s, was.id, c) \in disk.files
          /\ contents[PartName(s, was.id, c)] = Stored(was, j, s, c)
      BY <1>2, <1>3, <1>10, <3>1 DEF Kept
    <3>3. Listed(PartName(s, was.id, c))
      BY <1>3, <3>2 DEF GHInv, FilesInOrder, JoinNames
    <3> QED BY <3>2, <3>3 DEF TuplesIn, Open
  <2>3. Matches(c, was.id) = PairsOf(was, j, c)
    BY <2>2 DEF Matches, PairsOf, Side
  <2>4. Collected(was, j) /\ 0..now.currentPart - 1 = 0..c /\ c \in 0..c
        /\ 0..c = (0..c - 1) \cup {c}
    BY <1>2, <1>3, <1>8, <1>10
  <2>5. Range(was.given) \cap PairsOf(was, j, c) = {}
    <3> SUFFICES ASSUME NEW p \in Range(was.given), p \in PairsOf(was, j, c) PROVE FALSE
      OBVIOUS
    <3>1. PICK i \in 0..c - 1 : p \in PairsOf(was, j, i)
      BY <2>4 DEF Collected
    <3>2. partitionIndex(p[1].key) = i /\ partitionIndex(p[1].key) = c
      BY <3>1 DEF PairsOf, Stored
    <3> QED BY <1>3, <3>2
  <2>6. /\ \A p \in Range(now.given) \cup now.output :
              \E i \in 0..now.currentPart - 1 : p \in PairsOf(was, j, i)
    BY <1>2, <1>8, <2>3, <2>4 DEF Collected
  <2>7. \A i \in 0..now.currentPart - 1 :
          PairsOf(was, j, i) \subseteq Range(now.given) \cup now.output
    BY <1>2, <1>8, <2>3, <2>4 DEF Collected
  <2> QED BY <1>8, <2>1, <2>3, <2>4, <2>5, <2>6, <2>7 DEF Collected
<1>11. UNCHANGED <<vars, contents, nextJoinId>>
  BY DEF probe
<1> HIDE DEF now
<1>12. PICK n : n = now
  OBVIOUS
<1> QED BY <1>1, <1>2, <1>6, <1>7, <1>8, <1>9, <1>10, <1>11, <1>12, InMemory

LEMMA FetchKeeps ==
  ASSUME JoinNames, JoinInputsOK, GHInv, NEW j \in Joins, Fetch(j)
  PROVE  GHInv'
<1>1. PICK was : was = joins[j]
  OBVIOUS
<1>2. PICK p \in was.output :
        joins' = [joins EXCEPT ![j].output = @ \ {p}, ![j].given = Append(@, p)]
  BY <1>1 DEF Fetch
<1>3. /\ was \in JoinState /\ was.phase = "alive"
      /\ Progress(was) /\ (~was.clash => Collected(was, j))
  BY <1>1, Moment DEF Fetch, Serves
<1> DEFINE now == [was EXCEPT !.output = was.output \ {p}, !.given = Append(was.given, p)]
<1>4. /\ was.given \in Seq(Tuple \X Tuple) /\ p \in Tuple \X Tuple
      /\ Append(was.given, p) \in Seq(Tuple \X Tuple)
      /\ was.output \ {p} \in SUBSET (Tuple \X Tuple)
  BY <1>2, <1>3 DEF JoinState
<1>5. now \in JoinState
  BY <1>3, <1>4 DEF JoinState
<1>6. joins' = [joins EXCEPT ![j] = now]
  BY <1>1, <1>2 DEF GHInv, GHTypeOK, JoinState
<1>7. /\ now.phase = "alive" /\ now.id = was.id /\ now.partitionTables = was.partitionTables
      /\ now.left = was.left /\ now.right = was.right
      /\ now.leftRead = was.leftRead /\ now.rightRead = was.rightRead
      /\ now.clash = was.clash /\ now.ended = was.ended /\ now.currentPart = was.currentPart
      /\ now.output = was.output \ {p} /\ now.given = Append(was.given, p)
  BY <1>3 DEF JoinState
<1>8. Progress(now)
  BY <1>2, <1>3, <1>7 DEF Progress, Partitioned, Partitioning
<1>9. ASSUME ~was.clash PROVE Collected(now, j)
  <2>1. \A i : PairsOf(now, j, i) = PairsOf(was, j, i)
    BY <1>7, PairsStay
  <2>2. /\ DOMAIN was.given = 1..Len(was.given) /\ Len(was.given) \in Nat
        /\ DOMAIN now.given = 1..Len(was.given) + 1
        /\ \A i \in 1..Len(was.given) : now.given[i] = was.given[i]
        /\ now.given[Len(was.given) + 1] = p
    BY <1>4, <1>7
  <2>3. Range(now.given) = Range(was.given) \cup {p}
    BY <2>2 DEF Range
  <2>4. p \notin Range(was.given) /\ IsInjective(was.given)
    BY <1>2, <1>3, <1>9 DEF Collected
  <2>5. IsInjective(now.given)
    BY <2>2, <2>4 DEF IsInjective, Range
  <2>6. Range(now.given) \cup now.output = Range(was.given) \cup was.output
    BY <1>2, <1>7, <2>3
  <2>7. Range(now.given) \cap now.output = {}
    BY <1>3, <1>7, <1>9, <2>3 DEF Collected
  <2> QED BY <1>3, <1>7, <1>9, <2>1, <2>5, <2>6, <2>7 DEF Collected
<1>10. UNCHANGED <<vars, contents, nextJoinId>>
  BY DEF Fetch
<1> HIDE DEF now
<1>11. PICK n : n = now
  OBVIOUS
<1> QED BY <1>1, <1>3, <1>5, <1>6, <1>7, <1>8, <1>9, <1>10, <1>11, InMemory

LEMMA EndKeeps ==
  ASSUME JoinNames, JoinInputsOK, GHInv, NEW j \in Joins, End(j)
  PROVE  GHInv'
<1>1. PICK was : was = joins[j]
  OBVIOUS
<1>2. /\ was \in JoinState /\ was.phase = "alive" /\ was.output = {}
      /\ was.currentPart = numPartitions /\ Progress(was) /\ (~was.clash => Collected(was, j))
  BY <1>1, Moment DEF End, Partitioned, Partitioning, Serves
<1> DEFINE now == [was EXCEPT !.ended = TRUE]
<1>3. now \in JoinState
  BY <1>2 DEF JoinState
<1>4. joins' = [joins EXCEPT ![j] = now]
  BY <1>1 DEF End, GHInv, GHTypeOK, JoinState
<1>5. /\ now.phase = "alive" /\ now.id = was.id /\ now.partitionTables = was.partitionTables
      /\ now.left = was.left /\ now.right = was.right
      /\ now.leftRead = was.leftRead /\ now.rightRead = was.rightRead
      /\ now.clash = was.clash /\ now.currentPart = was.currentPart
      /\ now.output = was.output /\ now.given = was.given
  BY <1>2 DEF JoinState
<1>6. Progress(now)
  BY <1>2, <1>5 DEF Progress, Partitioned, Partitioning
<1>7. ASSUME ~was.clash PROVE Collected(now, j)
  <2>1. \A i : PairsOf(now, j, i) = PairsOf(was, j, i)
    BY <1>5, PairsStay
  <2>2. Collected(was, j)
    BY <1>2, <1>7
  <2> QED BY <1>5, <2>1, <2>2, Zenon DEF Collected
<1>8. UNCHANGED <<vars, contents, nextJoinId>>
  BY DEF End
<1> HIDE DEF now
<1>9. PICK n : n = now
  OBVIOUS
<1> QED BY <1>1, <1>2, <1>3, <1>4, <1>5, <1>6, <1>7, <1>8, <1>9, InMemory

LEMMA IdleJoin ==
  ASSUME NEW phase \in {"unborn", "gone", "lost"}, NEW tables \in Seq(TableNames)
  PROVE  Idle(phase, tables) \in JoinState
<1>1. << >> \in Input /\ << >> \in Seq(Tuple \X Tuple) /\ {} \in SUBSET (Tuple \X Tuple)
  BY DEF Input
<1> QED BY <1>1 DEF Idle, JoinState

LEMMA DestroyedKeeps ==
  ASSUME JoinNames, JoinInputsOK, GHInv, NEW j \in Joins, Destroyed(j)
  PROVE  GHInv'
<1> << >> \in Seq(TableNames)
  OBVIOUS
<1>1. /\ Gone.phase = "gone" /\ Gone.given = << >> /\ Gone.ended = FALSE
      /\ Gone.partitionTables = << >>
  BY DEF Gone, Idle
<1>2. Gone \in JoinState
  BY IdleJoin DEF Gone
<1>3. Serves(Gone, j)' /\ ~Active(Gone)
  BY <1>1 DEF Serves, Active
<1>4. /\ joins' = [joins EXCEPT ![j] = Gone] /\ UNCHANGED <<vars, contents>>
      /\ nextJoinId' \in Nat /\ nextJoinId <= nextJoinId'
      /\ Range(joins[j].partitionTables) \subseteq Range(Gone.partitionTables)
  BY <1>1, Moment DEF Destroyed
<1> QED BY <1>2, <1>3, <1>4, QuietStep

LEMMA CrashKeeps ==
  ASSUME GHInv, Crash
  PROVE  GHInv'
<1> DEFINE Lost(j) == Idle("lost", joins[j].partitionTables)
<1>1. \A j \in Joins : joins'[j] = IF Active(joins[j]) THEN Lost(j) ELSE joins[j]
  BY DEF Crash, Active
<1>2. \A j \in Joins :
        /\ Lost(j) \in JoinState /\ Lost(j).phase = "lost" /\ Lost(j).given = << >>
        /\ Lost(j).ended = FALSE /\ Lost(j).partitionTables = joins[j].partitionTables
  <2> SUFFICES ASSUME NEW j \in Joins
               PROVE  /\ Lost(j) \in JoinState /\ Lost(j).phase = "lost" /\ Lost(j).given = << >>
                      /\ Lost(j).ended = FALSE
                      /\ Lost(j).partitionTables = joins[j].partitionTables
    OBVIOUS
  <2>1. joins[j].partitionTables \in Seq(TableNames)
    BY Moment DEF JoinState
  <2> QED BY <2>1, IdleJoin DEF Idle
<1> HIDE DEF Lost
<1>3. /\ disk' = disk /\ cut' = cut /\ contents' = contents /\ nextJoinId' \in Nat
      /\ joins' \in [Joins -> JoinState]
  BY <1>1, <1>2, Moment DEF Crash, vars
<1>4. GHTypeOK'
  BY <1>3 DEF GHInv, GHTypeOK, DiskOK
<1>5. FilesInOrder'
  BY <1>3 DEF GHInv, FilesInOrder, Listed, RowsOf
<1>6. \A j \in Joins : ~Active(joins'[j])
  BY <1>1, <1>2 DEF Active
<1>7. NumbersApart'
  BY <1>6 DEF NumbersApart, Active
<1>8. PartitionsOwned'
  <2>1. \A j \in Joins : joins'[j].partitionTables = joins[j].partitionTables
    BY <1>1, <1>2
  <2> QED BY <1>3, <2>1 DEF GHInv, PartitionsOwned
<1>9. JoinsServe'
  BY <1>1, <1>2, <1>6, Moment DEF JoinsServe, Serves, Active
<1> QED BY <1>4, <1>5, <1>7, <1>8, <1>9 DEF GHInv

-----------------------------------------------------------------------------
(* The steps that create, fill and delete tables.                            *)

LEMMA CreationLeaves ==
  ASSUME DiskOK, cut = {}, NEW t \in TableNames,
         createTable(t, AttrNames), UNCHANGED cut
  PROVE  /\ DiskOK' /\ disk'.files = disk.files \cup {t}
         /\ disk.tables \subseteq disk'.tables /\ Listed(t)'
<1>1. PICK id \in NextIds : disk' = Described(t, id, AttrNames)
  <2>1. PICK id \in NextIds :
          Write("createTable", Described(t, id, AttrNames),
                {Created({t}, disk.tables)}
                  \cup {Described(t, id, as) : as \in SUBSET AttrNames})
    BY Zenon DEF createTable
  <2> QED BY <2>1 DEF Write
<1>2. id \in Nat
  BY DEF NextIds, DiskOK, TableRow
<1>3. /\ disk'.files = disk.files \cup {t}
      /\ disk'.tables = disk.tables \cup {[id |-> id, name |-> t]}
  BY <1>1 DEF Described
<1>4. disk'.files \in SUBSET FileNames
  BY <1>3 DEF DiskOK, FileNames
<1>5. disk'.tables \in SUBSET TableRow
  BY <1>2, <1>3 DEF DiskOK, TableRow
<1>6. Listed(t)'
  <2>1. [id |-> id, name |-> t] \in disk'.tables /\ [id |-> id, name |-> t].name = t
    BY <1>3
  <2> QED BY <2>1 DEF Listed, RowsOf
<1> QED BY <1>3, <1>4, <1>5, <1>6 DEF DiskOK

LEMMA DeletionLeaves ==
  ASSUME DiskOK, cut = {}, TableNames \cap IndexFiles = {},
         NEW t \in TableNames, deleteTable(t), UNCHANGED cut
  PROVE  /\ DiskOK'
         /\ disk'.files \cap TableNames = (disk.files \cap TableNames) \ {t}
         /\ \A u \in TableNames \ {t} : Listed(u) => Listed(u)'
<1>1. PICK r \in RowsOf(t) :
        LET rows    == ColumnsOf(r.id)
            indexes == {IndexFile[<<t, a>>] : a \in Attrs(t)}
        IN  Write("deleteTable", Without(Struck(r, rows), indexes \cup {t}),
                  {Struck(r, R) : R \in SomeOf(rows)}
                    \cup {Without(Struck(r, rows), F) : F \in SUBSET indexes})
  BY DEF deleteTable
<1> DEFINE rows    == ColumnsOf(r.id)
           indexes == {IndexFile[<<t, a>>] : a \in Attrs(t)}
<1>2. indexes \subseteq IndexFiles
  BY DEF IndexFiles, Attrs
<1>3. disk' = Without(Struck(r, rows), indexes \cup {t})
  BY <1>1 DEF Write
<1> HIDE DEF rows, indexes
<1>4. /\ disk'.files = disk.files \ (indexes \cup {t})
      /\ disk'.tables = disk.tables \ {r}
  <2>1. "Tables" \notin indexes \cup {t} /\ "Columns" \notin indexes \cup {t}
    BY <1>2, NamesAssumption DEF CatalogFiles
  <2> QED BY <1>3, <2>1 DEF Without, Struck
<1>5. disk'.files \cap TableNames = (disk.files \cap TableNames) \ {t}
  BY <1>2, <1>4
<1>6. DiskOK'
  BY <1>4 DEF DiskOK
<1>7. ASSUME NEW u \in TableNames \ {t}, Listed(u) PROVE Listed(u)'
  BY <1>4, <1>7 DEF Listed, RowsOf
<1> QED BY <1>5, <1>6, <1>7

LEMMA CreatePartitionKeeps ==
  ASSUME JoinNames, JoinInputsOK, GHInv, NEW j \in Joins, CreatePartition(j)
  PROVE  GHInv'
<1>1. PICK was : was = joins[j]
  OBVIOUS
<1>2. /\ was \in JoinState /\ was.phase = "alive" /\ Progress(was) /\ OwnNames(was)
      /\ (~was.clash => Kept(was, j) /\ Collected(was, j))
      /\ was.id \in Nat /\ was.id < nextJoinId /\ nextJoinId \in Nat
  BY <1>1, Moment DEF CreatePartition, Serves, Active, JoinState
<1>3. /\ Len(was.partitionTables) \in Nat /\ numPartitions \in Nat /\ numPartitions > 0
      /\ Len(was.partitionTables) < 2 * numPartitions
      /\ was.partitionTables \in Seq(TableNames)
  BY <1>1, <1>2 DEF JoinState, JoinInputsOK, CreatePartition
<1> DEFINE k == Len(was.partitionTables) + 1
           name == PartNames(was.id)[k]
           free == ~Listed(name) /\ name \notin disk.files
           clash == was.clash \/ ~free
<1>4. PICK u \in Side, l \in Parts : name = PartName(u, was.id, l)
  <2>1. k \in 1..2 * numPartitions
    BY <1>3
  <2> QED BY <1>2, <2>1, PartNamesAre
<1>5. name \in TableNames
  BY <1>2, <1>4 DEF JoinNames
<1> HIDE DEF name
<1> PICK now : now = [was EXCEPT !.partitionTables = Append(was.partitionTables, name),
                                 !.clash = clash]
  OBVIOUS
<1>6. now \in JoinState
  <2>1. clash \in BOOLEAN /\ Append(was.partitionTables, name) \in Seq(TableNames)
    BY <1>2, <1>3, <1>5 DEF JoinState
  <2> HIDE DEF clash
  <2> QED BY <1>2, <2>1 DEF JoinState
<1>7. joins' = [joins EXCEPT ![j] = now]
  BY <1>1 DEF CreatePartition, GHInv, GHTypeOK, JoinState, name
<1>8. /\ now.phase = "alive" /\ now.id = was.id
      /\ now.partitionTables = Append(was.partitionTables, name)
      /\ now.left = was.left /\ now.right = was.right
      /\ now.leftRead = was.leftRead /\ now.rightRead = was.rightRead
      /\ now.clash = (was.clash \/ ~free) /\ now.ended = was.ended
      /\ now.currentPart = was.currentPart /\ now.output = was.output /\ now.given = was.given
  BY <1>2 DEF JoinState
<1>9. /\ cut' = cut /\ cut = {} /\ contents' = contents /\ nextJoinId' = nextJoinId
      /\ IF free THEN createTable(name, AttrNames) ELSE UNCHANGED disk
      /\ DiskOK
  BY <1>1 DEF CreatePartition, name, GHInv, GHTypeOK, DiskOK
<1>10. /\ DiskOK' /\ disk.files \subseteq disk'.files
       /\ disk'.files \subseteq disk.files \cup {name}
       /\ disk.tables \subseteq disk'.tables
       /\ name \in disk'.files \/ ~free
       /\ name \in disk'.files \ disk.files => Listed(name)'
  BY <1>5, <1>9, CreationLeaves DEF DiskOK
<1>11. FilesInOrder'
  BY <1>9, <1>10 DEF GHInv, FilesInOrder, Listed, RowsOf
<1> HIDE DEF free
<1>12. /\ DOMAIN was.partitionTables = 1..Len(was.partitionTables)
       /\ DOMAIN now.partitionTables = 1..k /\ Len(now.partitionTables) = k
       /\ \A i \in 1..Len(was.partitionTables) : now.partitionTables[i] = was.partitionTables[i]
       /\ now.partitionTables[k] = name
  BY <1>3, <1>5, <1>8
<1>13. Range(now.partitionTables) = Range(was.partitionTables) \cup {name}
  BY <1>3, <1>12 DEF Range
<1>14. /\ was.leftRead = 0 /\ was.rightRead = 0 /\ was.currentPart = 0 /\ ~was.ended
  BY <1>3, <1>2 DEF Progress, Partitioned, Partitioning
<1>15. Progress(now)
  <2>1. \A i \in 1..Len(now.partitionTables) : now.partitionTables[i] = PartNames(now.id)[i]
    BY <1>2, <1>3, <1>8, <1>12 DEF Progress, name
  <2> QED BY <1>2, <1>3, <1>8, <1>12, <1>14, <2>1 DEF Progress
<1>16. ASSUME ~now.clash PROVE Kept(now, j)' /\ Collected(now, j)
  <2>1. free /\ ~was.clash /\ Kept(was, j) /\ Collected(was, j)
    BY <1>2, <1>8, <1>16
  <2>2. \A s, i : Stored(now, j, s, i) = Stored(was, j, s, i) /\ Stored(was, j, s, i) = {}
    BY <1>8, <1>14 DEF Stored
  <2>3. \A i : PairsOf(now, j, i) = PairsOf(was, j, i)
    BY <1>8, PairsStay, ZenonT(60)
  <2>4. Collected(now, j)
    <3>1. now.given = was.given /\ now.output = was.output /\ now.currentPart = was.currentPart
      BY <1>8
    <3>2. Collected(was, j)
      BY <2>1
    <3> QED BY <2>3, <3>1, <3>2, Zenon DEF Collected
  <2>5. contents[name] = {} /\ name \in disk'.files
    BY <1>5, <1>10, <2>1 DEF GHInv, FilesInOrder, free
  <2>6. ASSUME NEW s \in Side, NEW i \in Parts,
               PartName(s, now.id, i) \in Range(now.partitionTables)
        PROVE  /\ PartName(s, now.id, i) \in disk'.files
               /\ contents'[PartName(s, now.id, i)] = Stored(now, j, s, i)
    <3>1. CASE PartName(s, now.id, i) = name
      BY <1>9, <2>2, <2>5, <3>1
    <3>2. CASE PartName(s, now.id, i) \in Range(was.partitionTables)
      BY <1>8, <1>9, <1>10, <2>1, <2>2, <3>2 DEF Kept
    <3> QED BY <1>13, <2>6, <3>1, <3>2
  <2>7. Kept(now, j)'
    BY <2>6 DEF Kept
  <2> QED BY <2>4, <2>7
<1>17. Serves(now, j)'
  BY <1>8, <1>15, <1>16 DEF Serves, Active
<1>18. OwnNames(now)
  BY <1>2, <1>4, <1>8, <1>13 DEF OwnNames
<1>19. \A t \in TableNames :
        ~(\E s \in Side, i \in Parts : t = PartName(s, joins[j].id, i) /\ Active(joins[j])) =>
          /\ contents'[t] = contents[t]
          /\ t \in disk'.files <=> t \in disk.files
  BY <1>1, <1>2, <1>4, <1>9, <1>10 DEF Active
<1>20. \A t \in TableNames \cap disk'.files :
         \/ t \in Range(now.partitionTables)
         \/ t \in disk.files /\ t \notin Range(joins[j].partitionTables)
  BY <1>1, <1>10, <1>13
<1>21. /\ DiskOK'
       /\ contents' \in [TableNames -> SUBSET Tuple] /\ cut' = cut
       /\ nextJoinId' \in Nat /\ nextJoinId <= nextJoinId'
  BY <1>2, <1>9, <1>10 DEF GHInv, GHTypeOK, DiskOK
<1>22. Active(now) => /\ OwnNames(now) /\ now.id < nextJoinId'
                      /\ (Active(joins[j]) /\ now.id = joins[j].id) \/ now.id = nextJoinId
  BY <1>1, <1>2, <1>8, <1>9, <1>18 DEF Active
<1> QED BY <1>6, <1>7, <1>11, <1>17, <1>19, <1>20, <1>21, <1>22, StepOfOne

\* Keys and positions a join reads.
LEMMA KeyRead ==
  ASSUME NEW input \in Input, NEW i \in 1..Len(input)
  PROVE  input[i] \in Keys \cup {NULL}
BY DEF Input

\* A tuple is inserted into the table of its partition.
LEMMA InsertKeeps ==
  ASSUME JoinNames, JoinInputsOK, GHInv, NEW j \in Joins, NEW was, was = joins[j],
         NEW now \in JoinState, NEW side \in Side, NEW i \in Nat,
         Partitioning(was), Insert(was, j, side, i, IF side = "left" THEN was.left[i] ELSE was.right[i]),
         joins' = [joins EXCEPT ![j] = now], UNCHANGED <<vars, nextJoinId>>,
         now.phase = "alive", now.id = was.id, now.partitionTables = was.partitionTables,
         now.left = was.left, now.right = was.right, now.output = was.output,
         now.given = was.given, now.currentPart = was.currentPart, now.clash = was.clash,
         was.currentPart = 0,
         side = "left" => /\ i = was.leftRead + 1 /\ i <= Len(was.left)
                          /\ now.leftRead = i /\ now.rightRead = was.rightRead,
         side = "right" => /\ i = was.rightRead + 1 /\ i <= Len(was.right)
                           /\ now.rightRead = i /\ now.leftRead = was.leftRead,
         Progress(now)
  PROVE  GHInv'
<1> DEFINE key == IF side = "left" THEN was.left[i] ELSE was.right[i]
           p == partitionIndex(key)
           table == PartName(side, was.id, p)
           x == [join |-> j, pos |-> i, key |-> key]
           taken == key # NULL /\ Open(table)
<1>1. /\ was \in JoinState /\ was.phase = "alive" /\ Progress(was) /\ OwnNames(was)
      /\ (~was.clash => Kept(was, j) /\ Collected(was, j))
      /\ was.id \in Nat /\ was.id < nextJoinId /\ nextJoinId \in Nat
      /\ was.leftRead \in Nat /\ was.rightRead \in Nat
      /\ was.left \in Input /\ was.right \in Input
      /\ i # 0
  BY Moment DEF Partitioning, Serves, Active, JoinState, Side
<1>2. key \in Keys \cup {NULL}
  BY <1>1, KeyRead DEF Side
<1>3. key # NULL => p \in Parts /\ table \in TableNames /\ table \in Range(was.partitionTables)
                    /\ x \in Tuple
  BY <1>1, <1>2, PartitionIndexType, TablesNamed DEF JoinNames, Tuple
<1>4. /\ disk' = disk /\ cut' = cut /\ nextJoinId' = nextJoinId
      /\ contents' = IF taken THEN [contents EXCEPT ![table] = @ \cup {x}] ELSE contents
      /\ contents \in [TableNames -> SUBSET Tuple]
  BY DEF vars, Insert, GHInv, GHTypeOK
<1> HIDE DEF key, p, table, x
<1>5. /\ contents' \in [TableNames -> SUBSET Tuple]
      /\ \A t \in TableNames : contents'[t] = IF taken /\ t = table THEN contents[t] \cup {x}
                                              ELSE contents[t]
  BY <1>3, <1>4
<1>6. taken => table \in disk.files
  BY DEF Open
<1>7. FilesInOrder'
  BY <1>4, <1>5, <1>6 DEF GHInv, FilesInOrder, Listed, RowsOf
<1>8. \A s \in Side, l \in Parts :
        Stored(now, j, s, l) = IF s = side /\ key # NULL /\ l = p
                               THEN Stored(was, j, s, l) \cup {x} ELSE Stored(was, j, s, l)
  <2> SUFFICES ASSUME NEW s \in Side, NEW l \in Parts, NEW y \in Tuple
               PROVE  y \in Stored(now, j, s, l) <=>
                        \/ y \in Stored(was, j, s, l)
                        \/ s = side /\ key # NULL /\ l = p /\ y = x
    BY <1>3 DEF Stored
  <2>1. CASE s # side
    BY <2>1 DEF Stored, Side
  <2>2. CASE s = side
    <3>1. key # NULL => x.join = j /\ x.pos = i /\ x.key = key /\ p = partitionIndex(key)
      BY DEF x, p
    <3>2. y = [join |-> y.join, pos |-> y.pos, key |-> y.key] /\ y.key \in Keys /\ y.pos \in Nat
      BY DEF Tuple
    <3>3. y.key # NULL
      BY <3>2 DEF JoinInputsOK
    <3>4. y = x <=> y.join = j /\ y.pos = i /\ y.key = key
      BY <3>2 DEF x
    <3>5. CASE side = "left"
      <4>1. key = was.left[i] /\ i = was.leftRead + 1
        BY <3>5 DEF key
      <4>2. y.pos \in 1..i <=> y.pos \in 1..was.leftRead \/ y.pos = i
        BY <1>1, <3>2, <4>1
      <4> QED BY <2>2, <3>1, <3>3, <3>4, <3>5, <4>1, <4>2 DEF Stored
    <3>6. CASE side = "right"
      <4>1. key = was.right[i] /\ i = was.rightRead + 1
        BY <3>6 DEF key
      <4>2. y.pos \in 1..i <=> y.pos \in 1..was.rightRead \/ y.pos = i
        BY <1>1, <3>2, <4>1
      <4> QED BY <2>2, <3>1, <3>3, <3>4, <3>6, <4>1, <4>2 DEF Stored
    <3> QED BY <3>5, <3>6 DEF Side
  <2> QED BY <2>1, <2>2
<1>9. ASSUME ~now.clash PROVE Kept(now, j)' /\ Collected(now, j)
  <2>1. Kept(was, j) /\ Collected(was, j) /\ now.currentPart = 0
    BY <1>1, <1>9
  <2>2. 0..now.currentPart - 1 = {} /\ 0..was.currentPart - 1 = {}
    BY <2>1
  <2>3. Collected(now, j)
    <3>1. now.given = was.given /\ now.output = was.output
      OBVIOUS
    <3> QED BY <2>1, <2>2, <3>1 DEF Collected
  <2>4. ASSUME NEW s \in Side, NEW l \in Parts,
               PartName(s, now.id, l) \in Range(now.partitionTables)
        PROVE  /\ PartName(s, now.id, l) \in disk'.files
               /\ contents'[PartName(s, now.id, l)] = Stored(now, j, s, l)
    <3> DEFINE t == PartName(s, was.id, l)
    <3>1. t \in disk.files /\ contents[t] = Stored(was, j, s, l) /\ t \in TableNames
      BY <1>1, <2>1, <2>4 DEF Kept, JoinNames
    <3>2. Open(t)
      BY <3>1 DEF GHInv, FilesInOrder, Open
    <3>3. key # NULL => (t = table <=> s = side /\ l = p)
      BY <1>1, <1>3 DEF JoinNames, table
    <3>4. taken /\ t = table <=> key # NULL /\ s = side /\ l = p
      BY <3>2, <3>3
    <3> QED BY <1>4, <1>5, <1>8, <3>1, <3>4
  <2>5. Kept(now, j)'
    BY <2>4 DEF Kept
  <2> QED BY <2>3, <2>5
<1>10. Serves(now, j)'
  BY <1>9 DEF Serves, Active
<1>11. \A t \in TableNames :
        ~(\E s \in Side, l \in Parts : t = PartName(s, joins[j].id, l) /\ Active(joins[j])) =>
          /\ contents'[t] = contents[t]
          /\ t \in disk'.files <=> t \in disk.files
  BY <1>1, <1>3, <1>4, <1>5 DEF Active, table
<1>12. \A t \in TableNames \cap disk'.files :
         \/ t \in Range(now.partitionTables)
         \/ t \in disk.files /\ t \notin Range(joins[j].partitionTables)
  BY <1>4
<1>13. /\ DiskOK'
       /\ cut' = cut /\ nextJoinId' \in Nat /\ nextJoinId <= nextJoinId'
  BY <1>1, <1>4 DEF GHInv, GHTypeOK, DiskOK
<1>14. Active(now) => /\ OwnNames(now) /\ now.id < nextJoinId'
                      /\ (Active(joins[j]) /\ now.id = joins[j].id) \/ now.id = nextJoinId
  BY <1>1, <1>4 DEF Active, OwnNames
<1> QED BY <1>5, <1>7, <1>10, <1>11, <1>12, <1>13, <1>14, StepOfOne

LEMMA PartitionLeftKeeps ==
  ASSUME JoinNames, JoinInputsOK, GHInv, NEW j \in Joins, PartitionLeft(j)
  PROVE  GHInv'
<1>1. PICK was : was = joins[j]
  OBVIOUS
<1> DEFINE i == was.leftRead + 1
<1>2. PICK now : now = [was EXCEPT !.leftRead = i]
  OBVIOUS
<1>3. /\ was \in JoinState /\ was.phase = "alive" /\ Partitioning(was) /\ Progress(was)
      /\ i <= Len(was.left)
      /\ was.leftRead \in Nat /\ was.rightRead \in Nat /\ i \in Nat
      /\ Len(was.left) \in Nat /\ Len(was.right) \in Nat
  <2>1. Partitioning(was) /\ i <= Len(was.left)
    BY <1>1 DEF PartitionLeft
  <2>2. was \in JoinState /\ was.phase = "alive" /\ Progress(was)
    BY <1>1, <2>1, Moment DEF Partitioning, Serves
  <2>3. was.leftRead \in Nat /\ was.rightRead \in Nat /\ was.left \in Input /\ was.right \in Input
    BY <2>2 DEF JoinState
  <2> QED BY <2>1, <2>2, <2>3 DEF Input
<1>4. now \in JoinState
  BY <1>2, <1>3 DEF JoinState
<1>5. /\ now.phase = "alive" /\ now.id = was.id /\ now.partitionTables = was.partitionTables
      /\ now.left = was.left /\ now.right = was.right /\ now.output = was.output
      /\ now.given = was.given /\ now.currentPart = was.currentPart /\ now.clash = was.clash
      /\ now.ended = was.ended /\ now.leftRead = i /\ now.rightRead = was.rightRead
  BY <1>2, <1>3 DEF JoinState
<1>6. was.currentPart = 0
  BY <1>3 DEF Progress, Partitioned
<1>7. Progress(now)
  BY <1>3, <1>5, <1>6 DEF Progress, Partitioned, Partitioning, JoinInputsOK
<1>8. /\ joins' = [joins EXCEPT ![j] = now] /\ UNCHANGED <<vars, nextJoinId>>
      /\ Insert(was, j, "left", i, was.left[i])
  BY <1>1, <1>2 DEF PartitionLeft, GHInv, GHTypeOK, JoinState
<1>9. Insert(was, j, "left", i, IF "left" = "left" THEN was.left[i] ELSE was.right[i])
  BY <1>8
<1> QED BY <1>1, <1>3, <1>4, <1>5, <1>6, <1>7, <1>8, <1>9, InsertKeeps DEF Side

LEMMA PartitionRightKeeps ==
  ASSUME JoinNames, JoinInputsOK, GHInv, NEW j \in Joins, PartitionRight(j)
  PROVE  GHInv'
<1>1. PICK was : was = joins[j]
  OBVIOUS
<1> DEFINE i == was.rightRead + 1
<1>2. PICK now : now = [was EXCEPT !.rightRead = i]
  OBVIOUS
<1>3. /\ was \in JoinState /\ was.phase = "alive" /\ Partitioning(was) /\ Progress(was)
      /\ i <= Len(was.right) /\ was.leftRead = Len(was.left)
      /\ was.leftRead \in Nat /\ was.rightRead \in Nat /\ i \in Nat
      /\ Len(was.left) \in Nat /\ Len(was.right) \in Nat
  <2>1. Partitioning(was) /\ i <= Len(was.right) /\ was.leftRead = Len(was.left)
    BY <1>1 DEF PartitionRight
  <2>2. was \in JoinState /\ was.phase = "alive" /\ Progress(was)
    BY <1>1, <2>1, Moment DEF Partitioning, Serves
  <2>3. was.leftRead \in Nat /\ was.rightRead \in Nat /\ was.left \in Input /\ was.right \in Input
    BY <2>2 DEF JoinState
  <2> QED BY <2>1, <2>2, <2>3 DEF Input
<1>4. now \in JoinState
  BY <1>2, <1>3 DEF JoinState
<1>5. /\ now.phase = "alive" /\ now.id = was.id /\ now.partitionTables = was.partitionTables
      /\ now.left = was.left /\ now.right = was.right /\ now.output = was.output
      /\ now.given = was.given /\ now.currentPart = was.currentPart /\ now.clash = was.clash
      /\ now.ended = was.ended /\ now.rightRead = i /\ now.leftRead = was.leftRead
  BY <1>2, <1>3 DEF JoinState
<1>6. was.currentPart = 0
  BY <1>3 DEF Progress, Partitioned
<1>7. Progress(now)
  BY <1>3, <1>5, <1>6 DEF Progress, Partitioned, Partitioning, JoinInputsOK
<1>8. /\ joins' = [joins EXCEPT ![j] = now] /\ UNCHANGED <<vars, nextJoinId>>
      /\ Insert(was, j, "right", i, was.right[i])
  BY <1>1, <1>2 DEF PartitionRight, GHInv, GHTypeOK, JoinState
<1>9. Insert(was, j, "right", i, IF "right" = "left" THEN was.left[i] ELSE was.right[i])
  BY <1>8
<1> QED BY <1>1, <1>3, <1>4, <1>5, <1>6, <1>7, <1>8, <1>9, InsertKeeps DEF Side

LEMMA DeleteNextKeeps ==
  ASSUME JoinNames, JoinInputsOK, GHInv, NEW j \in Joins, DeleteNext(j)
  PROVE  GHInv'
<1>1. PICK was : was = joins[j]
  OBVIOUS
<1> DEFINE name == Head(was.partitionTables)
<1>2. PICK now : now = [was EXCEPT !.phase = "dying", !.partitionTables = Tail(was.partitionTables)]
  OBVIOUS
<1>3. /\ was \in JoinState /\ Serves(was, j) /\ Active(was) /\ OwnNames(was)
      /\ Destroying(was) /\ was.partitionTables # << >>
      /\ was.id < nextJoinId /\ nextJoinId \in Nat /\ was.id \in Nat
  BY <1>1, Moment DEF DeleteNext, Destroying, Active, JoinState
<1>4. /\ was.partitionTables \in Seq(TableNames) /\ name \in TableNames
      /\ Tail(was.partitionTables) \in Seq(TableNames)
      /\ Range(was.partitionTables) = Range(Tail(was.partitionTables)) \cup {name}
  <2>1. was.partitionTables \in Seq(TableNames)
    BY <1>3 DEF JoinState
  <2>2. name \in TableNames /\ Tail(was.partitionTables) \in Seq(TableNames)
    BY <1>3, <2>1
  <2>3. Range(was.partitionTables) = Range(Tail(was.partitionTables)) \cup {name}
    <3> DEFINE q == was.partitionTables
    <3>1. /\ Len(q) \in Nat /\ Len(q) > 0 /\ DOMAIN q = 1..Len(q) /\ name = q[1]
          /\ DOMAIN Tail(q) = 1..Len(q) - 1
          /\ \A k \in 1..Len(q) - 1 : Tail(q)[k] = q[k + 1]
      BY <1>3, <2>1
    <3>2. ASSUME NEW k \in 1..Len(q) PROVE q[k] = name \/ q[k] \in Range(Tail(q))
      <4>1. k = 1 \/ (k - 1 \in 1..Len(q) - 1 /\ q[k] = Tail(q)[k - 1])
        BY <3>1
      <4> QED BY <3>1, <4>1 DEF Range
    <3>3. Range(q) \subseteq Range(Tail(q)) \cup {name}
      BY <3>1, <3>2 DEF Range
    <3>4. ASSUME NEW k \in 1..Len(q) - 1 PROVE Tail(q)[k] \in Range(q)
      <4>1. k + 1 \in DOMAIN q /\ Tail(q)[k] = q[k + 1]
        BY <3>1
      <4> QED BY <4>1 DEF Range
    <3>5. name \in Range(q)
      <4>1. 1 \in DOMAIN q
        BY <3>1
      <4> QED BY <3>1, <4>1 DEF Range
    <3>6. Range(Tail(q)) \subseteq Range(q)
      BY <3>1, <3>4 DEF Range
    <3> QED BY <3>3, <3>5, <3>6
  <2> QED BY <2>1, <2>2, <2>3
<1>5. now \in JoinState
  BY <1>2, <1>3, <1>4 DEF JoinState
<1>6. joins' = [joins EXCEPT ![j] = now]
  BY <1>1, <1>2 DEF DeleteNext, GHInv, GHTypeOK, JoinState
<1>7. /\ now.phase = "dying" /\ now.id = was.id
      /\ now.partitionTables = Tail(was.partitionTables)
      /\ now.left = was.left /\ now.right = was.right /\ now.given = was.given
      /\ now.clash = was.clash /\ now.ended = was.ended
  BY <1>2, <1>3 DEF JoinState
<1>8. /\ cut' = cut /\ cut = {} /\ nextJoinId' = nextJoinId /\ DiskOK
      /\ contents' = [contents EXCEPT ![name] = {}] /\ contents \in [TableNames -> SUBSET Tuple]
      /\ IF Listed(name) THEN deleteTable(name) ELSE UNCHANGED disk
  BY <1>1 DEF DeleteNext, GHInv, GHTypeOK, DiskOK
<1> HIDE DEF name
<1>9. /\ contents' \in [TableNames -> SUBSET Tuple]
      /\ \A t \in TableNames : contents'[t] = IF t = name THEN {} ELSE contents[t]
  BY <1>4, <1>8
<1>10. /\ DiskOK'
       /\ disk'.files \cap TableNames = (disk.files \cap TableNames) \ {name}
       /\ \A t \in TableNames \ {name} : Listed(t) => Listed(t)'
  <2>1. CASE Listed(name)
    BY <1>4, <1>8, <2>1, DeletionLeaves DEF JoinNames
  <2>2. CASE ~Listed(name)
    <3>1. name \notin disk.files
      BY <1>4, <2>2 DEF GHInv, FilesInOrder
    <3> QED BY <1>8, <2>2, <3>1 DEF Listed, RowsOf, DiskOK
  <2> QED BY <2>1, <2>2
<1>11. FilesInOrder'
  <2> SUFFICES ASSUME NEW t \in TableNames
               PROVE  /\ t \in disk'.files => Listed(t)'
                      /\ t \notin disk'.files => contents'[t] = {}
    BY DEF FilesInOrder
  <2> QED BY <1>9, <1>10 DEF GHInv, FilesInOrder
<1>12. Serves(now, j)'
  <2>1. ASSUME ~was.clash PROVE Exact1(was, j)
    BY <1>3, <2>1, FoundIsExact DEF Serves, Active
  <2>2. ~was.clash => Exact1(now, j)
    BY <1>7, <2>1 DEF Exact1, Position, Wanted
  <2> QED BY <1>7, <2>2 DEF Serves, Active
<1>13. \A t \in TableNames :
        ~(\E s \in Side, i \in Parts : t = PartName(s, joins[j].id, i) /\ Active(joins[j])) =>
          /\ contents'[t] = contents[t]
          /\ t \in disk'.files <=> t \in disk.files
  <2>1. \E s \in Side, i \in Parts : name = PartName(s, was.id, i)
    BY <1>3, <1>4 DEF OwnNames
  <2> QED BY <1>1, <1>3, <1>9, <1>10, <2>1
<1>14. \A t \in TableNames \cap disk'.files :
         \/ t \in Range(now.partitionTables)
         \/ t \in disk.files /\ t \notin Range(joins[j].partitionTables)
  BY <1>1, <1>4, <1>7, <1>10
<1>15. OwnNames(now)
  BY <1>3, <1>4, <1>7 DEF OwnNames
<1>16. /\ DiskOK'
       /\ nextJoinId' \in Nat /\ nextJoinId <= nextJoinId'
  BY <1>3, <1>8, <1>10 DEF DiskOK
<1>17. Active(now) => /\ OwnNames(now) /\ now.id < nextJoinId'
                      /\ (Active(joins[j]) /\ now.id = joins[j].id) \/ now.id = nextJoinId
  BY <1>1, <1>3, <1>7, <1>8, <1>15
<1> QED BY <1>5, <1>6, <1>8, <1>9, <1>11, <1>12, <1>13, <1>14, <1>16, <1>17, StepOfOne

-----------------------------------------------------------------------------
\* The invariant holds for any number of joins, partitions and tuples.
THEOREM HashJoinInvariant ==
  ASSUME JoinNames, JoinInputsOK
  PROVE  GHSpec => []GHInv
<1>1. GHInit => GHInv
  <2> SUFFICES ASSUME GHInit PROVE GHInv
    OBVIOUS
  <2>1. \A j \in Joins : joins[j] = Unborn /\ Unborn.phase = "unborn" /\ Unborn.given = << >>
                         /\ Unborn.ended = FALSE
    BY DEF GHInit, Unborn, Idle
  <2>2. Unborn \in JoinState
    <3>1. << >> \in Seq(TableNames)
      OBVIOUS
    <3> QED BY <3>1, IdleJoin DEF Unborn
  <2>3. GHTypeOK
    <3>1. DiskOK
      BY DEF GHInit, DiskOK, FileNames, TableRow, CatalogFiles, CatalogRows
    <3>2. contents \in [TableNames -> SUBSET Tuple] /\ joins \in [Joins -> JoinState]
      BY <2>2 DEF GHInit
    <3> QED BY <3>1, <3>2 DEF GHInit, GHTypeOK
  <2>4. disk.files \cap TableNames = {}
    BY NamesAssumption DEF GHInit
  <2>5. FilesInOrder /\ PartitionsOwned
    BY <2>4 DEF GHInit, FilesInOrder, PartitionsOwned
  <2>6. NumbersApart
    BY <2>1 DEF NumbersApart, Active
  <2>7. JoinsServe
    BY <2>1 DEF JoinsServe, Serves, Active
  <2> QED BY <2>3, <2>5, <2>6, <2>7 DEF GHInv
<1>2. GHInv /\ [GHNext]_ghVars => GHInv'
  <2> SUFFICES ASSUME GHInv, [GHNext]_ghVars PROVE GHInv'
    OBVIOUS
  <2>1. CASE UNCHANGED ghVars
    BY <2>1 DEF ghVars, GHInv, GHTypeOK, FilesInOrder, NumbersApart, PartitionsOwned, JoinsServe,
                Serves, Kept, Listed, RowsOf, OwnNames, DiskOK
  <2>2. CASE Crash
    BY <2>2, CrashKeeps
  <2>3. ASSUME NEW j \in Joins,
               \/ \E in \in Inputs : Construct(j, in[1], in[2])
               \/ CreatePartition(j) \/ PartitionLeft(j) \/ PartitionRight(j)
               \/ probe(j) \/ Fetch(j) \/ End(j)
               \/ DeleteNext(j) \/ Destroyed(j)
        PROVE  GHInv'
    BY <2>3, ConstructKeeps, CreatePartitionKeeps, PartitionLeftKeeps, PartitionRightKeeps,
       probeKeeps, FetchKeeps, EndKeeps, DeleteNextKeeps, DestroyedKeeps
  <2> QED BY <2>1, <2>2, <2>3 DEF GHNext
<1> QED BY <1>1, <1>2, PTL DEF GHSpec

\* Every temporary table belongs to a join that is alive or died with its process.
THEOREM PartitionsAlwaysOwned ==
  ASSUME JoinNames, JoinInputsOK
  PROVE  GHSpec => []PartitionsOwned
<1>1. GHInv => PartitionsOwned
  BY DEF GHInv
<1> QED BY <1>1, HashJoinInvariant, PTL

\* A join that met no table of an earlier process gives its client the matching pairs of
\* its inputs, each once, and no other, whatever joins run beside it.
THEOREM HashJoinIsExact ==
  ASSUME JoinNames, JoinInputsOK
  PROVE  GHSpec => []HashJoinExact
<1>1. GHInv => HashJoinExact
  <2> SUFFICES ASSUME GHInv, NEW j \in Joins, ~joins[j].clash PROVE ExactFor(j)
    BY DEF HashJoinExact
  <2>1. joins[j] \in JoinState /\ Serves(joins[j], j)
    BY Moment
  <2>2. CASE joins[j].phase = "alive"
    BY <2>1, <2>2, FoundIsExact DEF Serves, ExactFor, Exact1, Position
  <2>3. CASE joins[j].phase = "dying"
    BY <2>1, <2>3 DEF Serves, ExactFor, Exact1, Position
  <2>4. CASE ~Active(joins[j])
    <3>1. joins[j].given = << >> /\ ~joins[j].ended
      BY <2>1, <2>4 DEF Serves
    <3>2. DOMAIN joins[j].given = {}
      BY <3>1
    <3> QED BY <3>1, <3>2 DEF ExactFor, IsInjective, Range
  <2> QED BY <2>2, <2>3, <2>4 DEF Active
<1> QED BY <1>1, HashJoinInvariant, PTL
=============================================================================
