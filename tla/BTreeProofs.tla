---------------------------- MODULE BTreeProofs -----------------------------
(***************************************************************************)
(* Proofs that the pages of an index file stay a balanced tree and that    *)
(* none overflows, for every page size, any keys of four bytes, any number *)
(* of pages and any calls.                                                 *)
(*                                                                         *)
(* All pages have levels, those that merges left behind among them: leaves *)
(* are at level 0, and pointers lead one level down (Leveled).  The pages  *)
(* at and below the root form a tree (Tree) whose internal pages have keys *)
(* (Keyed).  Insertion and deletion go down a walk to a leaf and climb     *)
(* back up; Grown says how far the tree has got on the way up from an      *)
(* insertion, Climbed on the way up from a deletion, where the page the    *)
(* climb has come to may be without keys.                                  *)
(***************************************************************************)
EXTENDS BTree, Induction

-----------------------------------------------------------------------------
(* Sequences. *)

LEMMA SubSeqIs ==
  ASSUME NEW S, NEW s \in Seq(S), NEW m \in 1..Len(s) + 1, NEW n \in 0..Len(s), m <= n + 1
  PROVE  /\ SubSeq(s, m, n) \in Seq(S)
         /\ Len(SubSeq(s, m, n)) = n - m + 1
         /\ \A i \in 1..n - m + 1 : SubSeq(s, m, n)[i] = s[m + i - 1]
OBVIOUS

\* A sequence behind another.
LEMMA ConcatIs ==
  ASSUME NEW S, NEW s \in Seq(S), NEW r \in Seq(S)
  PROVE  /\ s \o r \in Seq(S)
         /\ Len(s \o r) = Len(s) + Len(r)
         /\ \A i \in 1..Len(s) : (s \o r)[i] = s[i]
         /\ \A i \in 1..Len(r) : (s \o r)[Len(s) + i] = r[i]
OBVIOUS

\* What is in the sequence.
InSeq(s) == {s[i] : i \in DOMAIN s}

Distinct(s) == \A i, j \in DOMAIN s : s[i] = s[j] => i = j

\* The sequence with x inserted at a position.
LEMMA InsertAtIs ==
  ASSUME NEW S, NEW s \in Seq(S), NEW at \in 1..Len(s) + 1, NEW x \in S
  PROVE  /\ InsertAt(s, at, x) \in Seq(S)
         /\ Len(InsertAt(s, at, x)) = Len(s) + 1
         /\ InsertAt(s, at, x)[at] = x
         /\ \A i \in 1..Len(s) + 1 : /\ i < at => InsertAt(s, at, x)[i] = s[i]
                                     /\ i > at => InsertAt(s, at, x)[i] = s[i - 1]
<1> DEFINE front == SubSeq(s, 1, at - 1)
           back  == SubSeq(s, at, Len(s))
           one   == <<x>>
<1>1. /\ front \in Seq(S) /\ Len(front) = at - 1
      /\ \A i \in 1..at - 1 : front[i] = s[i]
  BY SubSeqIs
<1>2. /\ back \in Seq(S) /\ Len(back) = Len(s) - at + 1
      /\ \A i \in 1..Len(s) - at + 1 : back[i] = s[at + i - 1]
  BY SubSeqIs
<1>3. one \in Seq(S) /\ Len(one) = 1 /\ one[1] = x
  OBVIOUS
<1> HIDE DEF front, back, one
<1>0. Len(s) \in Nat /\ at \in Nat /\ at >= 1 /\ at <= Len(s) + 1
  OBVIOUS
<1>4. /\ front \o one \in Seq(S) /\ Len(front \o one) = at
      /\ \A i \in 1..at - 1 : (front \o one)[i] = s[i]
      /\ (front \o one)[at] = x
  <2>1. (front \o one)[Len(front) + 1] = one[1]
    BY <1>1, <1>3, ConcatIs
  <2>2. /\ front \o one \in Seq(S) /\ Len(front \o one) = Len(front) + Len(one)
        /\ \A i \in 1..Len(front) : (front \o one)[i] = front[i]
    BY <1>1, <1>3, ConcatIs
  <2> QED BY <1>0, <1>1, <1>3, <2>1, <2>2
<1>5. /\ (front \o one) \o back \in Seq(S)
      /\ Len((front \o one) \o back) = Len(s) + 1
      /\ \A i \in 1..at : ((front \o one) \o back)[i] = (front \o one)[i]
      /\ \A i \in 1..Len(s) - at + 1 : ((front \o one) \o back)[at + i] = back[i]
  <2> DEFINE start == front \o one
  <2>3. start \in Seq(S) /\ Len(start) = at
    BY <1>4
  <2> HIDE DEF start
  <2>1. /\ start \o back \in Seq(S) /\ Len(start \o back) = Len(start) + Len(back)
        /\ \A i \in 1..Len(start) : (start \o back)[i] = start[i]
        /\ \A i \in 1..Len(back) : (start \o back)[Len(start) + i] = back[i]
    BY <1>2, <2>3, ConcatIs
  <2> QED BY <1>0, <1>2, <2>1, <2>3 DEF start
<1>6. InsertAt(s, at, x) = (front \o one) \o back
  BY DEF InsertAt, front, one, back
<1>7. ASSUME NEW i \in 1..Len(s) + 1, i > at
      PROVE  ((front \o one) \o back)[i] = s[i - 1]
  <2>1. i - at \in 1..Len(s) - at + 1 /\ at + (i - at) = i
    BY <1>0, <1>7
  <2>2. back[i - at] = s[at + (i - at) - 1]
    BY <1>2, <2>1
  <2> QED BY <1>5, <2>1, <2>2
<1> QED BY <1>4, <1>5, <1>6, <1>7

\* The sequence without the element at a position.
LEMMA RemoveAtIs ==
  ASSUME NEW S, NEW s \in Seq(S), NEW at \in 1..Len(s)
  PROVE  /\ RemoveAt(s, at) \in Seq(S)
         /\ Len(RemoveAt(s, at)) = Len(s) - 1
         /\ \A i \in 1..Len(s) - 1 : RemoveAt(s, at)[i] = IF i < at THEN s[i] ELSE s[i + 1]
<1> DEFINE front == SubSeq(s, 1, at - 1)
           back  == SubSeq(s, at + 1, Len(s))
<1>1. /\ front \in Seq(S) /\ Len(front) = at - 1
      /\ \A i \in 1..at - 1 : front[i] = s[i]
  BY SubSeqIs
<1>2. /\ back \in Seq(S) /\ Len(back) = Len(s) - at
      /\ \A i \in 1..Len(s) - at : back[i] = s[at + i]
  <2>1. at + 1 \in 1..Len(s) + 1 /\ Len(s) \in 0..Len(s) /\ at + 1 <= Len(s) + 1
    OBVIOUS
  <2>2. /\ back \in Seq(S) /\ Len(back) = Len(s) - (at + 1) + 1
        /\ \A i \in 1..Len(s) - (at + 1) + 1 : back[i] = s[(at + 1) + i - 1]
    BY <2>1, SubSeqIs
  <2> QED BY <2>2
<1> HIDE DEF front, back
<1>0. Len(s) \in Nat /\ at \in Nat /\ at >= 1 /\ at <= Len(s)
  OBVIOUS
<1>3. /\ front \o back \in Seq(S)
      /\ Len(front \o back) = Len(s) - 1
      /\ \A i \in 1..at - 1 : (front \o back)[i] = front[i]
      /\ \A i \in 1..Len(s) - at : (front \o back)[at - 1 + i] = back[i]
  BY <1>1, <1>2, ConcatIs
<1>4. RemoveAt(s, at) = front \o back
  BY DEF RemoveAt, front, back
<1>5. ASSUME NEW i \in 1..Len(s) - 1, i >= at
      PROVE  (front \o back)[i] = s[i + 1]
  <2>1. i - at + 1 \in 1..Len(s) - at /\ at - 1 + (i - at + 1) = i /\ at + (i - at + 1) = i + 1
    BY <1>0, <1>5
  <2>2. back[i - at + 1] = s[at + (i - at + 1)]
    BY <1>2, <2>1
  <2> QED BY <1>3, <2>1, <2>2
<1> QED BY <1>1, <1>3, <1>4, <1>5

\* What a sequence becomes when an element is added or removed at an end.
IsCons(v, x, s) == /\ Len(v) = Len(s) + 1 /\ v[1] = x
                   /\ \A i \in 1..Len(s) : v[i + 1] = s[i]

IsAppend(v, s, x) == /\ Len(v) = Len(s) + 1 /\ v[Len(s) + 1] = x
                     /\ \A i \in 1..Len(s) : v[i] = s[i]

IsFront(v, s) == Len(v) = Len(s) - 1 /\ \A i \in 1..Len(s) - 1 : v[i] = s[i]

IsTail(v, s) == Len(v) = Len(s) - 1 /\ \A i \in 1..Len(s) - 1 : v[i] = s[i + 1]

\* Cons, Append, Front and Tail are as their names above say.
LEMMA ConsIs ==
  \A S : \A x \in S, s \in Seq(S) : <<x>> \o s \in Seq(S) /\ IsCons(<<x>> \o s, x, s)
<1> SUFFICES ASSUME NEW S, NEW x \in S, NEW s \in Seq(S)
             PROVE  <<x>> \o s \in Seq(S) /\ IsCons(<<x>> \o s, x, s)
  OBVIOUS
<1> DEFINE one == <<x>>
<1>1. one \in Seq(S) /\ Len(one) = 1 /\ one[1] = x
  OBVIOUS
<1> HIDE DEF one
<1>2. /\ one \o s \in Seq(S) /\ Len(one \o s) = Len(one) + Len(s)
      /\ \A i \in 1..Len(one) : (one \o s)[i] = one[i]
      /\ \A i \in 1..Len(s) : (one \o s)[Len(one) + i] = s[i]
  BY <1>1, ConcatIs
<1>3. one \o s \in Seq(S) /\ IsCons(one \o s, x, s)
  BY <1>1, <1>2 DEF IsCons
<1> QED BY <1>3 DEF one

LEMMA AppendIs ==
  \A S : \A x \in S, s \in Seq(S) : Append(s, x) \in Seq(S) /\ IsAppend(Append(s, x), s, x)
BY DEF IsAppend

LEMMA FrontIs ==
  \A S : \A s \in Seq(S) : s # << >> =>
     /\ Front(s) \in Seq(S) /\ IsFront(Front(s), s)
     /\ Last(s) = s[Len(s)] /\ Last(s) \in S /\ Len(s) > 0
<1> SUFFICES ASSUME NEW S, NEW s \in Seq(S), s # << >>
             PROVE  /\ Front(s) \in Seq(S) /\ IsFront(Front(s), s)
                    /\ Last(s) = s[Len(s)] /\ Last(s) \in S /\ Len(s) > 0
  OBVIOUS
<1>1. Len(s) \in Nat /\ Len(s) > 0
  OBVIOUS
<1>2. 1 \in 1..Len(s) + 1 /\ Len(s) - 1 \in 0..Len(s) /\ 1 <= (Len(s) - 1) + 1
  BY <1>1
<1>3. /\ SubSeq(s, 1, Len(s) - 1) \in Seq(S)
      /\ Len(SubSeq(s, 1, Len(s) - 1)) = (Len(s) - 1) - 1 + 1
      /\ \A i \in 1..(Len(s) - 1) - 1 + 1 : SubSeq(s, 1, Len(s) - 1)[i] = s[1 + i - 1]
  BY <1>2, SubSeqIs
<1>4. Front(s) \in Seq(S) /\ IsFront(Front(s), s)
  BY <1>1, <1>3 DEF Front, IsFront
<1>5. Last(s) = s[Len(s)] /\ Last(s) \in S
  BY <1>1 DEF Last
<1> QED BY <1>1, <1>4, <1>5

LEMMA TailIs ==
  \A S : \A s \in Seq(S) : s # << >> =>
     /\ Tail(s) \in Seq(S) /\ IsTail(Tail(s), s)
     /\ Head(s) = s[1] /\ Head(s) \in S /\ Len(s) > 0
BY DEF IsTail

\* What the members of a changed sequence are.
LEMMA InsertedIs ==
  ASSUME NEW S, NEW s \in Seq(S), NEW at \in 1..Len(s) + 1, NEW x \in S, Distinct(s),
         x \notin InSeq(s)
  PROVE  /\ InSeq(InsertAt(s, at, x)) = InSeq(s) \cup {x}
         /\ Distinct(InsertAt(s, at, x))
<1> DEFINE r == InsertAt(s, at, x)
<1>1. /\ r \in Seq(S) /\ Len(r) = Len(s) + 1
      /\ r[at] = x
      /\ \A i \in 1..Len(s) + 1 : (i < at => r[i] = s[i]) /\ (i > at => r[i] = s[i - 1])
  BY InsertAtIs
<1> HIDE DEF r
<1>2. DOMAIN r = 1..Len(s) + 1 /\ DOMAIN s = 1..Len(s) /\ Len(s) \in Nat
  BY <1>1
<1>3. InSeq(r) \subseteq InSeq(s) \cup {x}
  BY <1>1, <1>2 DEF InSeq
<1>4. ASSUME NEW i \in 1..Len(s) PROVE s[i] \in InSeq(r)
  <2>1. CASE i < at
    BY <1>1, <1>2, <2>1 DEF InSeq
  <2>2. CASE i >= at
    <3>1. r[i + 1] = s[(i + 1) - 1] /\ i + 1 \in 1..Len(s) + 1
      BY <1>1, <1>2, <2>2
    <3> QED BY <1>2, <3>1 DEF InSeq
  <2> QED BY <2>1, <2>2
<1>5. x \in InSeq(r)
  BY <1>1, <1>2 DEF InSeq
<1>6. \A i \in 1..Len(s) : s[i] # x
  BY <1>2 DEF InSeq
<1>7. ASSUME NEW i \in 1..Len(s) + 1, NEW j \in 1..Len(s) + 1, r[i] = r[j]
      PROVE  i = j
  <2>1. i < at => i \in 1..Len(s) /\ r[i] = s[i]
    BY <1>1, <1>2
  <2>2. i > at => i - 1 \in 1..Len(s) /\ r[i] = s[i - 1]
    BY <1>1, <1>2
  <2>3. j < at => j \in 1..Len(s) /\ r[j] = s[j]
    BY <1>1, <1>2
  <2>4. j > at => j - 1 \in 1..Len(s) /\ r[j] = s[j - 1]
    BY <1>1, <1>2
  <2>5. r[at] = x
    BY <1>1, <1>2
  <2> QED BY <1>2, <1>6, <1>7, <2>1, <2>2, <2>3, <2>4, <2>5 DEF Distinct
<1>8. Distinct(r)
  BY <1>2, <1>7 DEF Distinct
<1>9. InSeq(s) \subseteq InSeq(r)
  BY <1>2, <1>4 DEF InSeq
<1> QED BY <1>3, <1>5, <1>8, <1>9 DEF r

\* What a sequence without one of its elements still has, and that it stays free of doubles.
LEMMA RemovedIs ==
  ASSUME NEW S, NEW s \in Seq(S), NEW at \in 1..Len(s), Distinct(s)
  PROVE  /\ InSeq(RemoveAt(s, at)) = InSeq(s) \ {s[at]}
         /\ Distinct(RemoveAt(s, at))
<1> DEFINE r == RemoveAt(s, at)
<1>1. /\ r \in Seq(S) /\ Len(r) = Len(s) - 1
      /\ \A i \in 1..Len(s) - 1 : r[i] = IF i < at THEN s[i] ELSE s[i + 1]
  BY RemoveAtIs
<1> HIDE DEF r
<1>2. DOMAIN r = 1..Len(s) - 1 /\ DOMAIN s = 1..Len(s) /\ Len(s) \in Nat
  BY <1>1
<1>3. ASSUME NEW i \in 1..Len(s) - 1
      PROVE  r[i] \in InSeq(s) \ {s[at]}
  BY <1>1, <1>2, SMTT(30) DEF InSeq, Distinct
<1>4. ASSUME NEW i \in 1..Len(s), i # at PROVE s[i] \in InSeq(r)
  <2>1. CASE i < at
    BY <1>1, <1>2, <2>1 DEF InSeq
  <2>2. CASE i > at
    <3>1. r[i - 1] = s[(i - 1) + 1] /\ i - 1 \in 1..Len(s) - 1
      BY <1>1, <1>2, <2>2
    <3> QED BY <1>2, <3>1 DEF InSeq
  <2> QED BY <1>4, <2>1, <2>2
<1>5. ASSUME NEW i \in 1..Len(s) - 1, NEW j \in 1..Len(s) - 1, r[i] = r[j]
      PROVE  i = j
  <2>1. \A k \in 1..Len(s) - 1 : /\ k < at => k \in 1..Len(s) /\ r[k] = s[k]
                                 /\ k >= at => k + 1 \in 1..Len(s) /\ r[k] = s[k + 1]
    BY <1>1, <1>2
  <2> QED BY <1>2, <1>5, <2>1 DEF Distinct
<1>6. InSeq(r) \subseteq InSeq(s) \ {s[at]}
  BY <1>2, <1>3 DEF InSeq
<1>7. InSeq(s) \ {s[at]} \subseteq InSeq(r)
  BY <1>2, <1>4 DEF InSeq
<1> QED BY <1>2, <1>5, <1>6, <1>7 DEF Distinct, r

\* The parts of a sequence without doubles have none, and none in common.
LEMMA CutIs ==
  ASSUME NEW S, NEW s \in Seq(S), NEW m \in 0..Len(s), Distinct(s)
  PROVE  LET a == SubSeq(s, 1, m)
             b == SubSeq(s, m + 1, Len(s))
         IN  /\ Distinct(a) /\ Distinct(b)
             /\ InSeq(a) \cup InSeq(b) = InSeq(s)
             /\ InSeq(a) \cap InSeq(b) = {}
<1> DEFINE a == SubSeq(s, 1, m)
           b == SubSeq(s, m + 1, Len(s))
<1>1. /\ a \in Seq(S) /\ Len(a) = m
      /\ \A i \in 1..m : a[i] = s[i]
  BY SubSeqIs
<1>2. /\ b \in Seq(S) /\ Len(b) = Len(s) - m
      /\ \A i \in 1..Len(s) - m : b[i] = s[m + i]
  <2>1. m + 1 \in 1..Len(s) + 1 /\ Len(s) \in 0..Len(s) /\ m + 1 <= Len(s) + 1
    OBVIOUS
  <2>2. /\ b \in Seq(S) /\ Len(b) = Len(s) - (m + 1) + 1
        /\ \A i \in 1..Len(s) - (m + 1) + 1 : b[i] = s[(m + 1) + i - 1]
    BY <2>1, SubSeqIs
  <2> QED BY <2>2
<1> HIDE DEF a, b
<1>3. /\ DOMAIN a = 1..m /\ DOMAIN b = 1..Len(s) - m /\ DOMAIN s = 1..Len(s)
      /\ Len(s) \in Nat /\ m \in Nat /\ m <= Len(s)
  BY <1>1, <1>2
<1>4. Distinct(a)
  BY <1>1, <1>3 DEF Distinct
<1>5. Distinct(b)
  <2>1. \A i \in 1..Len(s) - m : b[i] = s[m + i] /\ m + i \in 1..Len(s)
    BY <1>2, <1>3
  <2>2. ASSUME NEW i \in 1..Len(s) - m, NEW j \in 1..Len(s) - m, b[i] = b[j] PROVE i = j
    <3>1. m + i = m + j
      BY <1>3, <2>1, <2>2 DEF Distinct
    <3> QED BY <1>3, <3>1
  <2> QED BY <1>3, <2>2 DEF Distinct
<1>9. \A i \in 1..Len(s) - m : m + i \in DOMAIN s /\ b[i] = s[m + i] /\ m + i > m
  <2>1. \A i \in 1..Len(s) - m : m + i \in 1..Len(s) /\ m + i > m
    BY <1>3
  <2> QED BY <1>2, <1>3, <2>1
<1>6. InSeq(a) \subseteq InSeq(s) /\ InSeq(b) \subseteq InSeq(s)
  <2>1. InSeq(a) \subseteq InSeq(s)
    BY <1>1, <1>3 DEF InSeq
  <2>2. InSeq(b) \subseteq InSeq(s)
    BY <1>3, <1>9 DEF InSeq
  <2> QED BY <2>1, <2>2
<1>7. ASSUME NEW i \in 1..Len(s) PROVE s[i] \in InSeq(a) \cup InSeq(b)
  <2>1. CASE i <= m
    BY <1>1, <1>3, <2>1 DEF InSeq
  <2>2. CASE i > m
    <3>1. b[i - m] = s[m + (i - m)] /\ i - m \in 1..Len(s) - m
      BY <1>2, <1>3, <2>2
    <3> QED BY <1>3, <3>1 DEF InSeq
  <2> QED BY <1>3, <2>1, <2>2
<1>8. \A i \in 1..m, j \in 1..Len(s) - m : a[i] # b[j]
  <2> SUFFICES ASSUME NEW i \in 1..m, NEW j \in 1..Len(s) - m, a[i] = b[j] PROVE FALSE
    OBVIOUS
  <2>1. i \in DOMAIN s /\ a[i] = s[i]
    BY <1>1, <1>3
  <2>2. m + j \in DOMAIN s /\ b[j] = s[m + j] /\ m + j > m
    BY <1>9
  <2>3. i = m + j
    BY <2>1, <2>2 DEF Distinct
  <2> QED BY <1>3, <2>2, <2>3
<1> QED BY <1>3, <1>4, <1>5, <1>6, <1>7, <1>8 DEF InSeq, a, b

\* Two such sequences with nothing in common, joined, have none.
LEMMA JoinedIs ==
  ASSUME NEW S, NEW s \in Seq(S), NEW r \in Seq(S), Distinct(s), Distinct(r),
         InSeq(s) \cap InSeq(r) = {}
  PROVE  /\ InSeq(s \o r) = InSeq(s) \cup InSeq(r)
         /\ Distinct(s \o r)
<1> DEFINE a == s \o r
<1>1. /\ a \in Seq(S) /\ Len(a) = Len(s) + Len(r)
      /\ \A i \in 1..Len(s) : a[i] = s[i]
      /\ \A i \in 1..Len(r) : a[Len(s) + i] = r[i]
  BY ConcatIs
<1> HIDE DEF a
<1>2. /\ DOMAIN a = 1..Len(s) + Len(r) /\ DOMAIN s = 1..Len(s) /\ DOMAIN r = 1..Len(r)
      /\ Len(s) \in Nat /\ Len(r) \in Nat
  BY <1>1
<1>3. \A i \in 1..Len(s) + Len(r) :
         /\ i <= Len(s) => i \in 1..Len(s) /\ a[i] = s[i]
         /\ i > Len(s) => i - Len(s) \in 1..Len(r) /\ a[i] = r[i - Len(s)]
  <2> SUFFICES ASSUME NEW i \in 1..Len(s) + Len(r), i > Len(s)
               PROVE  i - Len(s) \in 1..Len(r) /\ a[i] = r[i - Len(s)]
    BY <1>1, <1>2
  <2>1. i - Len(s) \in 1..Len(r) /\ Len(s) + (i - Len(s)) = i
    BY <1>2
  <2> QED BY <1>1, <2>1
<1>4. InSeq(a) \subseteq InSeq(s) \cup InSeq(r)
  BY <1>2, <1>3 DEF InSeq
<1>5. InSeq(s) \subseteq InSeq(a)
  BY <1>1, <1>2 DEF InSeq
<1>6. InSeq(r) \subseteq InSeq(a)
  <2>1. \A i \in 1..Len(r) : Len(s) + i \in DOMAIN a
    BY <1>2
  <2> QED BY <1>1, <1>2, <2>1 DEF InSeq
<1>7. \A i \in 1..Len(s), j \in 1..Len(r) : s[i] # r[j]
  BY <1>2 DEF InSeq
<1>8. Distinct(a)
  <2> SUFFICES ASSUME NEW i \in 1..Len(s) + Len(r), NEW j \in 1..Len(s) + Len(r), a[i] = a[j]
               PROVE  i = j
    BY <1>2 DEF Distinct
  <2>1. CASE i <= Len(s) /\ j <= Len(s)
    BY <1>2, <1>3, <2>1 DEF Distinct
  <2>2. CASE i > Len(s) /\ j > Len(s)
    <3>1. i - Len(s) = j - Len(s)
      BY <1>2, <1>3, <2>2 DEF Distinct
    <3> QED BY <1>2, <3>1
  <2> QED BY <1>2, <1>3, <1>7, <2>1, <2>2
<1> QED BY <1>4, <1>5, <1>6, <1>8 DEF a
-----------------------------------------------------------------------------
(* Pages and their sizes. *)

\* Keys of four bytes, and pages with room for two entries or separators at least.
NumericKeys == /\ ~VarChar
               /\ \A k \in Keys : KeyLen[k] = 4
               /\ PAGE_SIZE >= 40

\* With keys of four bytes, a sequence of keys is as long as their number says.
LEMMA BytesAre ==
  ASSUME NumericKeys, NEW keys \in Seq(Keys), NEW extra \in Nat
  PROVE  Bytes(keys, extra) = Len(keys) * (4 + extra)
<1> DEFINE n == Len(keys)
           IsSum(f) == f = [i \in 0..n |-> IF i = 0 THEN 0 ELSE f[i - 1] + KeyLen[keys[i]] + extra]
           sum == [i \in 0..n |-> i * (4 + extra)]
<1>1. n \in Nat
  OBVIOUS
<1>2. \A i \in 1..n : KeyLen[keys[i]] = 4
  BY DEF NumericKeys
<1>3. IsSum(sum)
  <2>1. \A i \in 0..n : i # 0 => i - 1 \in 0..n /\ sum[i - 1] = (i - 1) * (4 + extra)
    BY <1>1
  <2>2. \A i \in 0..n : i # 0 => i * (4 + extra) = (i - 1) * (4 + extra) + 4 + extra
    OBVIOUS
  <2>3. \A i \in 0..n : sum[i] = IF i = 0 THEN 0 ELSE sum[i - 1] + KeyLen[keys[i]] + extra
    BY <1>1, <1>2, <2>1, <2>2
  <2>4. sum = [i \in 0..n |-> sum[i]]
    OBVIOUS
  <2> HIDE DEF sum
  <2> QED BY <2>3, <2>4
<1> DEFINE f == CHOOSE f : IsSum(f)
<1>4. IsSum(f)
  <2> HIDE DEF IsSum
  <2> QED BY <1>3
<1> DEFINE T == {i \in Nat : i <= n => f[i] = i * (4 + extra)}
<1>5. Nat \subseteq T
  <2> HIDE DEF f
  <2>1. 0 \in T
    BY <1>1, <1>4
  <2>2. ASSUME NEW i \in Nat, i \in T PROVE i + 1 \in T
    <3> SUFFICES ASSUME i + 1 <= n PROVE f[i + 1] = (i + 1) * (4 + extra)
      OBVIOUS
    <3>1. f[i] = i * (4 + extra)
      BY <2>2
    <3>2. f[i + 1] = f[(i + 1) - 1] + KeyLen[keys[i + 1]] + extra
      BY <1>1, <1>4
    <3>3. (i + 1) - 1 = i /\ KeyLen[keys[i + 1]] = 4
      BY <1>1, <1>2
    <3>4. i * (4 + extra) + 4 + extra = (i + 1) * (4 + extra)
      OBVIOUS
    <3> QED BY <3>1, <3>2, <3>3, <3>4
  <2> HIDE DEF T
  <2> QED BY <2>1, <2>2, Induct
<1>6. Bytes(keys, extra) = f[n]
  BY DEF Bytes
<1> QED BY <1>1, <1>5, <1>6
-----------------------------------------------------------------------------
(* Well-formed pages at their levels. *)

Room == PAGE_SIZE - METADATA_SIZE

LeafFits(n) == /\ n = Leaf(n.entries, n.next)
               /\ n.entries \in Seq(Entry) /\ n.next \in Nat
               /\ 10 * Len(n.entries) <= Room

InternalFits(n) == /\ n = Internal(n.keys, n.ptrs)
                   /\ n.keys \in Seq(Keys) /\ n.ptrs \in Seq(Nat)
                   /\ Len(n.ptrs) = Len(n.keys) + 1 /\ Distinct(n.ptrs)
                   /\ 4 + 8 * Len(n.keys) <= Room

\* Page n fits in a tree at level l: leaves are at level 0 and lead to leaves, and the
\* pointers of internal pages lead one level down.
GoodPage(n, l, lev) ==
  \/ l = 0 /\ LeafFits(n) /\ (n.next = 0 \/ (n.next \in DOMAIN lev /\ lev[n.next] = 0))
  \/ l > 0 /\ InternalFits(n) /\ \A q \in InSeq(n.ptrs) : q \in DOMAIN lev /\ lev[q] = l - 1

\* All pages of a file, those that merges have left behind among them, have levels.
Leveled(ns, lev) ==
  /\ ns \in Seq(Node) /\ lev \in [1..Len(ns) -> Nat]
  /\ \A p \in 1..Len(ns) : GoodPage(ns[p], lev[p], lev)

\* The pages below a page, one level down.
Kids(n) == IF n.leaf THEN {} ELSE InSeq(n.ptrs)

\* The pages L are closed under pointers, and no two pointers lead to one page, none to
\* one of tops.
Tree(ns, L, tops) ==
  /\ L \subseteq 1..Len(ns) /\ tops \subseteq L
  /\ \A p \in L : Kids(ns[p]) \subseteq L \ tops
  /\ \A p, q \in L : p # q => Kids(ns[p]) \cap Kids(ns[q]) = {}

Keyed(ns, L) == \A p \in L : ns[p].leaf \/ Len(ns[p].keys) > 0

\* Leaves and internal pages of the right sizes fit, and are what their fields say.
LEMMA LeafIs ==
  ASSUME NEW es \in Seq(Entry), NEW x \in Nat, 10 * Len(es) <= Room
  PROVE  /\ LeafFits(Leaf(es, x)) /\ Leaf(es, x) \in Node /\ Leaf(es, x).leaf = TRUE
         /\ Leaf(es, x).entries = es /\ Leaf(es, x).next = x /\ Kids(Leaf(es, x)) = {}
BY DEF Leaf, LeafFits, Node, Kids

LEMMA LeafPage ==
  ASSUME NEW n, LeafFits(n)
  PROVE  /\ n.leaf = TRUE /\ n.entries \in Seq(Entry) /\ Len(n.entries) \in Nat
         /\ n.next \in Nat /\ 10 * Len(n.entries) <= Room /\ Kids(n) = {}
BY DEF LeafFits, Leaf, Kids

LEMMA InternalPage ==
  ASSUME NEW n, InternalFits(n)
  PROVE  /\ n.leaf = FALSE /\ n.keys \in Seq(Keys) /\ Len(n.keys) \in Nat
         /\ n.ptrs \in Seq(Nat) /\ Len(n.ptrs) = Len(n.keys) + 1 /\ Distinct(n.ptrs)
         /\ 4 + 8 * Len(n.keys) <= Room /\ Kids(n) = InSeq(n.ptrs)
BY DEF InternalFits, Internal, Kids

LEMMA InternalIs ==
  ASSUME NEW keys \in Seq(Keys), NEW ptrs \in Seq(Nat), Len(ptrs) = Len(keys) + 1,
         Distinct(ptrs), 4 + 8 * Len(keys) <= Room
  PROVE  /\ InternalFits(Internal(keys, ptrs)) /\ Internal(keys, ptrs) \in Node
         /\ Internal(keys, ptrs).leaf = FALSE
         /\ Internal(keys, ptrs).keys = keys /\ Internal(keys, ptrs).ptrs = ptrs
         /\ Kids(Internal(keys, ptrs)) = InSeq(ptrs)
BY DEF Internal, InternalFits, Node, Kids

\* What is known of a page.
LEMMA PageIs ==
  ASSUME NEW ns, NEW lev, Leveled(ns, lev), NEW p \in 1..Len(ns)
  PROVE  /\ lev[p] \in Nat /\ ns[p] \in Node /\ GoodPage(ns[p], lev[p], lev)
         /\ DOMAIN lev = 1..Len(ns) /\ DOMAIN ns = 1..Len(ns) /\ Len(ns) \in Nat
         /\ ns[p].leaf <=> lev[p] = 0
         /\ ns[p].leaf \in BOOLEAN
         /\ ns[p].leaf => /\ LeafFits(ns[p]) /\ Kids(ns[p]) = {}
                          /\ ns[p].next \in 0..Len(ns)
                          /\ ns[p].next # 0 => lev[ns[p].next] = 0
         /\ ~ns[p].leaf => /\ InternalFits(ns[p]) /\ Kids(ns[p]) = InSeq(ns[p].ptrs)
                           /\ \A i \in 1..Len(ns[p].ptrs) : /\ ns[p].ptrs[i] \in 1..Len(ns)
                                                            /\ lev[ns[p].ptrs[i]] = lev[p] - 1
                                                            /\ ns[p].ptrs[i] \in Kids(ns[p])
         /\ \A q \in Kids(ns[p]) : q \in 1..Len(ns) /\ lev[q] = lev[p] - 1
<1>1. /\ lev[p] \in Nat /\ ns[p] \in Node /\ GoodPage(ns[p], lev[p], lev)
      /\ DOMAIN lev = 1..Len(ns) /\ DOMAIN ns = 1..Len(ns) /\ Len(ns) \in Nat
  BY DEF Leveled
<1>2. ASSUME LeafFits(ns[p])
      PROVE  ns[p].leaf = TRUE /\ Kids(ns[p]) = {} /\ ns[p].next \in Nat
  BY <1>2 DEF LeafFits, Leaf, Kids
<1>3. ASSUME InternalFits(ns[p])
      PROVE  /\ ns[p].leaf = FALSE /\ Kids(ns[p]) = InSeq(ns[p].ptrs)
             /\ DOMAIN ns[p].ptrs = 1..Len(ns[p].ptrs)
  BY <1>3 DEF InternalFits, Internal, Kids
<1>4. CASE lev[p] = 0
  <2>1. LeafFits(ns[p])
    BY <1>1, <1>4 DEF GoodPage
  <2>2. ns[p].next = 0 \/ (ns[p].next \in DOMAIN lev /\ lev[ns[p].next] = 0)
    BY <1>1, <1>4 DEF GoodPage
  <2>3. /\ ns[p].leaf = TRUE /\ Kids(ns[p]) = {} /\ ns[p].next \in 0..Len(ns)
        /\ ns[p].next # 0 => lev[ns[p].next] = 0
    <3>1. ns[p].leaf = TRUE /\ Kids(ns[p]) = {} /\ ns[p].next \in Nat
      BY <1>2, <2>1
    <3>2. ns[p].next \in 0..Len(ns)
      BY <1>1, <2>2
    <3>3. ns[p].next # 0 => lev[ns[p].next] = 0
      BY <2>2
    <3> QED BY <3>1, <3>2, <3>3
  <2> QED BY <1>1, <1>4, <2>1, <2>3
<1>5. CASE lev[p] # 0
  <2>1. InternalFits(ns[p]) /\ \A q \in InSeq(ns[p].ptrs) : q \in DOMAIN lev /\ lev[q] = lev[p] - 1
    BY <1>1, <1>5 DEF GoodPage
  <2>2. \A i \in 1..Len(ns[p].ptrs) : ns[p].ptrs[i] \in InSeq(ns[p].ptrs)
    BY <1>3, <2>1 DEF InSeq
  <2> QED BY <1>1, <1>3, <1>5, <2>1, <2>2
<1> QED BY <1>4, <1>5

\* In a file with levels the pages at level 0 are leaves, and lead to leaves.
LEMMA LeafPageIs ==
  ASSUME NEW ns, NEW lev, Leveled(ns, lev), NEW p \in 1..Len(ns), lev[p] = 0
  PROVE  /\ LeafFits(ns[p]) /\ ns[p].leaf = TRUE /\ Kids(ns[p]) = {}
         /\ ns[p].next \in 0..Len(ns) /\ (ns[p].next # 0 => lev[ns[p].next] = 0)
         /\ DOMAIN lev = 1..Len(ns) /\ 10 * Len(ns[p].entries) <= Room
<1>1. ns[p].leaf
  BY PageIs
<1>2. LeafFits(ns[p])
  BY <1>1, PageIs
<1>3. ns[p].next \in 0..Len(ns)
  BY <1>1, PageIs
<1>4. ns[p].next # 0 => lev[ns[p].next] = 0
  BY <1>1, PageIs
<1>5. ns[p].leaf = TRUE /\ 10 * Len(ns[p].entries) <= Room /\ Kids(ns[p]) = {}
  BY <1>2, LeafPage
<1> QED BY <1>2, <1>3, <1>4, <1>5 DEF Leveled

\* The pages above level 0 are internal, and lead one level down.
LEMMA InternalPageIs ==
  ASSUME NEW ns, NEW lev, Leveled(ns, lev), NEW p \in 1..Len(ns), lev[p] # 0
  PROVE  /\ InternalFits(ns[p]) /\ ns[p].leaf = FALSE /\ Kids(ns[p]) = InSeq(ns[p].ptrs)
         /\ lev[p] \in Nat /\ DOMAIN lev = 1..Len(ns)
         /\ \A q \in Kids(ns[p]) : q \in 1..Len(ns) /\ lev[q] = lev[p] - 1
<1>1. ~ns[p].leaf
  BY PageIs
<1>2. InternalFits(ns[p])
  BY <1>1, PageIs
<1>3. \A q \in Kids(ns[p]) : q \in 1..Len(ns) /\ lev[q] = lev[p] - 1
  BY PageIs
<1>4. lev[p] \in Nat /\ DOMAIN lev = 1..Len(ns)
  BY PageIs
<1>5. ns[p].leaf = FALSE /\ Kids(ns[p]) = InSeq(ns[p].ptrs)
  BY <1>2, InternalPage
<1> QED BY <1>2, <1>3, <1>4, <1>5

\* A page rewritten.
SameBut(new, ns, p) == /\ Len(new) = Len(ns)
                       /\ \A q \in 1..Len(ns) : q # p => new[q] = ns[q]

\* Writing a page that fits at its level keeps the levels.
LEMMA Rewritten ==
  ASSUME NEW ns, NEW lev, Leveled(ns, lev), NEW p \in 1..Len(ns), NEW n \in Node,
         GoodPage(n, lev[p], lev)
  PROVE  /\ Leveled([ns EXCEPT ![p] = n], lev) /\ SameBut([ns EXCEPT ![p] = n], ns, p)
         /\ [ns EXCEPT ![p] = n][p] = n
BY DEF Leveled, SameBut

\* A page appended.
Extended(lev, n, l) == [p \in 1..n + 1 |-> IF p \in 1..n THEN lev[p] ELSE l]

\* So does a new page.
LEMMA Appended ==
  ASSUME NEW ns, NEW lev, Leveled(ns, lev), NEW n \in Node, NEW l \in Nat,
         GoodPage(n, l, Extended(lev, Len(ns), l))
  PROVE  LET new == Append(ns, n)
             lv  == Extended(lev, Len(ns), l)
         IN  /\ Leveled(new, lv) /\ Len(new) = Len(ns) + 1
             /\ new[Len(ns) + 1] = n /\ lv[Len(ns) + 1] = l
             /\ \A q \in 1..Len(ns) : new[q] = ns[q] /\ lv[q] = lev[q]
<1> DEFINE new == Append(ns, n)
           lv  == Extended(lev, Len(ns), l)
<1>1. ns \in Seq(Node) /\ lev \in [1..Len(ns) -> Nat] /\ Len(ns) \in Nat
  BY DEF Leveled
<1>2. /\ new \in Seq(Node) /\ Len(new) = Len(ns) + 1 /\ new[Len(ns) + 1] = n
      /\ \A q \in 1..Len(ns) : new[q] = ns[q]
  BY <1>1
<1>3. /\ lv \in [1..Len(ns) + 1 -> Nat] /\ lv[Len(ns) + 1] = l
      /\ \A q \in 1..Len(ns) : lv[q] = lev[q]
  BY <1>1 DEF Extended
<1> HIDE DEF new, lv
<1>4. ASSUME NEW q \in 1..Len(ns) PROVE GoodPage(new[q], lv[q], lv)
  <2>1. GoodPage(ns[q], lev[q], lev)
    BY DEF Leveled
  <2>2. \A x \in DOMAIN lev : x \in DOMAIN lv /\ lv[x] = lev[x]
    BY <1>1, <1>3
  <2> QED BY <1>2, <1>3, <2>1, <2>2 DEF GoodPage
<1>5. GoodPage(new[Len(ns) + 1], lv[Len(ns) + 1], lv)
  BY <1>2, <1>3 DEF lv
<1>6. \A q \in 1..Len(ns) + 1 : GoodPage(new[q], lv[q], lv)
  BY <1>1, <1>4, <1>5
<1> QED BY <1>2, <1>3, <1>6 DEF Leveled, new, lv

-----------------------------------------------------------------------------
(* Walks down the tree. *)

\* A child is picked on every internal page.
Picks(ns, pick) == /\ pick \in [1..Len(ns) -> Nat]
                   /\ \A p \in 1..Len(ns) : ~ns[p].leaf => pick[p] \in 1..Len(ns[p].ptrs)

IsWalk(ns, pick, f) ==
  f = [p \in DOMAIN ns |-> IF ns[p].leaf THEN <<p>> ELSE <<p>> \o f[ns[p].ptrs[pick[p]]]]

\* The walk w from page p to a leaf, along the picked children.
Walk(ns, lev, pick, p, w) ==
  /\ w \in Seq(1..Len(ns)) /\ Len(w) = lev[p] + 1 /\ w[1] = p
  /\ \A i \in 1..lev[p] + 1 : w[i] \in 1..Len(ns) /\ lev[w[i]] = lev[p] + 1 - i
  /\ \A i \in 1..lev[p] : w[i + 1] = ns[w[i]].ptrs[pick[w[i]]]

\* The child picked is one level down.
LEMMA PickedIs ==
  ASSUME NEW ns, NEW lev, Leveled(ns, lev), NEW pick, Picks(ns, pick),
         NEW p \in 1..Len(ns), ~ns[p].leaf
  PROVE  /\ ns[p].ptrs[pick[p]] \in 1..Len(ns) /\ lev[ns[p].ptrs[pick[p]]] = lev[p] - 1
         /\ ns[p].ptrs[pick[p]] \in Kids(ns[p]) /\ pick[p] \in 1..Len(ns[p].ptrs)
         /\ lev[p] > 0
BY PageIs DEF Picks

\* The recursive function of walks exists, because levels fall.
LEMMA WalkExists ==
  ASSUME NEW ns, NEW lev, Leveled(ns, lev), NEW pick, Picks(ns, pick)
  PROVE  \E f : IsWalk(ns, pick, f)
<1> DEFINE P == 1..Len(ns)
           V == Seq(P)
           G == [p \in P |-> [g \in [P -> V] |->
                  IF ns[p].leaf THEN <<p>> ELSE <<p>> \o g[ns[p].ptrs[pick[p]]]]]
<1>1. lev \in [P -> Nat] /\ V # {} /\ DOMAIN ns = P
  <2>1. << >> \in V
    OBVIOUS
  <2>2. lev \in [P -> Nat] /\ DOMAIN ns = P
    BY DEF Leveled
  <2> HIDE DEF V
  <2> QED BY <2>1, <2>2
<1>2. \A p \in P : ~ns[p].leaf => /\ ns[p].ptrs[pick[p]] \in P
                                  /\ lev[ns[p].ptrs[pick[p]]] < lev[p]
  <2> SUFFICES ASSUME NEW p \in P, ~ns[p].leaf
               PROVE  ns[p].ptrs[pick[p]] \in P /\ lev[ns[p].ptrs[pick[p]]] < lev[p]
    OBVIOUS
  <2>1. ns[p].ptrs[pick[p]] \in P /\ lev[ns[p].ptrs[pick[p]]] = lev[p] - 1 /\ lev[p] \in Nat
    BY <1>1, PickedIs
  <2> QED BY <2>1
<1>3. \A p \in P, g \in [P -> V] :
         G[p][g] = IF ns[p].leaf THEN <<p>> ELSE <<p>> \o g[ns[p].ptrs[pick[p]]]
  OBVIOUS
<1> HIDE DEF G
<1>4. ASSUME NEW p \in P, NEW g \in [P -> V] PROVE G[p][g] \in V
  <2>1. <<p>> \in V
    OBVIOUS
  <2>2. ~ns[p].leaf => g[ns[p].ptrs[pick[p]]] \in V
    BY <1>2
  <2>3. \A a, b \in V : a \o b \in V
    OBVIOUS
  <2> QED BY <1>3, <2>1, <2>2, <2>3
<1>5. ASSUME NEW p \in P, NEW g \in [P -> V], NEW h \in [P -> V],
             \A q \in P : lev[q] < lev[p] => g[q] = h[q]
      PROVE  G[p][g] = G[p][h]
  <2>1. /\ G[p][g] = IF ns[p].leaf THEN <<p>> ELSE <<p>> \o g[ns[p].ptrs[pick[p]]]
        /\ G[p][h] = IF ns[p].leaf THEN <<p>> ELSE <<p>> \o h[ns[p].ptrs[pick[p]]]
    BY <1>3
  <2>2. ~ns[p].leaf => g[ns[p].ptrs[pick[p]]] = h[ns[p].ptrs[pick[p]]]
    BY <1>2, <1>5
  <2> QED BY <2>1, <2>2
<1>6. PICK f \in [P -> V] : IsFixpoint(P, G, f)
  <2> HIDE DEF P, V
  <2>1. Descends(P, lev, V, G)
    BY <1>1, <1>4, <1>5 DEF Descends
  <2> QED BY <2>1, ByLevel, Zenon
<1>7. f = [p \in P |-> IF ns[p].leaf THEN <<p>> ELSE <<p>> \o f[ns[p].ptrs[pick[p]]]]
  <2> HIDE DEF P, V
  <2>1. \A p \in P :
          G[p][f] = IF ns[p].leaf THEN <<p>> ELSE <<p>> \o f[ns[p].ptrs[pick[p]]]
    BY <1>3
  <2> QED BY <1>6, <2>1 DEF IsFixpoint
<1> QED BY <1>1, <1>7 DEF IsWalk

\* One step more at the upper end of a walk.
LEMMA WalkStep ==
  ASSUME NEW ns, NEW lev, Leveled(ns, lev), NEW pick, Picks(ns, pick),
         NEW p \in 1..Len(ns), ~ns[p].leaf,
         NEW w, Walk(ns, lev, pick, ns[p].ptrs[pick[p]], w)
  PROVE  Walk(ns, lev, pick, p, <<p>> \o w)
<1> DEFINE q == ns[p].ptrs[pick[p]]
           v == <<p>> \o w
<1>1. q \in 1..Len(ns) /\ lev[q] = lev[p] - 1 /\ lev[p] \in Nat
  BY PickedIs, PageIs
<1>2. w \in Seq(1..Len(ns)) /\ Len(w) = lev[p] /\ w[1] = q
  BY <1>1 DEF Walk
<1>3. /\ v \in Seq(1..Len(ns)) /\ Len(v) = lev[p] + 1 /\ v[1] = p
      /\ \A i \in 1..lev[p] : v[i + 1] = w[i]
  <2>1. v \in Seq(1..Len(ns)) /\ IsCons(v, p, w)
    BY <1>2, ConsIs, Zenon
  <2> HIDE DEF v, q
  <2> QED BY <1>1, <1>2, <2>1 DEF IsCons
<1>4. /\ \A i \in 1..lev[p] : w[i] \in 1..Len(ns) /\ lev[w[i]] = lev[p] - i
      /\ \A i \in 1..lev[p] - 1 : w[i + 1] = ns[w[i]].ptrs[pick[w[i]]]
  BY <1>1 DEF Walk
<1>5. q = ns[p].ptrs[pick[p]]
  OBVIOUS
<1> HIDE DEF v, q
<1>6. ASSUME NEW i \in 1..lev[p] + 1 PROVE v[i] \in 1..Len(ns) /\ lev[v[i]] = lev[p] + 1 - i
  <2>1. CASE i = 1
    BY <1>1, <1>3, <2>1
  <2>2. CASE i # 1
    <3>1. i - 1 \in 1..lev[p] /\ (i - 1) + 1 = i /\ lev[p] - (i - 1) = lev[p] + 1 - i
      BY <1>1, <2>2
    <3>2. v[i] = w[i - 1]
      BY <1>3, <3>1
    <3> QED BY <1>4, <3>1, <3>2
  <2> QED BY <2>1, <2>2
<1>7. ASSUME NEW i \in 1..lev[p] PROVE v[i + 1] = ns[v[i]].ptrs[pick[v[i]]]
  <2>1. CASE i = 1
    BY <1>1, <1>2, <1>3, <1>5, <2>1
  <2>2. CASE i # 1
    <3>1. i - 1 \in 1..lev[p] - 1 /\ (i - 1) + 1 = i /\ i - 1 \in 1..lev[p]
      BY <1>1, <2>2
    <3>2. w[i] = ns[w[i - 1]].ptrs[pick[w[i - 1]]] /\ v[i] = w[i - 1]
      BY <1>3, <1>4, <3>1
    <3> QED BY <1>3, <3>2
  <2> QED BY <2>1, <2>2
<1> QED BY <1>3, <1>6, <1>7 DEF Walk, v

\* The function of walks gives walks.
LEMMA WalkIs ==
  ASSUME NEW ns, NEW lev, Leveled(ns, lev), NEW pick, Picks(ns, pick),
         NEW f, IsWalk(ns, pick, f)
  PROVE  \A p \in 1..Len(ns) : Walk(ns, lev, pick, p, f[p])
<1> DEFINE N == 1..Len(ns)
           T == {n \in Nat : \A p \in N : lev[p] = n => Walk(ns, lev, pick, p, f[p])}
<1>1. lev \in [N -> Nat] /\ DOMAIN ns = N
  BY DEF Leveled
<1>2. 0 \in T
  <2> SUFFICES ASSUME NEW p \in N, lev[p] = 0 PROVE Walk(ns, lev, pick, p, f[p])
    OBVIOUS
  <2>1. ns[p].leaf
    BY PageIs
  <2>2. f[p] = <<p>>
    BY <1>1, <2>1 DEF IsWalk
  <2> QED BY <2>2 DEF Walk
<1>3. ASSUME NEW n \in Nat, n \in T PROVE n + 1 \in T
  <2> SUFFICES ASSUME NEW p \in N, lev[p] = n + 1 PROVE Walk(ns, lev, pick, p, f[p])
    OBVIOUS
  <2>1. ~ns[p].leaf
    BY PageIs
  <2>2. ns[p].ptrs[pick[p]] \in N /\ lev[ns[p].ptrs[pick[p]]] = n
    BY <2>1, PickedIs
  <2>3. f[p] = <<p>> \o f[ns[p].ptrs[pick[p]]]
    BY <1>1, <2>1 DEF IsWalk
  <2>4. Walk(ns, lev, pick, ns[p].ptrs[pick[p]], f[ns[p].ptrs[pick[p]]])
    BY <1>3, <2>2
  <2> HIDE DEF T
  <2> QED BY <2>1, <2>3, <2>4, WalkStep
<1>4. Nat \subseteq T
  <2> HIDE DEF T
  <2> QED BY <1>2, <1>3, Induct
<1> QED BY <1>1, <1>4

\* The first hit, or the place behind the last: the positions FirstKey returns.
LEMMA FirstIs ==
  ASSUME NEW n \in Nat, NEW hits, hits \subseteq 1..n
  PROVE  (IF hits = {} THEN n + 1 ELSE CHOOSE i \in hits : \A j \in hits : i <= j) \in 1..n + 1
<1> DEFINE first == CHOOSE i \in hits : \A j \in hits : i <= j
<1>1. ASSUME hits # {} PROVE first \in hits
  <2>1. hits \subseteq Nat
    OBVIOUS
  <2>2. \E i \in hits : \A j \in hits : i <= j
    BY <1>1, <2>1, LeastOf
  <2> QED BY <2>2
<1> HIDE DEF first
<1>2. hits # {} => first \in 1..n + 1
  <2>1. hits # {} => first \in 1..n
    BY <1>1
  <2> QED BY <2>1
<1>3. n + 1 \in 1..n + 1
  OBVIOUS
<1>4. (IF hits = {} THEN n + 1 ELSE first) \in 1..n + 1
  BY <1>2, <1>3, Zenon
<1> QED BY <1>4 DEF first

\* findInsertPos returns a position at which a key can be inserted.
LEMMA PositionIs ==
  ASSUME NEW keys, NEW S, keys \in Seq(S), NEW key
  PROVE  findInsertPos(keys, key) \in 1..Len(keys) + 1
<1> DEFINE hits == {i \in DOMAIN keys : key < keys[i]}
<1>1. Len(keys) \in Nat /\ hits \subseteq 1..Len(keys)
  OBVIOUS
<1>2. findInsertPos(keys, key) =
        IF hits = {} THEN Len(keys) + 1 ELSE CHOOSE i \in hits : \A j \in hits : i <= j
  BY DEF findInsertPos, FirstKey
<1> HIDE DEF hits
<1> QED BY <1>1, <1>2, FirstIs

\* Both searches of an internal page return one of its pointers.
LEMMA ChildIs ==
  ASSUME NEW n, InternalFits(n), NEW key
  PROVE  /\ findInternalChildIds(n, key) \in 1..Len(n.ptrs)
         /\ findInternalChildIdsLeft(n, key) \in 1..Len(n.ptrs)
<1> DEFINE right == {i \in DOMAIN n.keys : key < n.keys[i]}
           left  == {i \in DOMAIN n.keys : key <= n.keys[i]}
<1>1. n.keys \in Seq(Keys) /\ Len(n.ptrs) = Len(n.keys) + 1
  BY DEF InternalFits
<1>2. Len(n.keys) \in Nat /\ right \subseteq 1..Len(n.keys) /\ left \subseteq 1..Len(n.keys)
  BY <1>1
<1>3. findInternalChildIds(n, key) =
        IF right = {} THEN Len(n.keys) + 1 ELSE CHOOSE i \in right : \A j \in right : i <= j
  BY DEF findInternalChildIds, FirstKey
<1>4. findInternalChildIdsLeft(n, key) =
        IF left = {} THEN Len(n.keys) + 1 ELSE CHOOSE i \in left : \A j \in left : i <= j
  BY DEF findInternalChildIdsLeft, FirstKey
<1> HIDE DEF right, left
<1> QED BY <1>1, <1>2, <1>3, <1>4, FirstIs

\* The descents of insertEntry, of deleteEntry, and to the leftmost leaf.
LEMMA DescentRight ==
  ASSUME NEW t, NEW lev, Leveled(t.nodes, lev), t.root \in 1..Len(t.nodes), NEW key
  PROVE  \E pick : /\ Picks(t.nodes, pick)
                   /\ \A p \in 1..Len(t.nodes) :
                        ~t.nodes[p].leaf => pick[p] = findInternalChildIds(t.nodes[p], key)
                   /\ Walk(t.nodes, lev, pick, t.root, Path(t, key, findInternalChildIds))
<1> DEFINE ns == t.nodes
           pick == [p \in 1..Len(ns) |-> IF ns[p].leaf THEN 0 ELSE findInternalChildIds(ns[p], key)]
           Eq(f) == f = [p \in DOMAIN ns |->
                           IF ns[p].leaf THEN <<p>>
                           ELSE <<p>> \o f[ns[p].ptrs[findInternalChildIds(ns[p], key)]]]
<1>1. ASSUME NEW p \in 1..Len(ns), ~ns[p].leaf
      PROVE  findInternalChildIds(ns[p], key) \in 1..Len(ns[p].ptrs) /\ Len(ns[p].ptrs) \in Nat
  <2>1. InternalFits(ns[p])
    BY <1>1, PageIs
  <2>2. Len(ns[p].ptrs) \in Nat
    BY <2>1 DEF InternalFits
  <2> QED BY <2>1, <2>2, ChildIs
<1>2. DOMAIN ns = 1..Len(ns)
  BY DEF Leveled
<1>3. /\ pick \in [1..Len(ns) -> Nat]
      /\ \A p \in 1..Len(ns) : ~ns[p].leaf => pick[p] = findInternalChildIds(ns[p], key)
  BY <1>1
<1> HIDE DEF pick
<1>4. Picks(ns, pick)
  BY <1>1, <1>3 DEF Picks
<1>5. \A f : IsWalk(ns, pick, f) <=> Eq(f)
  BY <1>2, <1>3 DEF IsWalk
<1>6. \E f : Eq(f)
  <2> HIDE DEF Eq
  <2> QED BY <1>4, <1>5, WalkExists
<1> DEFINE f == CHOOSE f : Eq(f)
<1>7. Eq(f)
  <2> HIDE DEF Eq
  <2> QED BY <1>6
<1>8. Path(t, key, findInternalChildIds) = f[t.root]
  BY DEF Path
<1> HIDE DEF f, Eq
<1>9. Walk(ns, lev, pick, t.root, f[t.root])
  BY <1>4, <1>5, <1>7, WalkIs
<1> QED BY <1>3, <1>4, <1>8, <1>9

LEMMA DescentLeft ==
  ASSUME NEW t, NEW lev, Leveled(t.nodes, lev), t.root \in 1..Len(t.nodes), NEW key
  PROVE  \E pick : /\ Picks(t.nodes, pick)
                   /\ \A p \in 1..Len(t.nodes) :
                        ~t.nodes[p].leaf => pick[p] = findInternalChildIdsLeft(t.nodes[p], key)
                   /\ Walk(t.nodes, lev, pick, t.root, Path(t, key, findInternalChildIdsLeft))
<1> DEFINE ns == t.nodes
           pick == [p \in 1..Len(ns) |->
                      IF ns[p].leaf THEN 0 ELSE findInternalChildIdsLeft(ns[p], key)]
           Eq(f) == f = [p \in DOMAIN ns |->
                           IF ns[p].leaf THEN <<p>>
                           ELSE <<p>> \o f[ns[p].ptrs[findInternalChildIdsLeft(ns[p], key)]]]
<1>1. ASSUME NEW p \in 1..Len(ns), ~ns[p].leaf
      PROVE  findInternalChildIdsLeft(ns[p], key) \in 1..Len(ns[p].ptrs) /\ Len(ns[p].ptrs) \in Nat
  <2>1. InternalFits(ns[p])
    BY <1>1, PageIs
  <2>2. Len(ns[p].ptrs) \in Nat
    BY <2>1 DEF InternalFits
  <2> QED BY <2>1, <2>2, ChildIs
<1>2. DOMAIN ns = 1..Len(ns)
  BY DEF Leveled
<1>3. /\ pick \in [1..Len(ns) -> Nat]
      /\ \A p \in 1..Len(ns) : ~ns[p].leaf => pick[p] = findInternalChildIdsLeft(ns[p], key)
  BY <1>1
<1> HIDE DEF pick
<1>4. Picks(ns, pick)
  BY <1>1, <1>3 DEF Picks
<1>5. \A f : IsWalk(ns, pick, f) <=> Eq(f)
  BY <1>2, <1>3 DEF IsWalk
<1>6. \E f : Eq(f)
  <2> HIDE DEF Eq
  <2> QED BY <1>4, <1>5, WalkExists
<1> DEFINE f == CHOOSE f : Eq(f)
<1>7. Eq(f)
  <2> HIDE DEF Eq
  <2> QED BY <1>6
<1>8. Path(t, key, findInternalChildIdsLeft) = f[t.root]
  BY DEF Path
<1> HIDE DEF f, Eq
<1>9. Walk(ns, lev, pick, t.root, f[t.root])
  BY <1>4, <1>5, <1>7, WalkIs
<1> QED BY <1>3, <1>4, <1>8, <1>9

\* Height(p) is one more than p's level.
LEMMA HeightIs ==
  ASSUME NEW lev, Leveled(nodes, lev), NEW r \in 1..Len(nodes)
  PROVE  Height(r) = lev[r] + 1
<1> DEFINE pick == [p \in 1..Len(nodes) |-> 1]
           Eq(f) == f = [p \in DOMAIN nodes |->
                           IF nodes[p].leaf THEN <<p>> ELSE <<p>> \o f[nodes[p].ptrs[1]]]
<1>1. Picks(nodes, pick)
  <2>1. ASSUME NEW p \in 1..Len(nodes), ~nodes[p].leaf PROVE 1 \in 1..Len(nodes[p].ptrs)
    <3>1. InternalFits(nodes[p])
      BY <2>1, PageIs
    <3> QED BY <3>1 DEF InternalFits
  <2> QED BY <2>1 DEF Picks
<1>2. DOMAIN nodes = 1..Len(nodes)
  BY DEF Leveled
<1>3. \A p \in 1..Len(nodes) : pick[p] = 1
  OBVIOUS
<1> HIDE DEF pick
<1>5. \A f : IsWalk(nodes, pick, f) <=> Eq(f)
  <2>1. \A p \in DOMAIN nodes : pick[p] = 1
    BY <1>2, <1>3
  <2> QED BY <2>1 DEF IsWalk
<1>6. \E f : Eq(f)
  <2> HIDE DEF Eq
  <2> QED BY <1>1, <1>5, WalkExists
<1> DEFINE f == CHOOSE f : Eq(f)
<1>7. Eq(f)
  <2> HIDE DEF Eq
  <2> QED BY <1>6
<1>8. Height(r) = Len(f[r])
  BY DEF Height, Path
<1> HIDE DEF f, Eq
<1>9. Walk(nodes, lev, pick, r, f[r])
  BY <1>1, <1>5, <1>7, WalkIs
<1> QED BY <1>8, <1>9 DEF Walk

\* A walk from a page of a tree stays in it, and no page of it but the first is a top.
LEMMA WalkStays ==
  ASSUME NEW ns, NEW lev, Leveled(ns, lev), NEW pick, Picks(ns, pick),
         NEW L, NEW tops, Tree(ns, L, tops), NEW p \in L, NEW w, Walk(ns, lev, pick, p, w)
  PROVE  /\ \A i \in 1..lev[p] + 1 : w[i] \in L
         /\ \A i \in 1..lev[p] : w[i + 1] \in Kids(ns[w[i]]) /\ ~ns[w[i]].leaf
<1>1. L \subseteq 1..Len(ns) /\ lev[p] \in Nat /\ \A q \in L : Kids(ns[q]) \subseteq L
  BY PageIs DEF Tree
<1>2. ASSUME NEW i \in 1..lev[p] PROVE w[i + 1] \in Kids(ns[w[i]]) /\ ~ns[w[i]].leaf
  <2>0. i \in 1..lev[p] + 1
    BY <1>1
  <2>1. w[i] \in 1..Len(ns) /\ lev[w[i]] = lev[p] + 1 - i
    BY <2>0, Zenon DEF Walk
  <2>2. ~ns[w[i]].leaf
    BY <1>1, <2>1, PageIs
  <2>3. w[i + 1] = ns[w[i]].ptrs[pick[w[i]]]
    BY DEF Walk
  <2> QED BY <2>1, <2>2, <2>3, PickedIs
<1> DEFINE T == {i \in Nat : i <= lev[p] => w[i + 1] \in L}
<1>3. 0 \in T
  BY DEF Walk
<1>4. ASSUME NEW i \in Nat, i \in T PROVE i + 1 \in T
  <2> SUFFICES ASSUME i + 1 <= lev[p] PROVE w[i + 1 + 1] \in L
    OBVIOUS
  <2>1. i + 1 \in 1..lev[p] /\ w[i + 1] \in L
    BY <1>1, <1>4
  <2> HIDE DEF T
  <2> QED BY <1>1, <1>2, <2>1
<1>5. Nat \subseteq T
  <2> HIDE DEF T
  <2> QED BY <1>3, <1>4, Induct
<1>6. ASSUME NEW i \in 1..lev[p] + 1 PROVE w[i] \in L
  <2>1. i - 1 \in Nat /\ i - 1 <= lev[p] /\ i - 1 + 1 = i
    BY <1>1
  <2> QED BY <1>5, <2>1
<1> QED BY <1>2, <1>6

-----------------------------------------------------------------------------
(* Insertion. *)

LEMMA KeysOfIs ==
  ASSUME NEW es \in Seq(Entry)
  PROVE  KeysOf(es) \in Seq(Keys) /\ Len(KeysOf(es)) = Len(es)
<1>0. DOMAIN es = 1..Len(es) /\ Len(es) \in Nat /\ \A i \in 1..Len(es) : es[i] \in Entry
  OBVIOUS
<1>1. DOMAIN es = 1..Len(es) /\ Len(es) \in Nat /\ \A i \in 1..Len(es) : es[i].key \in Keys
  BY <1>0 DEF Entry
<1>2. KeysOf(es) = [i \in 1..Len(es) |-> es[i].key]
  BY <1>1 DEF KeysOf
<1> QED BY <1>1, <1>2

\* The bytes of pages with keys of four bytes.
LEMMA FsoIs ==
  ASSUME NumericKeys, NEW n
  PROVE  /\ LeafFits(n) => Fso(n) = 16 + 10 * Len(n.entries) /\ Used(n) = 10 * Len(n.entries)
         /\ InternalFits(n) => /\ Fso(n) = 20 + 8 * Len(n.keys)
                               /\ Used(n) = 4 + 8 * Len(n.keys)
<1>1. ASSUME LeafFits(n)
      PROVE  Fso(n) = 16 + 10 * Len(n.entries) /\ Used(n) = 10 * Len(n.entries)
  <2>1. n.leaf = TRUE /\ n.entries \in Seq(Entry) /\ Len(n.entries) \in Nat
    BY <1>1 DEF LeafFits, Leaf
  <2>2. Bytes(KeysOf(n.entries), RID_SIZE) = Len(n.entries) * (4 + RID_SIZE)
    BY <2>1, KeysOfIs, BytesAre DEF RID_SIZE
  <2> QED BY <2>1, <2>2 DEF Fso, Used, RID_SIZE, METADATA_SIZE
<1>2. ASSUME InternalFits(n)
      PROVE  Fso(n) = 20 + 8 * Len(n.keys) /\ Used(n) = 4 + 8 * Len(n.keys)
  <2>1. n.leaf = FALSE /\ n.keys \in Seq(Keys) /\ Len(n.keys) \in Nat
    BY <1>2 DEF InternalFits, Internal
  <2>2. Bytes(n.keys, PTR_SIZE) = Len(n.keys) * (4 + PTR_SIZE)
    BY <2>1, BytesAre DEF PTR_SIZE
  <2> QED BY <2>1, <2>2 DEF Fso, Used, PTR_SIZE, METADATA_SIZE
<1> QED BY <1>1, <1>2

\* A page p split into a and b, b on a new page.
LEMMA PageSplit ==
  ASSUME NEW ns, NEW lev, Leveled(ns, lev), NEW p \in 1..Len(ns), NEW a \in Node, NEW b \in Node,
         GoodPage(a, lev[p], Extended(lev, Len(ns), lev[p])),
         GoodPage(b, lev[p], Extended(lev, Len(ns), lev[p]))
  PROVE  LET new == [Append(ns, b) EXCEPT ![p] = a]
             lv  == Extended(lev, Len(ns), lev[p])
             x   == Len(ns) + 1
         IN  /\ Leveled(new, lv) /\ Len(new) = x /\ new[p] = a /\ new[x] = b /\ lv[x] = lev[p]
             /\ \A q \in 1..Len(ns) : lv[q] = lev[q] /\ (q # p => new[q] = ns[q])
             /\ x \in 1..Len(new) /\ x \notin 1..Len(ns) /\ new \in Seq(Node)
<1> DEFINE mid == Append(ns, b)
           new == [mid EXCEPT ![p] = a]
           lv  == Extended(lev, Len(ns), lev[p])
           x   == Len(ns) + 1
<1>1. lev[p] \in Nat /\ Len(ns) \in Nat
  BY PageIs
<1>2. /\ Leveled(mid, lv) /\ Len(mid) = x /\ mid[x] = b /\ lv[x] = lev[p]
      /\ \A q \in 1..Len(ns) : mid[q] = ns[q] /\ lv[q] = lev[q]
  BY <1>1, Appended
<1>3. p \in 1..Len(mid) /\ lv[p] = lev[p] /\ x # p
  BY <1>1, <1>2
<1> HIDE DEF mid, lv
<1>4. /\ Leveled(new, lv) /\ Len(new) = Len(mid) /\ new[p] = a
      /\ \A q \in 1..Len(mid) : q # p => new[q] = mid[q]
  <2>1. GoodPage(a, lv[p], lv)
    BY <1>3 DEF lv
  <2>2. Leveled(mid, lv)
    BY <1>2
  <2>3. Leveled(new, lv) /\ SameBut(new, mid, p)
    BY <1>3, <2>1, <2>2, Rewritten
  <2>4. new[p] = a
    BY <1>3, <2>2 DEF Leveled
  <2> HIDE DEF new
  <2> QED BY <2>3, <2>4 DEF SameBut
<1>5. x \in 1..Len(mid) /\ \A q \in 1..Len(ns) : q \in 1..Len(mid)
  BY <1>1, <1>2
<1>6. new \in Seq(Node)
  BY <1>4 DEF Leveled
<1> HIDE DEF new
<1>7. /\ Leveled(new, lv) /\ Len(new) = x /\ new[p] = a /\ new[x] = b /\ lv[x] = lev[p]
      /\ \A q \in 1..Len(ns) : lv[q] = lev[q] /\ (q # p => new[q] = ns[q])
      /\ x \in 1..Len(new) /\ x \notin 1..Len(ns)
  BY <1>1, <1>2, <1>3, <1>4, <1>5
<1> QED BY <1>6, <1>7 DEF new, mid, lv

\* Pointers added to a page, or given to two pages, from the tops.
LEMMA TreeRewritten ==
  ASSUME NEW ns, NEW L, NEW tops, Tree(ns, L, tops), NEW p \in L, NEW new, Len(new) = Len(ns),
         \A q \in L : q # p => new[q] = ns[q],
         NEW Y, Y \subseteq tops, Kids(new[p]) = Kids(ns[p]) \cup Y
  PROVE  Tree(new, L, tops \ Y)
BY DEF Tree

\* A page of a tree and a new page share what was below the page.
LEMMA TreeSplit ==
  ASSUME NEW ns, Len(ns) \in Nat, NEW L, NEW tops, Tree(ns, L, tops), NEW p \in L,
         NEW new, Len(new) = Len(ns) + 1, NEW x, x = Len(ns) + 1,
         \A q \in L : q # p => new[q] = ns[q],
         NEW Y, Y \subseteq tops, Kids(new[p]) \cup Kids(new[x]) = Kids(ns[p]) \cup Y,
         Kids(new[p]) \cap Kids(new[x]) = {}
  PROVE  Tree(new, L \cup {x}, (tops \ Y) \cup {x})
<1>1. x \notin L /\ L \cup {x} \subseteq 1..Len(new)
  <2>1. \A q \in L : q \in 1..Len(ns)
    BY DEF Tree
  <2>2. \A q \in 1..Len(ns) : q # x /\ q \in 1..Len(new)
    OBVIOUS
  <2>3. x \in 1..Len(new)
    OBVIOUS
  <2> QED BY <2>1, <2>2, <2>3
<1>2. \A q \in L : Kids(ns[q]) \subseteq L \ tops /\ tops \subseteq L
  BY DEF Tree
<1>3. \A q, r \in L : q # r => Kids(ns[q]) \cap Kids(ns[r]) = {}
  BY DEF Tree
<1>4. \A q \in L \cup {x} : Kids(new[q]) \subseteq (L \cup {x}) \ ((tops \ Y) \cup {x})
  BY <1>1, <1>2
<1>5. \A q \in L : q # p => Kids(new[q]) \cap (Kids(new[p]) \cup Kids(new[x])) = {}
  BY <1>1, <1>2, <1>3
<1>6. \A q, r \in L \cup {x} : q # r => Kids(new[q]) \cap Kids(new[r]) = {}
  BY <1>1, <1>3, <1>5
<1> QED BY <1>1, <1>2, <1>4, <1>6 DEF Tree

-----------------------------------------------------------------------------
(* The leftmost leaf below a page. *)

\* The leftmost leaf below page p.
First(ns, p) == Last(Path([nodes |-> ns, root |-> p], 0, LAMBDA n, key : 1))

\* A leaf is its own first leaf; an internal page has that of its first child.
LEMMA FirstsAre ==
  ASSUME NEW ns, NEW lev, Leveled(ns, lev), NEW p \in 1..Len(ns)
  PROVE  /\ ns[p].leaf => First(ns, p) = p
         /\ ~ns[p].leaf => /\ First(ns, p) = First(ns, ns[p].ptrs[1])
                           /\ ns[p].ptrs[1] \in 1..Len(ns) /\ ns[p].ptrs[1] \in Kids(ns[p])
                           /\ lev[ns[p].ptrs[1]] = lev[p] - 1
<1> DEFINE pick == [q \in 1..Len(ns) |-> 1]
           Eq(f) == f = [q \in DOMAIN ns |->
                           IF ns[q].leaf THEN <<q>> ELSE <<q>> \o f[ns[q].ptrs[1]]]
<1>1. Picks(ns, pick)
  <2>1. ASSUME NEW q \in 1..Len(ns), ~ns[q].leaf PROVE 1 \in 1..Len(ns[q].ptrs)
    <3>1. InternalFits(ns[q])
      BY <2>1, PageIs
    <3> QED BY <3>1 DEF InternalFits
  <2> QED BY <2>1 DEF Picks
<1>2. DOMAIN ns = 1..Len(ns)
  BY DEF Leveled
<1>3. \A q \in 1..Len(ns) : pick[q] = 1
  OBVIOUS
<1> HIDE DEF pick
<1>5. \A f : IsWalk(ns, pick, f) <=> Eq(f)
  <2>1. \A q \in DOMAIN ns : pick[q] = 1
    BY <1>2, <1>3
  <2> QED BY <2>1 DEF IsWalk
<1>6. \E f : Eq(f)
  <2> HIDE DEF Eq
  <2> QED BY <1>1, <1>5, WalkExists
<1> DEFINE f == CHOOSE f : Eq(f)
<1>7. Eq(f)
  <2> HIDE DEF Eq
  <2> QED BY <1>6
<1>8. \A q : First(ns, q) = Last(f[q])
  BY DEF First, Path
<1>9. \A q \in 1..Len(ns) : f[q] = IF ns[q].leaf THEN <<q>> ELSE <<q>> \o f[ns[q].ptrs[1]]
  BY <1>2, <1>7
<1> HIDE DEF f, Eq
<1>10. \A q \in 1..Len(ns) : Walk(ns, lev, pick, q, f[q])
  BY <1>1, <1>5, <1>7, WalkIs
<1>11. ASSUME ns[p].leaf PROVE First(ns, p) = p
  <2>1. f[p] = <<p>>
    BY <1>9, <1>11
  <2>2. Last(<<p>>) = p
    BY DEF Last
  <2> QED BY <1>8, <2>1, <2>2
<1>12. ASSUME ~ns[p].leaf
       PROVE  /\ First(ns, p) = First(ns, ns[p].ptrs[1])
              /\ ns[p].ptrs[1] \in 1..Len(ns) /\ ns[p].ptrs[1] \in Kids(ns[p])
              /\ lev[ns[p].ptrs[1]] = lev[p] - 1
  <2> DEFINE c == ns[p].ptrs[1]
  <2>1. c \in 1..Len(ns) /\ c \in Kids(ns[p]) /\ lev[c] = lev[p] - 1
    BY <1>1, <1>3, <1>12, PickedIs
  <2>2. f[p] = <<p>> \o f[c]
    BY <1>9, <1>12
  <2> HIDE DEF c
  <2>3. f[c] \in Seq(1..Len(ns)) /\ Len(f[c]) = lev[c] + 1 /\ lev[c] \in Nat
    <3>1. Walk(ns, lev, pick, c, f[c])
      BY <1>10, <2>1
    <3>2. lev[c] \in Nat
      BY <2>1, PageIs
    <3> QED BY <3>1, <3>2 DEF Walk
  <2>4. Last(<<p>> \o f[c]) = Last(f[c])
    <3> DEFINE s == f[c]
               S == 1..Len(ns)
    <3>1. s \in Seq(S) /\ Len(s) > 0 /\ p \in S
      BY <2>3
    <3> HIDE DEF s, S
    <3>2. Last(<<p>> \o s) = Last(s)
      BY <3>1 DEF Last
    <3> QED BY <3>2 DEF s
  <2> QED BY <1>8, <2>1, <2>2, <2>4 DEF c
<1> QED BY <1>11, <1>12

\* First leaves reached from a page or below it, at any lower level.
Reached(ns, lev, L, n, y) ==
  \E z \in L : /\ lev[z] = n /\ First(ns, z) = First(ns, y)
              /\ (z = y \/ \E w \in L : z \in Kids(ns[w]))

\* Every page of the tree has such a page at every level below its own.
LEMMA FirstDown ==
  ASSUME NEW ns, NEW lev, Leveled(ns, lev), NEW L, NEW tops, Tree(ns, L, tops),
         NEW n \in Nat
  PROVE  \A y \in L : n <= lev[y] => Reached(ns, lev, L, n, y)
<1> DEFINE Has(y) == Reached(ns, lev, L, n, y)
           T == {m \in Nat : \A y \in L : lev[y] = n + m => Has(y)}
<1>1. /\ L \subseteq 1..Len(ns) /\ \A q \in L : Kids(ns[q]) \subseteq L
      /\ \A q \in L : lev[q] \in Nat
  <2>1. L \subseteq 1..Len(ns) /\ \A q \in L : Kids(ns[q]) \subseteq L
    BY DEF Tree
  <2> QED BY <2>1, PageIs
<1>2. 0 \in T
  BY DEF Reached
<1>3. ASSUME NEW m \in Nat, m \in T PROVE m + 1 \in T
  <2> SUFFICES ASSUME NEW y \in L, lev[y] = n + (m + 1) PROVE Has(y)
    OBVIOUS
  <2> DEFINE c == ns[y].ptrs[1]
  <2>1. ~ns[y].leaf
    <3>1. lev[y] # 0
      OBVIOUS
    <3> QED BY <1>1, <3>1, PageIs
  <2>2. c \in L /\ c \in Kids(ns[y]) /\ lev[c] = n + m /\ First(ns, y) = First(ns, c)
    <3>1. c \in Kids(ns[y]) /\ lev[c] = lev[y] - 1 /\ First(ns, y) = First(ns, c)
      BY <1>1, <2>1, FirstsAre
    <3> QED BY <1>1, <3>1
  <2> HIDE DEF c
  <2>3. PICK z \in L : /\ lev[z] = n /\ First(ns, z) = First(ns, c)
                       /\ (z = c \/ \E w \in L : z \in Kids(ns[w]))
    BY <1>3, <2>2 DEF Reached
  <2> QED BY <2>2, <2>3 DEF Reached
<1>4. Nat \subseteq T
  <2> HIDE DEF T
  <2> QED BY <1>2, <1>3, Induct
<1>5. ASSUME NEW y \in L, n <= lev[y] PROVE Has(y)
  <2>1. lev[y] - n \in Nat /\ lev[y] = n + (lev[y] - n)
    BY <1>1, <1>5
  <2> QED BY <1>4, <2>1
<1> QED BY <1>5

\* At one level of a tree no two pages have the same first leaf.
LEMMA FirstOnce ==
  ASSUME NEW ns, NEW lev, Leveled(ns, lev), NEW L, NEW tops, Tree(ns, L, tops)
  PROVE  \A y, z \in L : lev[y] = lev[z] /\ First(ns, y) = First(ns, z) => y = z
<1> DEFINE T == {m \in Nat : \A y, z \in L : lev[y] = m /\ lev[z] = m
                                             /\ First(ns, y) = First(ns, z) => y = z}
<1>1. /\ L \subseteq 1..Len(ns) /\ \A q \in L : Kids(ns[q]) \subseteq L
      /\ \A y, z \in L : y # z => Kids(ns[y]) \cap Kids(ns[z]) = {}
      /\ \A q \in L : lev[q] \in Nat
  <2>1. /\ L \subseteq 1..Len(ns) /\ \A q \in L : Kids(ns[q]) \subseteq L
        /\ \A y, z \in L : y # z => Kids(ns[y]) \cap Kids(ns[z]) = {}
    BY DEF Tree
  <2> QED BY <2>1, PageIs
<1>2. 0 \in T
  <2>1. \A y \in L : lev[y] = 0 => First(ns, y) = y
    <3> SUFFICES ASSUME NEW y \in L, lev[y] = 0 PROVE First(ns, y) = y
      OBVIOUS
    <3>1. ns[y].leaf
      BY <1>1, PageIs
    <3> QED BY <1>1, <3>1, FirstsAre
  <2> QED BY <2>1
<1>3. ASSUME NEW m \in Nat, m \in T PROVE m + 1 \in T
  <2> SUFFICES ASSUME NEW y \in L, NEW z \in L, lev[y] = m + 1, lev[z] = m + 1,
                      First(ns, y) = First(ns, z)
               PROVE  y = z
    OBVIOUS
  <2>1. \A q \in L : lev[q] = m + 1 => /\ ns[q].ptrs[1] \in Kids(ns[q]) /\ ns[q].ptrs[1] \in L
                                       /\ lev[ns[q].ptrs[1]] = m
                                       /\ First(ns, q) = First(ns, ns[q].ptrs[1])
    <3> SUFFICES ASSUME NEW q \in L, lev[q] = m + 1
                 PROVE  /\ ns[q].ptrs[1] \in Kids(ns[q]) /\ ns[q].ptrs[1] \in L
                        /\ lev[ns[q].ptrs[1]] = m
                        /\ First(ns, q) = First(ns, ns[q].ptrs[1])
      OBVIOUS
    <3>1. ~ns[q].leaf
      BY <1>1, PageIs
    <3>2. /\ ns[q].ptrs[1] \in Kids(ns[q]) /\ lev[ns[q].ptrs[1]] = lev[q] - 1
          /\ First(ns, q) = First(ns, ns[q].ptrs[1])
      BY <1>1, <3>1, FirstsAre
    <3> QED BY <1>1, <3>2
  <2>2. ns[y].ptrs[1] = ns[z].ptrs[1]
    BY <1>3, <2>1
  <2> QED BY <1>1, <2>1, <2>2
<1>4. Nat \subseteq T
  <2> HIDE DEF T
  <2> QED BY <1>2, <1>3, Induct
<1> QED BY <1>1, <1>4

\* A page that is not the first child of its parent does not have the root's first leaf.
LEMMA NotFirst ==
  ASSUME NEW ns, NEW lev, Leveled(ns, lev), NEW L, NEW root, Tree(ns, L, {root}),
         NEW p \in L, ~ns[p].leaf, NEW i \in 1..Len(ns[p].ptrs), i > 1
  PROVE  First(ns, ns[p].ptrs[i]) # First(ns, root)
<1> DEFINE x == ns[p].ptrs[i]
<1>1. /\ L \subseteq 1..Len(ns) /\ root \in L /\ \A q \in L : Kids(ns[q]) \subseteq L \ {root}
      /\ \A y, z \in L : y # z => Kids(ns[y]) \cap Kids(ns[z]) = {}
  BY DEF Tree
<1>2. \A q \in L : lev[q] \in Nat
  BY <1>1, PageIs
<1>3. x \in Kids(ns[p]) /\ lev[x] = lev[p] - 1 /\ InternalFits(ns[p])
  BY <1>1, PageIs
<1>4. x \in L /\ x # root /\ lev[x] \in Nat
  BY <1>1, <1>2, <1>3
<1>5. Distinct(ns[p].ptrs) /\ ns[p].ptrs \in Seq(Nat)
  BY <1>3, InternalPage
<1>6. x # ns[p].ptrs[1]
  <2>1. 1 \in DOMAIN ns[p].ptrs /\ i \in DOMAIN ns[p].ptrs
    BY <1>5
  <2> QED BY <1>5, <2>1 DEF Distinct
<1> HIDE DEF x
<1> SUFFICES ASSUME First(ns, x) = First(ns, root) PROVE FALSE
  BY DEF x
<1>7. CASE lev[x] >= lev[root]
  <2>0. Reached(ns, lev, L, lev[root], x)
    BY <1>1, <1>2, <1>4, <1>7, FirstDown, Zenon
  <2>1. PICK z \in L : /\ lev[z] = lev[root] /\ First(ns, z) = First(ns, x)
                       /\ (z = x \/ \E w \in L : z \in Kids(ns[w]))
    BY <2>0 DEF Reached
  <2>2. z = root
    BY <1>1, <2>1, FirstOnce
  <2> QED BY <1>1, <1>4, <2>1, <2>2
<1>8. CASE ~(lev[x] >= lev[root])
  <2>1. lev[x] + 1 <= lev[root] /\ lev[x] + 1 \in Nat
    BY <1>1, <1>2, <1>4, <1>8
  <2>8. Reached(ns, lev, L, lev[x] + 1, root)
    BY <1>1, <2>1, FirstDown, Zenon
  <2>2. PICK z \in L : lev[z] = lev[x] + 1 /\ First(ns, z) = First(ns, root)
    BY <2>8 DEF Reached
  <2>3. ~ns[z].leaf
    BY <1>1, <1>4, <2>2, PageIs
  <2>4. /\ First(ns, z) = First(ns, ns[z].ptrs[1]) /\ ns[z].ptrs[1] \in Kids(ns[z])
        /\ lev[ns[z].ptrs[1]] = lev[z] - 1
    BY <1>1, <2>3, FirstsAre
  <2>5. ns[z].ptrs[1] \in L /\ lev[ns[z].ptrs[1]] = lev[x]
    BY <1>1, <1>4, <2>2, <2>4
  <2>6. ns[z].ptrs[1] = x
    BY <1>4, <2>2, <2>4, <2>5, FirstOnce
  <2>7. z = p
    BY <1>1, <1>3, <2>4, <2>6
  <2> QED BY <1>6, <2>6, <2>7
<1> QED BY <1>7, <1>8

\* The pages of ns are the same kind of pages in new, with the same first children, but
\* for page r, which may have another first child.
HeadsBut(ns, new, r) ==
  \A x \in 1..Len(ns) :
    new[x].leaf = ns[x].leaf /\ (~ns[x].leaf /\ x # r => new[x].ptrs[1] = ns[x].ptrs[1])

\* Every page that started at the first leaf of root still does.
StillFirst(ns, new, root) ==
  \A x \in 1..Len(ns) : First(ns, x) = First(ns, root) => First(new, x) = First(ns, root)

\* Pages that start at the first leaf keep doing so when only the first child of a page
\* that does not is changed.
LEMMA HeadsKept ==
  ASSUME NEW ns, NEW lev, Leveled(ns, lev), NEW new, NEW lv, Leveled(new, lv),
         Len(ns) <= Len(new), NEW root, NEW r, HeadsBut(ns, new, r),
         r \in 1..Len(ns) => First(ns, r) # First(ns, root)
  PROVE  StillFirst(ns, new, root)
<1> DEFINE f == First(ns, root)
           Good(x) == First(ns, x) = f => First(new, x) = f
           T == {m \in Nat : \A x \in 1..Len(ns) : lev[x] = m => Good(x)}
<1>1. /\ \A x \in 1..Len(ns) : x \in 1..Len(new) /\ lev[x] \in Nat
      /\ \A x \in 1..Len(ns) : x = r => First(ns, x) # f
  <2>1. Len(ns) \in Nat /\ Len(new) \in Nat
    BY DEF Leveled
  <2> QED BY <2>1, PageIs
<1> HIDE DEF f
<1>2. ASSUME NEW x \in 1..Len(ns), ns[x].leaf PROVE Good(x)
  <2>1. First(ns, x) = x
    BY <1>2, FirstsAre
  <2>2. new[x].leaf
    BY <1>2 DEF HeadsBut
  <2>3. First(new, x) = x
    BY <1>1, <2>2, FirstsAre
  <2> QED BY <2>1, <2>3
<1>3. ASSUME NEW x \in 1..Len(ns), ~ns[x].leaf, Good(ns[x].ptrs[1]) PROVE Good(x)
  <2> SUFFICES ASSUME First(ns, x) = f PROVE First(new, x) = f
    OBVIOUS
  <2>1. First(ns, ns[x].ptrs[1]) = f
    BY <1>3, FirstsAre
  <2>2. ~new[x].leaf /\ new[x].ptrs[1] = ns[x].ptrs[1]
    BY <1>1, <1>3 DEF HeadsBut
  <2>3. First(new, x) = First(new, new[x].ptrs[1])
    BY <1>1, <2>2, FirstsAre
  <2> QED BY <1>3, <2>1, <2>2, <2>3
<1>4. ASSUME NEW x \in 1..Len(ns), ~ns[x].leaf
      PROVE  ns[x].ptrs[1] \in 1..Len(ns) /\ lev[ns[x].ptrs[1]] = lev[x] - 1
  BY <1>4, FirstsAre
<1> HIDE DEF Good
<1>5. 0 \in T
  <2>1. \A x \in 1..Len(ns) : lev[x] = 0 => ns[x].leaf
    BY PageIs
  <2> QED BY <1>2, <2>1
<1>6. ASSUME NEW m \in Nat, m \in T PROVE m + 1 \in T
  <2> SUFFICES ASSUME NEW x \in 1..Len(ns), lev[x] = m + 1 PROVE Good(x)
    OBVIOUS
  <2>1. ~ns[x].leaf
    <3>1. lev[x] # 0
      OBVIOUS
    <3> QED BY <3>1, PageIs
  <2>2. ns[x].ptrs[1] \in 1..Len(ns) /\ lev[ns[x].ptrs[1]] = m
    BY <1>4, <2>1
  <2>3. Good(ns[x].ptrs[1])
    BY <1>6, <2>2
  <2> QED BY <1>3, <2>1, <2>3
<1>7. Nat \subseteq T
  <2> HIDE DEF T
  <2> QED BY <1>5, <1>6, Induct
<1>8. \A x \in 1..Len(ns) : Good(x)
  BY <1>1, <1>7
<1> QED BY <1>8 DEF Good, f, StillFirst

\* One change after another: of the pages, and of the first leaves.
LEMMA HeadsTwice ==
  ASSUME NEW ns, NEW mid, NEW new, NEW r, Len(ns) \in Nat, Len(mid) \in Nat,
         Len(ns) <= Len(mid), HeadsBut(ns, mid, r), HeadsBut(mid, new, r)
  PROVE  HeadsBut(ns, new, r)
<1>1. \A x \in 1..Len(ns) : x \in 1..Len(mid)
  OBVIOUS
<1> QED BY <1>1 DEF HeadsBut

LEMMA StillTwice ==
  ASSUME NEW ns, NEW mid, NEW new, NEW root, Len(mid) = Len(ns), root \in 1..Len(ns),
         StillFirst(ns, mid, root), StillFirst(mid, new, root)
  PROVE  StillFirst(ns, new, root)
<1>1. First(mid, root) = First(ns, root)
  BY DEF StillFirst
<1> QED BY <1>1 DEF StillFirst

\* Sequences changed behind their first element keep it.
LEMMA HeadInserted ==
  ASSUME NEW S, NEW s \in Seq(S), NEW at \in 1..Len(s) + 1, at > 1, NEW x \in S
  PROVE  InsertAt(s, at, x)[1] = s[1]
<1>1. \A i \in 1..Len(s) + 1 : i < at => InsertAt(s, at, x)[i] = s[i]
  BY InsertAtIs
<1>2. 1 \in 1..Len(s) + 1 /\ 1 < at
  OBVIOUS
<1> QED BY <1>1, <1>2

LEMMA HeadRemoved ==
  ASSUME NEW S, NEW s \in Seq(S), NEW at \in 1..Len(s), at > 1
  PROVE  RemoveAt(s, at)[1] = s[1]
<1>1. \A i \in 1..Len(s) - 1 : RemoveAt(s, at)[i] = IF i < at THEN s[i] ELSE s[i + 1]
  BY RemoveAtIs
<1>2. 1 \in 1..Len(s) - 1 /\ 1 < at
  OBVIOUS
<1> QED BY <1>1, <1>2

LEMMA HeadJoined ==
  ASSUME NEW S, NEW s \in Seq(S), NEW r \in Seq(S), Len(s) > 0
  PROVE  (s \o r)[1] = s[1]
<1>1. 1 \in 1..Len(s)
  OBVIOUS
<1> QED BY <1>1, ConcatIs

LEMMA HeadCut ==
  ASSUME NEW S, NEW s \in Seq(S), NEW n \in 1..Len(s)
  PROVE  SubSeq(s, 1, n)[1] = s[1]
<1>1. 1 \in 1..Len(s) + 1 /\ n \in 0..Len(s) /\ 1 <= n + 1 /\ 1 \in 1..n - 1 + 1
  OBVIOUS
<1>2. \A i \in 1..n - 1 + 1 : SubSeq(s, 1, n)[i] = s[1 + i - 1]
  BY <1>1, SubSeqIs
<1> QED BY <1>1, <1>2

-----------------------------------------------------------------------------
(* Insertion. *)

\* What WriteNode and AppendNode do to a view.
LEMMA Written ==
  ASSUME NEW t \in View, NEW p, NEW n
  PROVE  /\ WriteNode(t, p, n).nodes = [t.nodes EXCEPT ![p] = n]
         /\ WriteNode(t, p, n).root = t.root /\ WriteNode(t, p, n).count = t.count
         /\ [t.nodes EXCEPT ![p] = n] \in Seq(Node) => WriteNode(t, p, n) \in View
BY DEF WriteNode, View

LEMMA AppendedTo ==
  ASSUME NEW t \in View, NEW n \in Node
  PROVE  /\ AppendNode(t, n).nodes = Append(t.nodes, n)
         /\ AppendNode(t, n).root = t.root /\ AppendNode(t, n).count = t.count + 1
         /\ AppendNode(t, n) \in View
<1>1. t.nodes \in Seq(Node) /\ t.root \in Nat /\ t.count \in Nat
  BY DEF View
<1>2. Append(t.nodes, n) \in Seq(Node) /\ t.count + 1 \in Nat
  BY <1>1
<1>3. AppendNode(t, n).nodes = Append(t.nodes, n)
  BY DEF AppendNode, View
<1>4. AppendNode(t, n).root = t.root /\ AppendNode(t, n).count = t.count + 1
  BY DEF AppendNode, View
<1>5. AppendNode(t, n) \in View
  BY <1>2 DEF AppendNode, View
<1> QED BY <1>3, <1>4, <1>5

\* What an insertion has made of the pages up to level k: a tree with root alone at its
\* top, or with root and the new page of a split that its parent is still to be told of.
GrownTo(d, ns, lev, L, root, k, lv, M) ==
  /\ Leveled(d.tree.nodes, lv) /\ \A q \in 1..Len(ns) : lv[q] = lev[q]
  /\ L \subseteq M /\ Keyed(d.tree.nodes, M)
  /\ d.split = NoSplit => Tree(d.tree.nodes, M, {root})
  /\ d.split # NoSplit => /\ Tree(d.tree.nodes, M, {root, d.split.page})
                          /\ d.split.key \in Keys /\ d.split.page # root
                          /\ lv[d.split.page] = k

Grown(d, ns, lev, L, root, k) ==
  /\ d \in [tree : View, split : Split]
  /\ d.tree.root = root /\ d.tree.count = Len(d.tree.nodes) + 1
  /\ Len(ns) <= Len(d.tree.nodes) /\ HeadsBut(ns, d.tree.nodes, 0)
  /\ \A q \in 1..Len(ns) : lev[q] > k => d.tree.nodes[q] = ns[q]
  /\ \E lv, M : GrownTo(d, ns, lev, L, root, k, lv, M)

\* A view of a file with a tree of pages L.
GoodView(t, lev, L) ==
  /\ t \in View /\ t.count = Len(t.nodes) + 1
  /\ Leveled(t.nodes, lev) /\ Tree(t.nodes, L, {t.root}) /\ Keyed(t.nodes, L)

\* One of a file of n pages at least.
LargeView(t, lev, L, n) == GoodView(t, lev, L) /\ n <= Len(t.nodes)

\* The two halves of n.
LEMMA HalfIs ==
  ASSUME NEW n \in Nat
  PROVE  n \div 2 \in Nat /\ 2 * (n \div 2) <= n /\ n <= 2 * (n \div 2) + 1
OBVIOUS

\* The entries of a leaf with one more, and the halves they are split into.
More(n, e)      == InsertAt(n.entries, findInsertPos(KeysOf(n.entries), e.key), e)
MoreLeft(n, e)  == Len(More(n, e)) \div 2
MoreRight(n, e) == SubSeq(More(n, e), MoreLeft(n, e) + 1, Len(More(n, e)))

\* A leaf with one entry more, halved: both halves fit.
LEMMA MoreIs ==
  ASSUME NEW n, LeafFits(n), NEW e \in Entry
  PROVE  /\ More(n, e) \in Seq(Entry) /\ Len(More(n, e)) = Len(n.entries) + 1
         /\ Len(n.entries) \in Nat
         /\ SubSeq(More(n, e), 1, MoreLeft(n, e)) \in Seq(Entry)
         /\ Len(SubSeq(More(n, e), 1, MoreLeft(n, e))) <= Len(n.entries)
         /\ MoreRight(n, e) \in Seq(Entry)
         /\ MoreRight(n, e)[1] \in Entry
         /\ Len(n.entries) > 0 => Len(MoreRight(n, e)) <= Len(n.entries)
<1> DEFINE all   == More(n, e)
           left  == MoreLeft(n, e)
           right == MoreRight(n, e)
<1>1. n.entries \in Seq(Entry) /\ Len(n.entries) \in Nat
  BY DEF LeafFits
<1>2. findInsertPos(KeysOf(n.entries), e.key) \in 1..Len(n.entries) + 1
  BY <1>1, KeysOfIs, PositionIs
<1>3. all \in Seq(Entry) /\ Len(all) = Len(n.entries) + 1
  BY <1>1, <1>2, InsertAtIs DEF More
<1>0. left = Len(all) \div 2 /\ right = SubSeq(all, left + 1, Len(all))
  BY DEF More, MoreLeft, MoreRight
<1> HIDE DEF all, left, right
<1>4. left \in Nat /\ left <= Len(n.entries) /\ (Len(n.entries) > 0 => left >= 1)
  <2>1. Len(all) \in Nat
    BY <1>3
  <2>2. left \in Nat /\ 2 * left <= Len(all) /\ Len(all) <= 2 * left + 1
    BY <1>0, <2>1, HalfIs
  <2> QED BY <1>1, <1>3, <2>2
<1>5. SubSeq(all, 1, left) \in Seq(Entry) /\ Len(SubSeq(all, 1, left)) = left
  <2>1. 1 \in 1..Len(all) + 1 /\ left \in 0..Len(all) /\ 1 <= left + 1
    BY <1>1, <1>3, <1>4
  <2> QED BY <1>3, <2>1, SubSeqIs
<1>6. right \in Seq(Entry) /\ Len(right) = Len(all) - left
  <2>1. left + 1 \in 1..Len(all) + 1 /\ Len(all) \in 0..Len(all) /\ left + 1 <= Len(all) + 1
    BY <1>1, <1>3, <1>4
  <2>2. /\ SubSeq(all, left + 1, Len(all)) \in Seq(Entry)
        /\ Len(SubSeq(all, left + 1, Len(all))) = Len(all) - (left + 1) + 1
    BY <1>3, <2>1, SubSeqIs
  <2>3. right = SubSeq(all, left + 1, Len(all))
    BY <1>0
  <2>4. right \in Seq(Entry) /\ Len(right) = Len(all) - (left + 1) + 1
    BY <2>2, <2>3
  <2> QED BY <1>1, <1>3, <1>4, <2>4
<1>7. right[1] \in Entry
  <2>1. 1 \in 1..Len(right)
    BY <1>1, <1>3, <1>4, <1>6
  <2> QED BY <1>6, <2>1
<1>8. /\ Len(n.entries) > 0 => Len(right) <= Len(n.entries)
      /\ Len(SubSeq(all, 1, left)) <= Len(n.entries)
  BY <1>1, <1>3, <1>4, <1>5, <1>6
<1> QED BY <1>1, <1>3, <1>5, <1>6, <1>7, <1>8 DEF all, left, right

\* An insertion into a leaf leaves a tree that has grown at level 0.
LEMMA LeafInsert ==
  ASSUME NumericKeys, NEW t, NEW lev, NEW L, GoodView(t, lev, L), NEW p \in L, lev[p] = 0,
         NEW e \in Entry
  PROVE  Grown(insertIntoLeaf(t, p, e), t.nodes, lev, L, t.root, 0)
<1> DEFINE ns    == t.nodes
           n     == ns[p]
           d     == insertIntoLeaf(t, p, e)
           all   == More(n, e)
           a     == Leaf(SubSeq(all, 1, MoreLeft(n, e)), t.count)
           b     == Leaf(MoreRight(n, e), n.next)
           whole == Leaf(all, n.next)
<1>0. /\ t \in View /\ t.count = Len(ns) + 1 /\ Leveled(ns, lev) /\ Tree(ns, L, {t.root})
      /\ Keyed(ns, L)
  BY DEF GoodView
<1>1. /\ t \in View /\ t.count = Len(ns) + 1 /\ Leveled(ns, lev) /\ Tree(ns, L, {t.root})
      /\ Keyed(ns, L) /\ p \in 1..Len(ns) /\ ns \in Seq(Node) /\ Len(ns) \in Nat
  <2>1. L \subseteq 1..Len(ns)
    BY <1>0 DEF Tree
  <2>2. ns \in Seq(Node)
    BY <1>0 DEF Leveled
  <2> QED BY <1>0, <2>1, <2>2
<1>2. /\ n.leaf = TRUE /\ LeafFits(n) /\ Kids(n) = {} /\ n.next \in 0..Len(ns)
      /\ n.next # 0 => lev[n.next] = 0
      /\ DOMAIN lev = 1..Len(ns) /\ 10 * Len(n.entries) <= Room
  <2> HIDE DEF ns
  <2> QED BY <1>1, LeafPageIs, ZenonT(60)
<1>3. d = IF KeyLen[e.key] + Fso(n) + RID_SIZE <= PAGE_SIZE
          THEN [tree |-> WriteNode(t, p, whole), split |-> NoSplit]
          ELSE [tree |-> WriteNode(AppendNode(t, b), p, a),
                split |-> [key |-> MoreRight(n, e)[1].key, page |-> t.count]]
  BY DEF insertIntoLeaf, More, MoreLeft, MoreRight
<1>4. /\ all \in Seq(Entry) /\ Len(all) = Len(n.entries) + 1
      /\ Len(n.entries) \in Nat
      /\ SubSeq(all, 1, MoreLeft(n, e)) \in Seq(Entry)
      /\ Len(SubSeq(all, 1, MoreLeft(n, e))) <= Len(n.entries)
      /\ MoreRight(n, e) \in Seq(Entry)
      /\ MoreRight(n, e)[1] \in Entry
      /\ Len(n.entries) > 0 => Len(MoreRight(n, e)) <= Len(n.entries)
  BY <1>2, MoreIs
<1>5. /\ Fso(n) = 16 + 10 * Len(n.entries) /\ KeyLen[e.key] = 4 /\ RID_SIZE = 6
      /\ Room = PAGE_SIZE - 16 /\ PAGE_SIZE \in Nat /\ PAGE_SIZE >= 40
  <2>1. e.key \in Keys
    BY DEF Entry
  <2>2. Fso(n) = 16 + 10 * Len(n.entries)
    BY <1>2, FsoIs
  <2> QED BY <2>1, <2>2, BTreeAssumption DEF NumericKeys, RID_SIZE, Room, METADATA_SIZE
<1> HIDE DEF all
<1>6. CASE KeyLen[e.key] + Fso(n) + RID_SIZE <= PAGE_SIZE
  <2>1. 10 * Len(all) <= Room
    BY <1>4, <1>5, <1>6, SMTT(30)
  <2>2. LeafFits(whole) /\ whole \in Node /\ Kids(whole) = {} /\ whole.next = n.next
    <3>1. n.next \in Nat /\ all \in Seq(Entry)
      BY <1>2, <1>4
    <3> QED BY <2>1, <3>1, LeafIs
  <2> DEFINE new == [ns EXCEPT ![p] = whole]
  <2>3. GoodPage(whole, lev[p], lev)
    <3> HIDE DEF whole
    <3> QED BY <1>2, <2>2 DEF GoodPage
  <2> HIDE DEF whole
  <2>4. Leveled(new, lev) /\ SameBut(new, ns, p) /\ new[p] = whole
    BY <1>1, <2>2, <2>3, Rewritten
  <2>5. new \in Seq(Node)
    BY <2>4 DEF Leveled
  <2>6. d.tree.nodes = new /\ d.tree.root = t.root /\ d.tree.count = t.count /\ d.split = NoSplit
        /\ d \in [tree : View, split : Split]
    <3>1. NoSplit \in Split
      BY DEF NoSplit, Split
    <3>2. /\ WriteNode(t, p, whole).nodes = new /\ WriteNode(t, p, whole) \in View
          /\ WriteNode(t, p, whole).root = t.root /\ WriteNode(t, p, whole).count = t.count
      BY <1>1, <2>5, Written
    <3>3. d = [tree |-> WriteNode(t, p, whole), split |-> NoSplit]
      BY <1>3, <1>6
    <3> HIDE DEF d, new
    <3> QED BY <3>1, <3>2, <3>3
  <2> HIDE DEF d, new
  <2>7. /\ Len(new) = Len(ns) /\ \A q \in 1..Len(ns) : q # p => new[q] = ns[q]
    BY <2>4 DEF SameBut
  <2>8. L \subseteq 1..Len(ns)
    BY <1>1 DEF Tree
  <2>9. Tree(new, L, {t.root} \ {})
    <3>1. \A q \in L : q # p => new[q] = ns[q]
      BY <2>7, <2>8
    <3>2. Kids(new[p]) = Kids(ns[p]) \cup {}
      BY <1>2, <2>2, <2>4
    <3> QED BY <1>1, <2>7, <3>1, <3>2, TreeRewritten
  <2>10. Keyed(new, L)
    <3>1. new[p].leaf = TRUE
      BY <2>2, <2>4 DEF LeafFits, Leaf
    <3> QED BY <1>1, <2>7, <2>8, <3>1 DEF Keyed
  <2>11. GrownTo(d, ns, lev, L, t.root, 0, lev, L)
    <3>1. {t.root} \ {} = {t.root}
      OBVIOUS
    <3> QED BY <2>4, <2>6, <2>9, <2>10, <3>1 DEF GrownTo
  <2>12. \A q \in 1..Len(ns) : lev[q] > 0 => new[q] = ns[q]
    BY <2>7
  <2>13. HeadsBut(ns, new, 0)
    <3>1. new[p].leaf = TRUE /\ ns[p].leaf = TRUE
      BY <1>2, <2>2, <2>4 DEF LeafFits, Leaf
    <3> QED BY <2>7, <3>1 DEF HeadsBut
  <2> QED BY <1>1, <2>6, <2>7, <2>11, <2>12, <2>13 DEF Grown, d
<1>7. CASE ~(KeyLen[e.key] + Fso(n) + RID_SIZE <= PAGE_SIZE)
  <2>1. Len(n.entries) > 0
    BY <1>4, <1>5, <1>7
  <2> DEFINE x  == Len(ns) + 1
             lv == Extended(lev, Len(ns), lev[p])
             new == [Append(ns, b) EXCEPT ![p] = a]
  <2>2. /\ LeafFits(a) /\ a \in Node /\ Kids(a) = {} /\ a.next = x /\ a.leaf = TRUE
        /\ LeafFits(b) /\ b \in Node /\ Kids(b) = {} /\ b.next = n.next /\ b.leaf = TRUE
    <3>1. /\ 10 * Len(SubSeq(all, 1, MoreLeft(n, e))) <= Room
          /\ 10 * Len(MoreRight(n, e)) <= Room
      <4>1. Len(SubSeq(all, 1, MoreLeft(n, e))) \in Nat /\ Len(MoreRight(n, e)) \in Nat
        BY <1>4
      <4> QED BY <1>2, <1>4, <1>5, <2>1, <4>1, SMTT(30)
    <3>2. t.count \in Nat /\ n.next \in Nat
      BY <1>1, <1>2
    <3>3. LeafFits(a) /\ a \in Node /\ Kids(a) = {} /\ a.next = t.count /\ a.leaf = TRUE
      BY <1>4, <3>1, <3>2, LeafIs
    <3>4. LeafFits(b) /\ b \in Node /\ Kids(b) = {} /\ b.next = n.next /\ b.leaf = TRUE
      BY <1>4, <3>1, <3>2, LeafIs
    <3> QED BY <1>1, <3>3, <3>4
  <2>3. DOMAIN lv = 1..x /\ lv[x] = 0 /\ \A q \in 1..Len(ns) : lv[q] = lev[q]
    BY <1>1 DEF Extended
  <2>4. GoodPage(a, lev[p], lv) /\ GoodPage(b, lev[p], lv)
    <3> HIDE DEF a, b, lv
    <3>1. x \in 1..x /\ \A q \in 1..Len(ns) : q \in 1..x
      BY <1>1
    <3>2. n.next = 0 \/ (n.next \in DOMAIN lv /\ lv[n.next] = 0)
      BY <1>2, <2>3, <3>1
    <3> QED BY <2>2, <2>3, <3>1, <3>2 DEF GoodPage
  <2> HIDE DEF a, b
  <2>5. /\ Leveled(new, lv) /\ Len(new) = x /\ new[p] = a /\ new[x] = b /\ lv[x] = lev[p]
        /\ \A q \in 1..Len(ns) : lv[q] = lev[q] /\ (q # p => new[q] = ns[q])
        /\ x \in 1..Len(new) /\ x \notin 1..Len(ns) /\ new \in Seq(Node)
    BY <1>1, <2>2, <2>4, PageSplit
  <2>6. /\ d.tree.nodes = new /\ d.tree.root = t.root /\ d.tree.count = x + 1
        /\ d.split.page = x /\ d.split.key \in Keys
        /\ d \in [tree : View, split : Split]
    <3> DEFINE u == AppendNode(t, b)
               s == [key |-> MoreRight(n, e)[1].key, page |-> t.count]
    <3>1. u.nodes = Append(ns, b) /\ u.root = t.root /\ u.count = t.count + 1 /\ u \in View
      BY <1>1, <2>2, AppendedTo
    <3> HIDE DEF u
    <3>6. [u.nodes EXCEPT ![p] = a] = new
      BY <3>1
    <3>2. /\ WriteNode(u, p, a).nodes = new /\ WriteNode(u, p, a) \in View
          /\ WriteNode(u, p, a).root = t.root /\ WriteNode(u, p, a).count = t.count + 1
      <4>1. /\ WriteNode(u, p, a).nodes = [u.nodes EXCEPT ![p] = a]
            /\ WriteNode(u, p, a).root = u.root /\ WriteNode(u, p, a).count = u.count
            /\ [u.nodes EXCEPT ![p] = a] \in Seq(Node) => WriteNode(u, p, a) \in View
        BY <3>1, Written
      <4> HIDE DEF new
      <4>2. [u.nodes EXCEPT ![p] = a] \in Seq(Node)
        BY <2>5, <3>6
      <4> QED BY <3>1, <3>6, <4>1, <4>2
    <3>3. MoreRight(n, e)[1].key \in Keys /\ Keys \subseteq Int
      BY <1>4, BTreeAssumption DEF Entry
    <3>4. s \in Split /\ s.page = x /\ s.key \in Keys
      <4>1. t.count \in Nat /\ t.count = x /\ MoreRight(n, e)[1].key \in Int
        <5>1. t.count = Len(ns) + 1 /\ Len(ns) \in Nat
          BY <1>1
        <5>2. MoreRight(n, e)[1].key \in Int
          BY <3>3
        <5> QED BY <5>1, <5>2
      <4>2. s \in Split
        BY <4>1 DEF Split
      <4>3. s.page = t.count /\ s.key = MoreRight(n, e)[1].key
        OBVIOUS
      <4> HIDE DEF s
      <4> QED BY <3>3, <4>1, <4>2, <4>3
    <3>5. d = [tree |-> WriteNode(u, p, a), split |-> s]
      BY <1>3, <1>7 DEF u
    <3> HIDE DEF d, new, s
    <3> QED BY <1>1, <3>2, <3>4, <3>5
  <2> HIDE DEF d, new, lv
  <2>7. d.split # NoSplit
    BY <1>1, <2>6 DEF NoSplit
  <2>8. L \subseteq 1..Len(ns) /\ t.root \in L
    BY <1>1 DEF Tree
  <2>9. Tree(new, L \cup {x}, ({t.root} \ {}) \cup {x})
    <3>1. \A q \in L : q # p => new[q] = ns[q]
      BY <2>5, <2>8
    <3>2. Kids(new[p]) \cup Kids(new[x]) = Kids(ns[p]) \cup {} /\ Kids(new[p]) \cap Kids(new[x]) = {}
      BY <1>2, <2>2, <2>5
    <3>3. Len(new) = Len(ns) + 1 /\ x = Len(ns) + 1
      BY <2>5
    <3> HIDE DEF x
    <3> QED BY <1>1, <3>1, <3>2, <3>3, TreeSplit
  <2>10. Keyed(new, L \cup {x})
    BY <1>1, <2>2, <2>5, <2>8 DEF Keyed
  <2>11. GrownTo(d, ns, lev, L, t.root, 0, lv, L \cup {x})
    <3>1. ({t.root} \ {}) \cup {x} = {t.root, d.split.page}
      BY <2>6
    <3>2. d.split.page # t.root
      BY <2>5, <2>6, <2>8
    <3>3. lv[d.split.page] = 0
      BY <2>3, <2>6
    <3> QED BY <2>5, <2>6, <2>7, <2>9, <2>10, <3>1, <3>2, <3>3 DEF GrownTo
  <2>12. \A q \in 1..Len(ns) : lev[q] > 0 => new[q] = ns[q]
    BY <2>5
  <2>13. Len(ns) <= Len(new)
    BY <1>1, <2>5
  <2>14. HeadsBut(ns, new, 0)
    BY <1>2, <2>2, <2>5 DEF HeadsBut
  <2> QED BY <1>1, <2>5, <2>6, <2>11, <2>12, <2>13, <2>14 DEF Grown, d
<1> QED BY <1>6, <1>7

\* The keys and the pointers of an internal page with one more of each, and its halves.
MoreKeys(n, s) == InsertAt(n.keys, findInsertPos(n.keys, s.key), s.key)
MorePtrs(n, s) == InsertAt(n.ptrs, findInsertPos(n.keys, s.key) + 1, s.page)

LeftHalf(keys, ptrs)  == Internal(SubSeq(keys, 1, Len(keys) \div 2),
                                  SubSeq(ptrs, 1, Len(keys) \div 2 + 1))
RightHalf(keys, ptrs) == Internal(SubSeq(keys, Len(keys) \div 2 + 2, Len(keys)),
                                  SubSeq(ptrs, Len(keys) \div 2 + 2, Len(ptrs)))

\* An internal page with one key and one pointer more.
LEMMA MoreKeysAre ==
  ASSUME NEW n, InternalFits(n), NEW s, s.key \in Keys, s.page \in Nat, s.page \notin Kids(n)
  PROVE  /\ MoreKeys(n, s) \in Seq(Keys) /\ Len(MoreKeys(n, s)) = Len(n.keys) + 1
         /\ MorePtrs(n, s) \in Seq(Nat) /\ Len(MorePtrs(n, s)) = Len(n.keys) + 2
         /\ Distinct(MorePtrs(n, s)) /\ InSeq(MorePtrs(n, s)) = Kids(n) \cup {s.page}
         /\ MorePtrs(n, s)[1] = n.ptrs[1]
<1>1. /\ n.keys \in Seq(Keys) /\ Len(n.keys) \in Nat
      /\ n.ptrs \in Seq(Nat) /\ Len(n.ptrs) = Len(n.keys) + 1 /\ Distinct(n.ptrs)
      /\ Kids(n) = InSeq(n.ptrs)
  BY InternalPage
<1> DEFINE at == findInsertPos(n.keys, s.key)
<1>2. at \in 1..Len(n.keys) + 1
  BY <1>1, PositionIs
<1>3. MoreKeys(n, s) \in Seq(Keys) /\ Len(MoreKeys(n, s)) = Len(n.keys) + 1
  BY <1>1, <1>2, InsertAtIs DEF MoreKeys
<1>4. at + 1 \in 1..Len(n.ptrs) + 1 /\ at + 1 > 1
  BY <1>1, <1>2
<1>7. MorePtrs(n, s) = InsertAt(n.ptrs, at + 1, s.page)
  BY DEF MorePtrs
<1> HIDE DEF at
<1>5. /\ MorePtrs(n, s) \in Seq(Nat) /\ Len(MorePtrs(n, s)) = Len(n.ptrs) + 1
      /\ MorePtrs(n, s)[1] = n.ptrs[1]
  <2>1. /\ InsertAt(n.ptrs, at + 1, s.page) \in Seq(Nat)
        /\ Len(InsertAt(n.ptrs, at + 1, s.page)) = Len(n.ptrs) + 1
        /\ InsertAt(n.ptrs, at + 1, s.page)[1] = n.ptrs[1]
    <3> DEFINE ptrs == n.ptrs
               pos  == at + 1
               x    == s.page
    <3>1. ptrs \in Seq(Nat) /\ pos \in 1..Len(ptrs) + 1 /\ x \in Nat
      BY <1>1, <1>4
    <3>4. pos > 1
      BY <1>4
    <3> HIDE DEF ptrs, pos, x
    <3>2. InsertAt(ptrs, pos, x) \in Seq(Nat) /\ Len(InsertAt(ptrs, pos, x)) = Len(ptrs) + 1
      BY <3>1, InsertAtIs
    <3>3. InsertAt(ptrs, pos, x)[1] = ptrs[1]
      BY <3>1, <3>4, HeadInserted
    <3> QED BY <3>2, <3>3, ZenonT(60) DEF ptrs, pos, x
  <2> QED BY <1>7, <2>1
<1>6. Distinct(MorePtrs(n, s)) /\ InSeq(MorePtrs(n, s)) = InSeq(n.ptrs) \cup {s.page}
  <2>1. s.page \notin InSeq(n.ptrs)
    BY <1>1
  <2> QED BY <1>1, <1>4, <1>7, <2>1, InsertedIs
<1> QED BY <1>1, <1>3, <1>5, <1>6

\* Its halves fit, and share the pointers.
LEMMA HalvesAre ==
  ASSUME NEW keys \in Seq(Keys), NEW ptrs \in Seq(Nat), Len(ptrs) = Len(keys) + 1,
         Len(keys) >= 3, Distinct(ptrs), 8 * Len(keys) <= Room + 4
  PROVE  /\ InternalFits(LeftHalf(keys, ptrs)) /\ InternalFits(RightHalf(keys, ptrs))
         /\ LeftHalf(keys, ptrs) \in Node /\ RightHalf(keys, ptrs) \in Node
         /\ Len(LeftHalf(keys, ptrs).keys) > 0 /\ Len(RightHalf(keys, ptrs).keys) > 0
         /\ Kids(LeftHalf(keys, ptrs)) \cup Kids(RightHalf(keys, ptrs)) = InSeq(ptrs)
         /\ Kids(LeftHalf(keys, ptrs)) \cap Kids(RightHalf(keys, ptrs)) = {}
         /\ keys[Len(keys) \div 2 + 1] \in Keys
         /\ LeftHalf(keys, ptrs).ptrs[1] = ptrs[1]
<1> DEFINE n  == Len(keys)
           m  == n \div 2
           ka == SubSeq(keys, 1, m)
           kb == SubSeq(keys, m + 2, n)
           pa == SubSeq(ptrs, 1, m + 1)
           pb == SubSeq(ptrs, m + 2, Len(ptrs))
<1>1. n \in Nat /\ m \in Nat /\ m >= 1 /\ m + 2 <= n
  <2>1. n \in Nat
    OBVIOUS
  <2>2. m \in Nat /\ 2 * m <= n /\ n <= 2 * m + 1
    BY <2>1, HalfIs
  <2>3. n >= 3
    OBVIOUS
  <2> HIDE DEF m, n
  <2> QED BY <2>1, <2>2, <2>3
<1>0. LeftHalf(keys, ptrs) = Internal(ka, pa) /\ RightHalf(keys, ptrs) = Internal(kb, pb)
  BY DEF LeftHalf, RightHalf
<1>9. Len(keys) = n /\ Len(ptrs) = n + 1 /\ 8 * n <= Room + 4
  OBVIOUS
<1> HIDE DEF m, n
<1>2. ka \in Seq(Keys) /\ Len(ka) = m
  <2>1. 1 \in 1..Len(keys) + 1 /\ m \in 0..Len(keys) /\ 1 <= m + 1
    BY <1>1, <1>9
  <2> QED BY <1>1, <2>1, SubSeqIs
<1>3. kb \in Seq(Keys) /\ Len(kb) = n - m - 1
  <2>1. m + 2 \in 1..Len(keys) + 1 /\ n \in 0..Len(keys) /\ m + 2 <= n + 1
    BY <1>1, <1>9
  <2>2. kb \in Seq(Keys) /\ Len(kb) = n - (m + 2) + 1
    BY <2>1, SubSeqIs
  <2> QED BY <1>1, <2>2
<1>4. pa \in Seq(Nat) /\ Len(pa) = m + 1
  <2>1. 1 \in 1..Len(ptrs) + 1 /\ m + 1 \in 0..Len(ptrs) /\ 1 <= m + 1 + 1
    BY <1>1, <1>9
  <2> QED BY <1>1, <2>1, SubSeqIs
<1>13. pa[1] = ptrs[1]
  <2>1. m + 1 \in 1..Len(ptrs)
    BY <1>1, <1>9
  <2> QED BY <2>1, HeadCut
<1>5. pb \in Seq(Nat) /\ Len(pb) = n - m
  <2>1. m + 2 \in 1..Len(ptrs) + 1 /\ Len(ptrs) \in 0..Len(ptrs) /\ m + 2 <= Len(ptrs) + 1
    BY <1>1, <1>9
  <2>2. pb \in Seq(Nat) /\ Len(pb) = Len(ptrs) - (m + 2) + 1
    BY <2>1, SubSeqIs
  <2> QED BY <1>1, <1>9, <2>2
<1>6. /\ Distinct(pa) /\ Distinct(pb) /\ InSeq(pa) \cup InSeq(pb) = InSeq(ptrs)
      /\ InSeq(pa) \cap InSeq(pb) = {}
  <2>1. m + 1 \in 0..Len(ptrs) /\ m + 1 + 1 = m + 2
    BY <1>1, <1>9
  <2> QED BY <2>1, CutIs
<1>7. keys[m + 1] \in Keys
  <2>1. m + 1 \in 1..Len(keys)
    BY <1>1, <1>9
  <2> QED BY <2>1
<1>8. 4 + 8 * Len(ka) <= Room /\ 4 + 8 * Len(kb) <= Room
  <2>1. Room \in Int
    BY BTreeAssumption DEF Room, METADATA_SIZE
  <2> QED BY <1>1, <1>2, <1>3, <1>9, <2>1
<1> HIDE DEF ka, kb, pa, pb
<1>10. /\ InternalFits(Internal(ka, pa)) /\ Internal(ka, pa) \in Node
       /\ Internal(ka, pa).keys = ka /\ Kids(Internal(ka, pa)) = InSeq(pa)
       /\ Internal(ka, pa).ptrs = pa
  BY <1>1, <1>2, <1>4, <1>6, <1>8, InternalIs
<1>11. /\ InternalFits(Internal(kb, pb)) /\ Internal(kb, pb) \in Node
       /\ Internal(kb, pb).keys = kb /\ Kids(Internal(kb, pb)) = InSeq(pb)
  <2>1. Len(pb) = Len(kb) + 1
    BY <1>1, <1>3, <1>5
  <2> QED BY <1>3, <1>5, <1>6, <1>8, <2>1, InternalIs
<1>12. Len(ka) > 0 /\ Len(kb) > 0
  BY <1>1, <1>2, <1>3
<1> QED BY <1>0, <1>6, <1>7, <1>10, <1>11, <1>12, <1>13 DEF m, n

\* A split passed up to page p, one level above it.
LEMMA InternalInsert ==
  ASSUME NumericKeys, NEW ns, NEW lev, NEW L, NEW root, NEW k \in Nat, k > 0,
         Leveled(ns, lev), L \subseteq 1..Len(ns), root \in L,
         NEW c, Grown(c, ns, lev, L, root, k - 1), c.split # NoSplit,
         NEW p \in L, lev[p] = k
  PROVE  Grown(insertIntoInternal(c.tree, p, c.split, 4), ns, lev, L, root, k)
<1> DEFINE t     == c.tree
           s     == c.split
           mid   == t.nodes
           n     == mid[p]
           d     == insertIntoInternal(t, p, s, 4)
           keys  == MoreKeys(n, s)
           ptrs  == MorePtrs(n, s)
           whole == Internal(keys, ptrs)
           a     == LeftHalf(keys, ptrs)
           b     == RightHalf(keys, ptrs)
<1>1. PICK lv, M : GrownTo(c, ns, lev, L, root, k - 1, lv, M)
  BY DEF Grown
<1>2. /\ t \in View /\ s \in Split /\ t.root = root /\ t.count = Len(mid) + 1
      /\ Len(ns) <= Len(mid) /\ \A q \in 1..Len(ns) : lev[q] > k - 1 => mid[q] = ns[q]
      /\ HeadsBut(ns, mid, 0)
  BY DEF Grown
<1>3. /\ Leveled(mid, lv) /\ \A q \in 1..Len(ns) : lv[q] = lev[q]
      /\ L \subseteq M /\ Keyed(mid, M) /\ Tree(mid, M, {root, s.page})
      /\ s.key \in Keys /\ s.page # root /\ lv[s.page] = k - 1
  BY <1>1 DEF GrownTo
<1>4. /\ mid \in Seq(Node) /\ Len(mid) \in Nat /\ M \subseteq 1..Len(mid) /\ s.page \in M
      /\ p \in M /\ p \in 1..Len(mid) /\ p \in 1..Len(ns) /\ lv[p] = k /\ root \in M
      /\ s.page \in 1..Len(mid) /\ s.page \in Nat /\ Len(ns) \in Nat
  <2>1. mid \in Seq(Node) /\ ns \in Seq(Node)
    BY <1>3 DEF Leveled
  <2>2. M \subseteq 1..Len(mid) /\ s.page \in M
    BY <1>3 DEF Tree
  <2>3. p \in M /\ p \in 1..Len(ns) /\ root \in M
    BY <1>3
  <2>4. lv[p] = k
    BY <1>3, <2>3
  <2>5. Len(mid) \in Nat /\ Len(ns) \in Nat
    BY <2>1
  <2> HIDE DEF mid, s
  <2> QED BY <2>1, <2>2, <2>3, <2>4, <2>5
<1>5. /\ InternalFits(n) /\ n.leaf = FALSE /\ DOMAIN lv = 1..Len(mid)
      /\ \A q \in Kids(n) : q \in 1..Len(mid) /\ lv[q] = k - 1
  <2> HIDE DEF mid
  <2>1. lv[p] # 0
    BY <1>4
  <2>2. /\ InternalFits(mid[p]) /\ mid[p].leaf = FALSE /\ DOMAIN lv = 1..Len(mid)
        /\ \A q \in Kids(mid[p]) : q \in 1..Len(mid) /\ lv[q] = lv[p] - 1
    <3>1. Leveled(mid, lv) /\ p \in 1..Len(mid)
      BY <1>3, <1>4
    <3>2. InternalFits(mid[p]) /\ mid[p].leaf = FALSE /\ DOMAIN lv = 1..Len(mid)
      BY <2>1, <3>1, InternalPageIs
    <3>3. \A q \in Kids(mid[p]) : q \in 1..Len(mid) /\ lv[q] = lv[p] - 1
      BY <3>1, PageIs
    <3> QED BY <3>2, <3>3
  <2> QED BY <1>4, <2>2
<1>6. s.page \notin Kids(n)
  BY <1>3, <1>4 DEF Tree
<1>7. /\ keys \in Seq(Keys) /\ Len(keys) = Len(n.keys) + 1
      /\ ptrs \in Seq(Nat) /\ Len(ptrs) = Len(n.keys) + 2
      /\ Distinct(ptrs) /\ InSeq(ptrs) = Kids(n) \cup {s.page} /\ ptrs[1] = n.ptrs[1]
  BY <1>3, <1>4, <1>5, <1>6, MoreKeysAre
<1>8. d = IF 4 + Fso(n) + PTR_SIZE <= PAGE_SIZE
          THEN [tree |-> WriteNode(t, p, whole), split |-> NoSplit]
          ELSE [tree |-> WriteNode(AppendNode(t, b), p, a),
                split |-> [key |-> keys[Len(keys) \div 2 + 1], page |-> t.count]]
  BY DEF insertIntoInternal, MoreKeys, MorePtrs, LeftHalf, RightHalf
<1>9. /\ Fso(n) = 20 + 8 * Len(n.keys) /\ PTR_SIZE = 4 /\ Len(n.keys) \in Nat
      /\ 4 + 8 * Len(n.keys) <= Room
      /\ Room = PAGE_SIZE - 16 /\ PAGE_SIZE \in Nat /\ PAGE_SIZE >= 40
  <2>1. Fso(n) = 20 + 8 * Len(n.keys)
    BY <1>5, FsoIs
  <2>2. Len(n.keys) \in Nat /\ 4 + 8 * Len(n.keys) <= Room
    BY <1>5, InternalPage
  <2> QED BY <2>1, <2>2, BTreeAssumption DEF NumericKeys, PTR_SIZE, Room, METADATA_SIZE
<1> HIDE DEF t, s, mid, n, d, keys, ptrs
<1>15. Len(keys) = Len(n.keys) + 1 /\ Len(ptrs) = Len(n.keys) + 2
  BY <1>7
<1>10. \A q \in InSeq(ptrs) : q \in 1..Len(mid) /\ lv[q] = k - 1
  BY <1>3, <1>4, <1>5, <1>7
<1>11. \A q \in 1..Len(ns) : q \in 1..Len(mid)
  BY <1>2, <1>4
<1>12. \A q \in 1..Len(ns) : lev[q] \in Nat
  BY DEF Leveled
<1>13. CASE 4 + Fso(n) + PTR_SIZE <= PAGE_SIZE
  <2>1. 4 + 8 * Len(keys) <= Room /\ Len(ptrs) = Len(keys) + 1 /\ Len(keys) > 0
    BY <1>9, <1>13, <1>15
  <2>2. /\ InternalFits(whole) /\ whole \in Node /\ Kids(whole) = InSeq(ptrs)
        /\ whole.keys = keys /\ whole.ptrs = ptrs
    BY <1>7, <2>1, InternalIs
  <2> HIDE DEF whole
  <2> DEFINE new == [mid EXCEPT ![p] = whole]
  <2>3. GoodPage(whole, lv[p], lv)
    BY <1>4, <1>5, <1>10, <2>2 DEF GoodPage
  <2>4. Leveled(new, lv) /\ SameBut(new, mid, p) /\ new[p] = whole
    BY <1>3, <1>4, <2>2, <2>3, Rewritten
  <2>5. new \in Seq(Node)
    BY <2>4 DEF Leveled
  <2>6. d.tree.nodes = new /\ d.tree.root = root /\ d.tree.count = t.count /\ d.split = NoSplit
        /\ d \in [tree : View, split : Split]
    <3>1. NoSplit \in Split
      BY DEF NoSplit, Split
    <3>2. /\ WriteNode(t, p, whole).nodes = new /\ WriteNode(t, p, whole) \in View
          /\ WriteNode(t, p, whole).root = root /\ WriteNode(t, p, whole).count = t.count
      BY <1>2, <2>5, Written DEF mid
    <3>3. d = [tree |-> WriteNode(t, p, whole), split |-> NoSplit]
      BY <1>8, <1>13
    <3> HIDE DEF new
    <3> QED BY <3>1, <3>2, <3>3
  <2> HIDE DEF new
  <2>7. /\ Len(new) = Len(mid) /\ \A q \in 1..Len(mid) : q # p => new[q] = mid[q]
    BY <2>4 DEF SameBut
  <2>9. Tree(new, M, {root, s.page} \ {s.page})
    <3>1. \A q \in M : q # p => new[q] = mid[q]
      BY <1>4, <2>7
    <3>2. Kids(new[p]) = Kids(mid[p]) \cup {s.page}
      BY <1>7, <2>2, <2>4 DEF n
    <3> QED BY <1>3, <1>4, <2>7, <3>1, <3>2, TreeRewritten, ZenonT(60)
  <2>10. Keyed(new, M)
    <3>1. Len(new[p].keys) > 0
      BY <2>1, <2>2, <2>4
    <3> QED BY <1>3, <1>4, <2>7, <3>1 DEF Keyed
  <2>11. GrownTo(d, ns, lev, L, root, k, lv, M)
    <3>1. {root, s.page} \ {s.page} = {root}
      BY <1>3
    <3> QED BY <1>3, <2>4, <2>6, <2>9, <2>10, <3>1 DEF GrownTo
  <2>12. \A q \in 1..Len(ns) : lev[q] > k => new[q] = ns[q]
    BY <1>2, <1>11, <1>12, <2>7
  <2>13. HeadsBut(ns, new, 0)
    <3>1. new[p].leaf = FALSE /\ mid[p].leaf = FALSE /\ new[p].ptrs[1] = mid[p].ptrs[1]
      BY <1>5, <1>7, <2>2, <2>4, InternalPage DEF n
    <3>2. HeadsBut(mid, new, 0)
      BY <2>7, <3>1 DEF HeadsBut
    <3> QED BY <1>2, <1>4, <3>2, HeadsTwice
  <2> QED BY <1>2, <2>6, <2>7, <2>11, <2>12, <2>13 DEF Grown, d, t, s
<1>14. CASE ~(4 + Fso(n) + PTR_SIZE <= PAGE_SIZE)
  <2>1. Len(keys) >= 3 /\ 8 * Len(keys) <= Room + 4 /\ Len(ptrs) = Len(keys) + 1
    BY <1>9, <1>14, <1>15
  <2>2. /\ InternalFits(a) /\ InternalFits(b) /\ a \in Node /\ b \in Node
        /\ Len(a.keys) > 0 /\ Len(b.keys) > 0
        /\ Kids(a) \cup Kids(b) = InSeq(ptrs) /\ Kids(a) \cap Kids(b) = {}
        /\ keys[Len(keys) \div 2 + 1] \in Keys /\ a.ptrs[1] = ptrs[1]
    BY <1>7, <2>1, HalvesAre
  <2> HIDE DEF a, b
  <2> DEFINE x   == Len(mid) + 1
             lw  == Extended(lv, Len(mid), lv[p])
             new == [Append(mid, b) EXCEPT ![p] = a]
  <2>3. DOMAIN lw = 1..x /\ lw[x] = k /\ \A q \in 1..Len(mid) : lw[q] = lv[q] /\ q \in 1..x
    BY <1>4 DEF Extended
  <2>4. GoodPage(a, lv[p], lw) /\ GoodPage(b, lv[p], lw)
    <3> HIDE DEF lw, x
    <3>1. Kids(a) = InSeq(a.ptrs) /\ Kids(b) = InSeq(b.ptrs)
      BY <2>2, InternalPage
    <3>2. \A q \in Kids(a) \cup Kids(b) : q \in DOMAIN lw /\ lw[q] = k - 1
      BY <1>10, <2>2, <2>3
    <3> QED BY <1>4, <2>2, <3>1, <3>2 DEF GoodPage
  <2>5. /\ Leveled(new, lw) /\ Len(new) = x /\ new[p] = a /\ new[x] = b /\ lw[x] = lv[p]
        /\ \A q \in 1..Len(mid) : lw[q] = lv[q] /\ (q # p => new[q] = mid[q])
        /\ x \in 1..Len(new) /\ x \notin 1..Len(mid) /\ new \in Seq(Node)
    BY <1>3, <1>4, <2>2, <2>4, PageSplit
  <2>6. /\ d.tree.nodes = new /\ d.tree.root = root /\ d.tree.count = x + 1
        /\ d.split.page = x /\ d.split.key \in Keys
        /\ d \in [tree : View, split : Split]
    <3> DEFINE u == AppendNode(t, b)
               y == [key |-> keys[Len(keys) \div 2 + 1], page |-> t.count]
    <3>1. u.nodes = Append(mid, b) /\ u.root = root /\ u.count = t.count + 1 /\ u \in View
      BY <1>2, <2>2, AppendedTo DEF mid
    <3> HIDE DEF u
    <3>6. [u.nodes EXCEPT ![p] = a] = new
      BY <3>1
    <3>2. /\ WriteNode(u, p, a).nodes = new /\ WriteNode(u, p, a) \in View
          /\ WriteNode(u, p, a).root = root /\ WriteNode(u, p, a).count = t.count + 1
      <4>1. /\ WriteNode(u, p, a).nodes = [u.nodes EXCEPT ![p] = a]
            /\ WriteNode(u, p, a).root = u.root /\ WriteNode(u, p, a).count = u.count
            /\ [u.nodes EXCEPT ![p] = a] \in Seq(Node) => WriteNode(u, p, a) \in View
        BY <3>1, Written
      <4> HIDE DEF new
      <4>2. [u.nodes EXCEPT ![p] = a] \in Seq(Node)
        BY <2>5, <3>6
      <4> QED BY <3>1, <3>6, <4>1, <4>2
    <3>4. y \in Split /\ y.page = x /\ y.key \in Keys
      <4>1. t.count \in Nat /\ t.count = x
        BY <1>2, <1>4
      <4>2. keys[Len(keys) \div 2 + 1] \in Int
        BY <2>2, BTreeAssumption
      <4>3. y \in Split
        BY <4>1, <4>2 DEF Split
      <4>4. y.page = t.count /\ y.key = keys[Len(keys) \div 2 + 1]
        OBVIOUS
      <4> HIDE DEF y
      <4> QED BY <2>2, <4>1, <4>3, <4>4
    <3>5. d = [tree |-> WriteNode(u, p, a), split |-> y]
      BY <1>8, <1>14 DEF u
    <3> HIDE DEF new, y
    <3> QED BY <1>2, <3>2, <3>4, <3>5
  <2> HIDE DEF new, lw
  <2>7. d.split # NoSplit
    BY <1>4, <2>6 DEF NoSplit
  <2>9. Tree(new, M \cup {x}, ({root, s.page} \ {s.page}) \cup {x})
    <3>1. \A q \in M : q # p => new[q] = mid[q]
      BY <1>4, <2>5
    <3>2. /\ Kids(new[p]) \cup Kids(new[x]) = Kids(mid[p]) \cup {s.page}
          /\ Kids(new[p]) \cap Kids(new[x]) = {}
      BY <1>7, <2>2, <2>5 DEF n
    <3>3. Len(new) = Len(mid) + 1 /\ x = Len(mid) + 1
      BY <2>5
    <3>4. {s.page} \subseteq {root, s.page}
      OBVIOUS
    <3> HIDE DEF x
    <3> DEFINE tops == {root, s.page}
               Y    == {s.page}
    <3>5. Tree(mid, M, tops) /\ Y \subseteq tops
      BY <1>3, <3>4
    <3>6. Kids(new[p]) \cup Kids(new[x]) = Kids(mid[p]) \cup Y
      BY <3>2
    <3> HIDE DEF tops, Y
    <3>7. Tree(new, M \cup {x}, (tops \ Y) \cup {x})
      BY <1>4, <3>1, <3>2, <3>3, <3>5, <3>6, TreeSplit, ZenonT(60)
    <3> QED BY <3>7 DEF tops, Y
  <2>10. Keyed(new, M \cup {x})
    BY <1>3, <1>4, <2>2, <2>5 DEF Keyed
  <2>11. GrownTo(d, ns, lev, L, root, k, lw, M \cup {x})
    <3>1. ({root, s.page} \ {s.page}) \cup {x} = {root, d.split.page}
      BY <1>3, <2>6
    <3>2. d.split.page # root
      BY <1>4, <2>5, <2>6
    <3>3. lw[d.split.page] = k
      BY <2>3, <2>6
    <3>4. \A q \in 1..Len(ns) : lw[q] = lev[q]
      BY <1>3, <1>11, <2>3
    <3> QED BY <1>3, <2>5, <2>6, <2>7, <2>9, <2>10, <3>1, <3>2, <3>3, <3>4 DEF GrownTo
  <2>12. \A q \in 1..Len(ns) : lev[q] > k => new[q] = ns[q]
    BY <1>2, <1>4, <1>11, <1>12, <2>5
  <2>13. Len(ns) <= Len(new)
    BY <1>2, <1>4, <2>5
  <2>14. HeadsBut(ns, new, 0)
    <3>1. new[p].leaf = FALSE /\ mid[p].leaf = FALSE /\ new[p].ptrs[1] = mid[p].ptrs[1]
      BY <1>5, <1>7, <2>2, <2>5, InternalPage DEF n
    <3>2. HeadsBut(mid, new, 0)
      BY <2>5, <3>1 DEF HeadsBut
    <3> QED BY <1>2, <1>4, <3>2, HeadsTwice
  <2> QED BY <1>2, <2>5, <2>6, <2>11, <2>12, <2>13, <2>14 DEF Grown, d, t, s
<1> QED BY <1>13, <1>14

\* A climb that has found room has nothing more to do.
LEMMA GrownHigher ==
  ASSUME NEW ns, NEW lev, Leveled(ns, lev), NEW L, NEW root, NEW k \in Nat, k > 0,
         NEW d, Grown(d, ns, lev, L, root, k - 1), d.split = NoSplit
  PROVE  Grown(d, ns, lev, L, root, k)
<1>1. PICK lv, M : GrownTo(d, ns, lev, L, root, k - 1, lv, M)
  BY DEF Grown
<1>2. GrownTo(d, ns, lev, L, root, k, lv, M)
  BY <1>1 DEF GrownTo
<1>3. \A q \in 1..Len(ns) : lev[q] \in Nat
  BY DEF Leveled
<1>4. \A q \in 1..Len(ns) : lev[q] > k => d.tree.nodes[q] = ns[q]
  <2>1. \A q \in 1..Len(ns) : lev[q] > k - 1 => d.tree.nodes[q] = ns[q]
    BY DEF Grown
  <2> QED BY <1>3, <2>1
<1> QED BY <1>2, <1>4 DEF Grown

\* A new root above the old one and the page split from it.
LEMMA TreeTopped ==
  ASSUME NEW ns, Len(ns) \in Nat, NEW L, NEW tops, Tree(ns, L, tops),
         NEW new, NEW x, x = Len(ns) + 1, Len(new) = x,
         \A q \in L : new[q] = ns[q], Kids(new[x]) = tops
  PROVE  Tree(new, L \cup {x}, {x})
<1>1. x \notin L /\ L \cup {x} \subseteq 1..Len(new) /\ tops \subseteq L
  <2>1. \A q \in L : q \in 1..Len(ns)
    BY DEF Tree
  <2>2. \A q \in 1..Len(ns) : q # x /\ q \in 1..Len(new)
    OBVIOUS
  <2>3. x \in 1..Len(new)
    OBVIOUS
  <2> QED BY <2>1, <2>2, <2>3 DEF Tree
<1>2. \A q \in L : Kids(new[q]) \subseteq L \ tops
  BY DEF Tree
<1>3. \A q, r \in L : q # r => Kids(new[q]) \cap Kids(new[r]) = {}
  BY DEF Tree
<1>4. \A q \in L \cup {x} : Kids(new[q]) \subseteq (L \cup {x}) \ {x}
  BY <1>1, <1>2
<1>5. \A q \in L : Kids(new[q]) \cap Kids(new[x]) = {}
  BY <1>2
<1>6. \A q, r \in L \cup {x} : q # r => Kids(new[q]) \cap Kids(new[r]) = {}
  BY <1>1, <1>3, <1>5
<1> QED BY <1>1, <1>4, <1>6 DEF Tree

\* The root of u is the old one, or a new page above it; no page has another first child.
After(ns, root, u) ==
  /\ HeadsBut(ns, u.nodes, 0)
  /\ u.root # root => ~u.nodes[u.root].leaf /\ u.nodes[u.root].ptrs[1] = root

\* A new root above the two halves of the old one.
LEMMA RootGrows ==
  ASSUME NumericKeys, NEW ns, NEW lev, NEW L, NEW root \in L, L \subseteq 1..Len(ns),
         Leveled(ns, lev), NEW d, Grown(d, ns, lev, L, root, lev[root]), d.split # NoSplit
  PROVE  LET u == AppendNode(d.tree, Internal(<<d.split.key>>, <<d.tree.root, d.split.page>>))
         IN  /\ \E lv, M : LargeView([u EXCEPT !.root = d.tree.count], lv, M, Len(ns))
             /\ After(ns, root, [u EXCEPT !.root = d.tree.count])
<1> DEFINE t   == d.tree
           s   == d.split
           mid == t.nodes
           k   == lev[root]
           ptrs == <<root, s.page>>
           keys == <<s.key>>
           n   == Internal(keys, ptrs)
           u   == AppendNode(t, n)
           r   == [u EXCEPT !.root = t.count]
           x   == Len(mid) + 1
           new == Append(mid, n)
<1>1. PICK lv, M : GrownTo(d, ns, lev, L, root, k, lv, M)
  BY DEF Grown
<1>2. t \in View /\ t.root = root /\ t.count = x
  BY DEF Grown
<1>3. /\ Leveled(mid, lv) /\ lv[root] = k
      /\ root \in M /\ Keyed(mid, M) /\ Tree(mid, M, {root, s.page})
      /\ s.key \in Keys /\ s.page # root /\ lv[s.page] = k
  <2>1. root \in 1..Len(ns) /\ root \in L
    OBVIOUS
  <2> QED BY <1>1, <2>1 DEF GrownTo
<1>4. /\ mid \in Seq(Node) /\ Len(mid) \in Nat /\ M \subseteq 1..Len(mid)
      /\ root \in 1..Len(mid) /\ s.page \in 1..Len(mid) /\ k \in Nat
  <2>1. mid \in Seq(Node)
    BY <1>3 DEF Leveled
  <2>2. M \subseteq 1..Len(mid) /\ s.page \in M
    BY <1>3 DEF Tree
  <2>3. k \in Nat
    BY PageIs
  <2>4. Len(mid) \in Nat
    BY <2>1
  <2> QED BY <1>3, <2>1, <2>2, <2>3, <2>4
<1> HIDE DEF t, s, k
<1>5. /\ keys \in Seq(Keys) /\ Len(keys) = 1 /\ ptrs \in Seq(Nat) /\ Len(ptrs) = 2
      /\ InSeq(ptrs) = {root, s.page} /\ Distinct(ptrs) /\ ptrs[1] = root
  <2>1. root \in Nat /\ s.page \in Nat
    BY <1>4
  <2>2. keys \in Seq(Keys) /\ Len(keys) = 1 /\ ptrs \in Seq(Nat) /\ Len(ptrs) = 2
    BY <1>3, <2>1
  <2>3. DOMAIN ptrs = 1..2 /\ ptrs[1] = root /\ ptrs[2] = s.page
    OBVIOUS
  <2> HIDE DEF ptrs
  <2>4. InSeq(ptrs) = {root, s.page}
    BY <2>3 DEF InSeq
  <2>5. Distinct(ptrs)
    BY <1>3, <2>3 DEF Distinct
  <2> QED BY <2>2, <2>3, <2>4, <2>5
<1> HIDE DEF keys, ptrs, mid
<1>6. /\ InternalFits(n) /\ n \in Node /\ Kids(n) = {root, s.page} /\ n.keys = keys
      /\ n.ptrs = ptrs
  <2>1. 4 + 8 * Len(keys) <= Room /\ Len(ptrs) = Len(keys) + 1
    BY <1>5, BTreeAssumption DEF NumericKeys, Room, METADATA_SIZE
  <2>2. /\ InternalFits(n) /\ n \in Node /\ Kids(n) = InSeq(ptrs)
        /\ n.keys = keys /\ n.ptrs = ptrs
    <3>1. keys \in Seq(Keys) /\ ptrs \in Seq(Nat) /\ Distinct(ptrs)
      BY <1>5
    <3> QED BY <2>1, <3>1, InternalIs, Zenon
  <2> HIDE DEF n
  <2> QED BY <1>5, <2>2
<1> HIDE DEF n
<1> DEFINE lw == Extended(lv, Len(mid), k + 1)
<1>7. GoodPage(n, k + 1, lw)
  <2>1. \A q \in 1..Len(mid) : q \in DOMAIN lw /\ lw[q] = lv[q]
    BY <1>4 DEF Extended
  <2> HIDE DEF lw
  <2>2. \A q \in InSeq(n.ptrs) : q \in DOMAIN lw /\ lw[q] = (k + 1) - 1
    BY <1>3, <1>4, <1>5, <1>6, <2>1, SMTT(30)
  <2> QED BY <1>4, <1>6, <2>2 DEF GoodPage
<1>8. /\ Leveled(new, lw) /\ Len(new) = x /\ new[x] = n
      /\ \A q \in 1..Len(mid) : new[q] = mid[q]
  <2>1. k + 1 \in Nat
    BY <1>4
  <2> QED BY <1>3, <1>6, <1>7, <2>1, Appended
<1>9. /\ r.nodes = new /\ r.root = x /\ r.count = x + 1 /\ r \in View
  <2>1. u.nodes = new /\ u.count = x + 1 /\ u \in View
    BY <1>2, <1>6, AppendedTo DEF mid
  <2>2. x \in Nat
    BY <1>4
  <2> HIDE DEF u, new, x
  <2> QED BY <1>2, <2>1, <2>2 DEF View
<1> HIDE DEF r, new, lw
<1>10. Tree(new, M \cup {x}, {x})
  <2>1. \A q \in M : new[q] = mid[q]
    BY <1>4, <1>8
  <2>2. Kids(new[x]) = {root, s.page}
    BY <1>6, <1>8
  <2>3. x = Len(mid) + 1
    OBVIOUS
  <2> HIDE DEF x
  <2> QED BY <1>3, <1>4, <1>8, <2>1, <2>2, <2>3, TreeTopped
<1>11. Keyed(new, M \cup {x})
  <2>1. Len(new[x].keys) > 0
    <3>1. new[x].keys = keys /\ Len(keys) = 1
      BY <1>5, <1>6, <1>8
    <3> QED BY <3>1
  <2> QED BY <1>3, <1>4, <1>8, <2>1 DEF Keyed
<1>12. LargeView(r, lw, M \cup {x}, Len(ns))
  <2>1. GoodView(r, lw, M \cup {x})
    BY <1>8, <1>9, <1>10, <1>11 DEF GoodView
  <2>2. Len(ns) <= Len(mid) /\ Len(ns) \in Nat
    BY DEF Grown, Leveled, mid, t
  <2>3. Len(ns) <= Len(r.nodes)
    BY <1>4, <1>8, <1>9, <2>2 DEF x
  <2> QED BY <2>1, <2>3 DEF LargeView
<1>14. After(ns, root, r)
  <2>1. Len(ns) \in Nat /\ Len(ns) <= Len(mid) /\ HeadsBut(ns, mid, 0)
    BY DEF Grown, Leveled, mid, t
  <2>2. HeadsBut(mid, new, 0)
    BY <1>8 DEF HeadsBut
  <2>3. HeadsBut(ns, new, 0)
    BY <1>4, <2>1, <2>2, HeadsTwice
  <2>4. ~new[x].leaf /\ new[x].ptrs[1] = root
    <3>1. n.leaf = FALSE
      BY <1>6, InternalPage
    <3> QED BY <1>5, <1>6, <1>8, <3>1
  <2> HIDE DEF x
  <2> QED BY <1>9, <2>3, <2>4 DEF After
<1>13. r = [AppendNode(d.tree, Internal(<<d.split.key>>, <<d.tree.root, d.split.page>>))
             EXCEPT !.root = d.tree.count]
  <2>1. d.tree.root = root
    BY <1>2 DEF t
  <2> QED BY <2>1 DEF r, n, keys, ptrs, t, s
<1> QED BY <1>12, <1>13, <1>14

\* The climb of insertEntry, from the bottom up.
IsClimb(t, e, path, f) ==
  f = [k \in 0..Len(path) - 1 |->
         IF k = 0 THEN insertIntoLeaf(t, Last(path), e)
         ELSE LET d == f[k - 1]
              IN  IF d.split = NoSplit THEN d
                  ELSE insertIntoInternal(d.tree, path[Len(path) - k], d.split, KeyLen[e.key])]

\* The climb of insertEntry.
LEMMA ClimbIs ==
  ASSUME NumericKeys, NEW t, NEW lev, NEW L, GoodView(t, lev, L), NEW e \in Entry,
         NEW pick, Picks(t.nodes, pick), NEW path, Walk(t.nodes, lev, pick, t.root, path)
  PROVE  /\ \E f : IsClimb(t, e, path, f)
         /\ \A f : IsClimb(t, e, path, f) =>
              \A k \in 0..lev[t.root] : Grown(f[k], t.nodes, lev, L, t.root, k)
<1> DEFINE ns   == t.nodes
           root == t.root
           n    == lev[root]
           a    == insertIntoLeaf(t, Last(path), e)
           Eq(f) == f = [k \in 0..Len(path) - 1 |->
                        IF k = 0 THEN a
                        ELSE LET d == f[k - 1]
                             IN  IF d.split = NoSplit THEN d
                                 ELSE insertIntoInternal(d.tree, path[Len(path) - k], d.split,
                                                         KeyLen[e.key])]
           Step(k, d) == IF d.split = NoSplit THEN d
                         ELSE insertIntoInternal(d.tree, path[Len(path) - k], d.split,
                                                 KeyLen[e.key])
           Views == [tree : View, split : Split]
           Good == [k \in 0..n |-> {d \in Views : Grown(d, ns, lev, L, root, k)}]
           H == [k \in 1..n |-> [d \in Good[k - 1] |-> Step(k, d)]]
<1>1. /\ Leveled(ns, lev) /\ Tree(ns, L, {root}) /\ root \in L /\ root \in 1..Len(ns) /\ n \in Nat
      /\ L \subseteq 1..Len(ns)
  <2>1. Leveled(ns, lev) /\ Tree(ns, L, {root})
    BY DEF GoodView
  <2>2. root \in L /\ L \subseteq 1..Len(ns)
    BY <2>1 DEF Tree
  <2>3. root \in 1..Len(ns)
    BY <2>2
  <2>4. n \in Nat
    BY <2>1, <2>3 DEF Leveled
  <2> QED BY <2>1, <2>2, <2>3, <2>4
<1>2. /\ Len(path) = n + 1
      /\ \A i \in 1..n + 1 : path[i] \in L /\ lev[path[i]] = n + 1 - i
  <2>1. \A i \in 1..n + 1 : path[i] \in L
    BY <1>1, WalkStays
  <2> QED BY <2>1 DEF Walk
<1>3. Last(path) \in L /\ lev[Last(path)] = 0
  <2>1. Last(path) = path[n + 1]
    BY <1>2 DEF Last
  <2>2. n + 1 \in 1..n + 1 /\ n + 1 - (n + 1) = 0
    BY <1>1
  <2> QED BY <1>2, <2>1, <2>2
<1>4. KeyLen[e.key] = 4
  BY DEF NumericKeys, Entry
<1>5. \A k \in 0..n : \A d : d \in Good[k] <=> Grown(d, ns, lev, L, root, k)
  BY DEF Grown
<1>6. Grown(a, ns, lev, L, root, 0)
  BY <1>3, LeafInsert
<1>7. ASSUME NEW k \in 1..n, NEW d, Grown(d, ns, lev, L, root, k - 1)
      PROVE  Grown(Step(k, d), ns, lev, L, root, k)
  <2>1. k \in Nat /\ k > 0 /\ n + 1 - k \in 1..n + 1
    BY <1>1
  <2>2. path[n + 1 - k] \in L /\ lev[path[n + 1 - k]] = k
    <3>1. lev[path[n + 1 - k]] = n + 1 - (n + 1 - k)
      BY <1>2, <2>1
    <3> QED BY <1>1, <1>2, <2>1, <3>1
  <2>3. CASE d.split = NoSplit
    <3>1. Grown(d, ns, lev, L, root, k)
      BY <1>1, <1>7, <2>1, <2>3, GrownHigher
    <3> QED BY <2>3, <3>1
  <2>4. CASE d.split # NoSplit
    <3>1. Step(k, d) = insertIntoInternal(d.tree, path[n + 1 - k], d.split, 4)
      <4>1. Len(path) - k = n + 1 - k
        <5>1. Len(path) = n + 1
          BY <1>2
        <5>2. n \in Nat /\ k \in Nat
          BY <1>1, <2>1
        <5> HIDE DEF n
        <5> QED BY <5>1, <5>2
      <4> QED BY <1>4, <2>4, <4>1
    <3>2. Grown(insertIntoInternal(d.tree, path[n + 1 - k], d.split, 4), ns, lev, L, root, k)
      <4> HIDE DEF ns, n, root
      <4> QED BY <1>1, <1>7, <2>1, <2>2, <2>4, InternalInsert
    <3> QED BY <3>1, <3>2
  <2> QED BY <2>3, <2>4
<1> HIDE DEF ns, root, n, a, Step
<1>8. \A k \in 1..n : \A d \in Good[k - 1] : H[k][d] = Step(k, d)
  OBVIOUS
<1>9. StaysGood(n, a, H, Good)
  <2> HIDE DEF H, Good
  <2>1. a \in Good[0]
    BY <1>1, <1>5, <1>6
  <2>2. ASSUME NEW k \in 1..n, NEW d \in Good[k - 1] PROVE H[k][d] \in Good[k]
    <3>1. k - 1 \in 0..n /\ k \in 0..n
      BY <1>1
    <3>2. Grown(d, ns, lev, L, root, k - 1)
      BY <1>5, <2>2, <3>1
    <3>3. Grown(Step(k, d), ns, lev, L, root, k)
      BY <1>7, <3>2
    <3> QED BY <1>5, <1>8, <3>1, <3>3
  <2> QED BY <2>1, <2>2 DEF StaysGood
<1>10. \A f : Eq(f) <=> f = [k \in 0..n |-> IF k = 0 THEN a ELSE Step(k, f[k - 1])]
  <2>1. Len(path) - 1 = n
    BY <1>1, <1>2
  <2> QED BY <2>1 DEF Step
<1>11. \E f : Eq(f)
  <2>1. PICK f : IsLadder(n, a, H, f) /\ \A k \in 0..n : f[k] \in Good[k]
    <3> HIDE DEF H, Good
    <3> QED BY <1>1, <1>9, Ladder
  <2> HIDE DEF H, Good
  <2>2. \A k \in 0..n : k # 0 => k \in 1..n /\ k - 1 \in 0..n
    BY <1>1
  <2>3. \A k \in 0..n : k # 0 => H[k][f[k - 1]] = Step(k, f[k - 1])
    BY <1>8, <2>1, <2>2
  <2>4. f = [k \in 0..n |-> IF k = 0 THEN a ELSE Step(k, f[k - 1])]
    BY <2>1, <2>3 DEF IsLadder
  <2> HIDE DEF Eq
  <2> QED BY <1>10, <2>4
<1>12. ASSUME NEW f, Eq(f)
       PROVE  \A k \in 0..n : Grown(f[k], ns, lev, L, root, k)
  <2>1. f = [k \in 0..n |-> IF k = 0 THEN a ELSE Step(k, f[k - 1])]
    BY <1>10, <1>12
  <2> HIDE DEF Eq, Good
  <2>2. f[0] \in Good[0]
    BY <1>1, <1>5, <1>6, <2>1
  <2>3. ASSUME NEW k \in 1..n, f[k - 1] \in Good[k - 1] PROVE f[k] \in Good[k]
    <3>1. k - 1 \in 0..n /\ k \in 0..n /\ k # 0
      BY <1>1
    <3>2. f[k] = Step(k, f[k - 1])
      BY <2>1, <3>1
    <3>3. Grown(f[k - 1], ns, lev, L, root, k - 1)
      BY <1>5, <2>3, <3>1
    <3> QED BY <1>5, <1>7, <3>1, <3>2, <3>3
  <2>4. \A k \in 0..n : f[k] \in Good[k]
    BY <1>1, <2>2, <2>3, Climbing
  <2>5. \A k \in 0..n : Grown(f[k], ns, lev, L, root, k)
    BY <1>5, <2>4
  <2> QED BY <2>5
<1>13. \A f : Eq(f) <=> IsClimb(t, e, path, f)
  BY DEF IsClimb, a
<1> HIDE DEF Eq
<1> QED BY <1>11, <1>12, <1>13 DEF ns, root, n

\* A view of a file that holds a tree, or is empty.
FileView(t, lev) == /\ t \in View /\ t.count = Len(t.nodes) + 1 /\ Leveled(t.nodes, lev)
                    /\ t.root # 0 => \E L : GoodView(t, lev, L)

\* The first leaf of an empty tree.
LEMMA FirstLeafMade ==
  ASSUME NumericKeys, NEW t, NEW lev, FileView(t, lev), t.root = 0
  PROVE  \E lv, L : LargeView([AppendNode(t, Leaf(<< >>, 0)) EXCEPT !.root = t.count], lv, L,
                              Len(t.nodes))
<1> DEFINE ns  == t.nodes
           b   == Leaf(<< >>, 0)
           x   == Len(ns) + 1
           u   == AppendNode(t, b)
           r   == [u EXCEPT !.root = t.count]
           lv  == Extended(lev, Len(ns), 0)
           new == Append(ns, b)
<1>1. t \in View /\ t.count = x /\ Leveled(ns, lev) /\ Len(ns) \in Nat
  BY DEF FileView, Leveled
<1>2. LeafFits(b) /\ b \in Node /\ b.next = 0 /\ Kids(b) = {} /\ b.leaf = TRUE
  <2>1. << >> \in Seq(Entry) /\ 10 * Len(<< >>) <= Room /\ 0 \in Nat
    BY BTreeAssumption DEF NumericKeys, Room, METADATA_SIZE
  <2> QED BY <2>1, LeafIs
<1> HIDE DEF b
<1>3. GoodPage(b, 0, lv)
  BY <1>2 DEF GoodPage
<1>4. Leveled(new, lv) /\ Len(new) = x /\ new[x] = b
  BY <1>1, <1>2, <1>3, Appended
<1>5. r.nodes = new /\ r.root = x /\ r.count = x + 1 /\ r \in View
  <2>1. u.nodes = new /\ u.count = x + 1 /\ u \in View
    BY <1>1, <1>2, AppendedTo
  <2>2. x \in Nat
    BY <1>1
  <2> HIDE DEF u, new, x
  <2> QED BY <1>1, <2>1, <2>2 DEF View
<1> HIDE DEF new, r, lv
<1>6. Tree(new, {x}, {x}) /\ Keyed(new, {x})
  <2>1. x \in 1..Len(new)
    BY <1>1, <1>4
  <2> HIDE DEF x
  <2> QED BY <1>2, <1>4, <2>1 DEF Tree, Keyed
<1>7. LargeView(r, lv, {x}, Len(ns))
  <2>1. GoodView(r, lv, {x})
    BY <1>4, <1>5, <1>6 DEF GoodView
  <2>2. Len(ns) <= Len(r.nodes)
    BY <1>1, <1>4, <1>5
  <2> QED BY <2>1, <2>2 DEF LargeView
<1> QED BY <1>7 DEF r, b

\* insertEntry leaves a tree.
LEMMA InsertEntryIs ==
  ASSUME NumericKeys, NEW t, NEW lev, FileView(t, lev), NEW e \in Entry
  PROVE  /\ \E lv, M : LargeView(InsertEntry(t, e), lv, M, Len(t.nodes))
         /\ t.root # 0 => After(t.nodes, t.root, InsertEntry(t, e))
<1> DEFINE grown == IF t.root = 0
                    THEN [AppendNode(t, Leaf(<< >>, 0)) EXCEPT !.root = t.count]
                    ELSE t
           path == Path(grown, e.key, findInternalChildIds)
           Eq(f) == f = [k \in 0..Len(path) - 1 |->
                        IF k = 0 THEN insertIntoLeaf(grown, Last(path), e)
                        ELSE LET d == f[k - 1]
                             IN  IF d.split = NoSplit THEN d
                                 ELSE insertIntoInternal(d.tree, path[Len(path) - k], d.split,
                                                         KeyLen[e.key])]
           climb == CHOOSE f : Eq(f)
           top   == climb[Len(path) - 1]
<1>0. Len(t.nodes) \in Nat
  BY DEF FileView, Leveled
<1>1. PICK lv, L : LargeView(grown, lv, L, Len(t.nodes))
  <2>1. CASE t.root = 0
    BY <2>1, FirstLeafMade
  <2>2. CASE t.root # 0
    BY <1>0, <2>2 DEF FileView, LargeView
  <2> QED BY <2>1, <2>2
<1>2. InsertEntry(t, e) =
        IF top.split = NoSplit THEN top.tree
        ELSE [AppendNode(top.tree, Internal(<<top.split.key>>, <<top.tree.root, top.split.page>>))
                EXCEPT !.root = top.tree.count]
  BY DEF InsertEntry, Climb, InsertPath
<1>11. t.root # 0 => grown = t
  OBVIOUS
<1> HIDE DEF grown
<1>3. /\ Leveled(grown.nodes, lv) /\ Tree(grown.nodes, L, {grown.root})
      /\ grown.root \in 1..Len(grown.nodes)
      /\ grown.root \in L /\ L \subseteq 1..Len(grown.nodes) /\ GoodView(grown, lv, L)
      /\ Len(t.nodes) <= Len(grown.nodes)
  BY <1>1 DEF LargeView, GoodView, Tree
<1>10. Len(grown.nodes) \in Nat
  BY <1>3 DEF Leveled
<1>4. PICK pick : Picks(grown.nodes, pick) /\ Walk(grown.nodes, lv, pick, grown.root, path)
  BY <1>3, DescentRight
<1> HIDE DEF path
<1>12. /\ \E f : IsClimb(grown, e, path, f)
       /\ \A f : IsClimb(grown, e, path, f) =>
            \A k \in 0..lv[grown.root] : Grown(f[k], grown.nodes, lv, L, grown.root, k)
  BY <1>3, <1>4, ClimbIs
<1>13. \A f : Eq(f) <=> IsClimb(grown, e, path, f)
  BY DEF IsClimb
<1>14. lv[grown.root] \in 0..lv[grown.root] /\ Len(path) - 1 = lv[grown.root]
  <2>1. Len(path) = lv[grown.root] + 1 /\ lv[grown.root] \in Nat
    BY <1>3, <1>4 DEF Walk, Leveled
  <2> QED BY <2>1
<1> HIDE DEF Eq
<1>5. /\ \E f : Eq(f)
      /\ \A f : Eq(f) => Grown(f[Len(path) - 1], grown.nodes, lv, L, grown.root, lv[grown.root])
  BY <1>12, <1>13, <1>14
<1>6. Eq(climb)
  BY <1>5
<1> HIDE DEF climb
<1>7. Grown(top, grown.nodes, lv, L, grown.root, lv[grown.root])
  BY <1>5, <1>6
<1> HIDE DEF top
<1>8. CASE top.split = NoSplit
  <2>1. PICK lw, M : GrownTo(top, grown.nodes, lv, L, grown.root, lv[grown.root], lw, M)
    BY <1>7 DEF Grown
  <2>2. GoodView(top.tree, lw, M)
    BY <1>7, <1>8, <2>1 DEF Grown, GrownTo, GoodView
  <2>3. Len(grown.nodes) <= Len(top.tree.nodes)
    BY <1>7 DEF Grown
  <2>4. Len(top.tree.nodes) \in Nat
    BY <2>2 DEF GoodView, Leveled
  <2>5. LargeView(top.tree, lw, M, Len(t.nodes))
    BY <1>0, <1>3, <1>10, <2>2, <2>3, <2>4 DEF LargeView
  <2>6. After(grown.nodes, grown.root, top.tree)
    BY <1>7 DEF Grown, After
  <2> QED BY <1>2, <1>8, <1>11, <2>5, <2>6
<1>9. CASE top.split # NoSplit
  <2> DEFINE r == [AppendNode(top.tree, Internal(<<top.split.key>>,
                                                 <<top.tree.root, top.split.page>>))
                     EXCEPT !.root = top.tree.count]
  <2>5. (\E lw, M : LargeView(r, lw, M, Len(grown.nodes))) /\ After(grown.nodes, grown.root, r)
    BY <1>3, <1>7, <1>9, RootGrows
  <2>3. PICK lw, M : LargeView(r, lw, M, Len(grown.nodes))
    BY <2>5
  <2>4. Len(r.nodes) \in Nat
    <3> HIDE DEF r
    <3> QED BY <2>3 DEF LargeView, GoodView, Leveled
  <2>1. LargeView(r, lw, M, Len(t.nodes))
    <3> HIDE DEF r
    <3> QED BY <1>0, <1>3, <1>10, <2>3, <2>4 DEF LargeView
  <2>2. InsertEntry(t, e) = r
    BY <1>2, <1>9
  <2> HIDE DEF r
  <2> QED BY <1>11, <2>1, <2>2, <2>5
<1> QED BY <1>8, <1>9

-----------------------------------------------------------------------------
(* Deletion. *)

LEMMA SizesAre ==
  ASSUME NumericKeys
  PROVE  /\ Room \in Nat /\ MIN_DATA_BYTES \in Nat /\ MIN_DATA_BYTES >= 12
         /\ 2 * MIN_DATA_BYTES <= Room /\ Room = PAGE_SIZE - 16 /\ PAGE_SIZE \in Nat
<1>1. Room = PAGE_SIZE - 16 /\ PAGE_SIZE \in Nat /\ PAGE_SIZE >= 40
  BY BTreeAssumption DEF NumericKeys, Room, METADATA_SIZE
<1>2. MIN_DATA_BYTES = Room \div 2
  BY DEF MIN_DATA_BYTES, Room
<1>3. Room \in Nat /\ Room >= 24
  BY <1>1
<1>4. MIN_DATA_BYTES \in Nat /\ 2 * MIN_DATA_BYTES <= Room /\ Room <= 2 * MIN_DATA_BYTES + 1
  BY <1>2, <1>3, HalfIs
<1> QED BY <1>1, <1>3, <1>4

\* Pages rewritten, each by one for its level.
IsPages(new, n) == new = [x \in 1..n |-> new[x]]

\* Changing pages of a file, with the same levels.
LEMMA Repaginated ==
  ASSUME NEW ns, NEW lev, Leveled(ns, lev), NEW new, IsPages(new, Len(ns)),
         \A x \in 1..Len(ns) :
            new[x] = ns[x] \/ (new[x] \in Node /\ GoodPage(new[x], lev[x], lev))
  PROVE  Leveled(new, lev) /\ Len(new) = Len(ns) /\ new \in Seq(Node)
<1>1. ns \in Seq(Node) /\ Len(ns) \in Nat /\ lev \in [1..Len(ns) -> Nat]
  BY DEF Leveled
<1>2. \A x \in 1..Len(ns) : ns[x] \in Node /\ GoodPage(ns[x], lev[x], lev)
  BY DEF Leveled
<1>3. \A x \in 1..Len(ns) : new[x] \in Node /\ GoodPage(new[x], lev[x], lev)
  BY <1>2
<1>4. new \in [1..Len(ns) -> Node]
  BY <1>3 DEF IsPages
<1>5. new \in Seq(Node) /\ Len(new) = Len(ns)
  BY <1>1, <1>4
<1> QED BY <1>1, <1>3, <1>5 DEF Leveled

\* The same on a view.
LEMMA Repaged ==
  ASSUME NEW t \in View, NEW new \in Seq(Node)
  PROVE  /\ [t EXCEPT !.nodes = new] \in View /\ [t EXCEPT !.nodes = new].nodes = new
         /\ [t EXCEPT !.nodes = new].root = t.root /\ [t EXCEPT !.nodes = new].count = t.count
BY DEF View

\* Pointers moved between two pages c and s of a tree leave a tree.
LEMMA TreeMoved ==
  ASSUME NEW ns, NEW L, NEW tops, Tree(ns, L, tops), NEW c \in L, NEW s \in L, c # s,
         NEW new, Len(new) = Len(ns), \A q \in L \ {c, s} : Kids(new[q]) = Kids(ns[q]),
         Kids(new[c]) \cup Kids(new[s]) = Kids(ns[c]) \cup Kids(ns[s]),
         Kids(new[c]) \cap Kids(new[s]) = {}
  PROVE  Tree(new, L, tops)
<1>1. /\ L \subseteq 1..Len(new) /\ tops \subseteq L
      /\ \A q \in L : Kids(ns[q]) \subseteq L \ tops
      /\ \A q, r \in L : q # r => Kids(ns[q]) \cap Kids(ns[r]) = {}
  BY DEF Tree
<1>2. \A q \in L : Kids(new[q]) \subseteq L \ tops
  BY <1>1
<1>3. \A q \in L \ {c, s} : Kids(new[q]) \cap (Kids(new[c]) \cup Kids(new[s])) = {}
  BY <1>1
<1>4. \A q, r \in L \ {c, s} : q # r => Kids(new[q]) \cap Kids(new[r]) = {}
  BY <1>1
<1>5. \A q, r \in L : q # r => Kids(new[q]) \cap Kids(new[r]) = {}
  BY <1>3, <1>4
<1> QED BY <1>1, <1>2, <1>5 DEF Tree

\* A tree two of whose pages are joined, the pointer to the right one dropped.
LEMMA TreeMerged ==
  ASSUME NEW ns, NEW L, NEW tops, Tree(ns, L, tops), NEW p \in L, NEW l \in L, NEW r \in L,
         l # r, l # p, r # p, r \in Kids(ns[p]),
         NEW new, Len(new) = Len(ns), \A q \in L \ {l, r, p} : new[q] = ns[q],
         Kids(new[l]) = Kids(ns[l]) \cup Kids(ns[r]), Kids(new[p]) = Kids(ns[p]) \ {r}
  PROVE  Tree(new, L \ {r}, tops)
<1>1. /\ L \subseteq 1..Len(new) /\ tops \subseteq L
      /\ \A q \in L : Kids(ns[q]) \subseteq L \ tops
      /\ \A q, x \in L : q # x => Kids(ns[q]) \cap Kids(ns[x]) = {}
  BY DEF Tree
<1>2. r \notin tops /\ \A q \in L : q # p => r \notin Kids(ns[q])
  BY <1>1
<1>3. \A q \in L \ {l, r, p} : Kids(new[q]) = Kids(ns[q])
  OBVIOUS
<1>4. \A q \in L \ {r} : Kids(new[q]) \subseteq (L \ {r}) \ tops
  BY <1>1, <1>2, <1>3
<1>5. \A q \in L \ {l, r, p} : Kids(new[q]) \cap (Kids(new[l]) \cup Kids(new[p])) = {}
  BY <1>1, <1>3
<1>6. Kids(new[l]) \cap Kids(new[p]) = {}
  BY <1>1
<1>7. \A q, x \in L \ {l, r, p} : q # x => Kids(new[q]) \cap Kids(new[x]) = {}
  BY <1>1, <1>3
<1>8. \A q, x \in L \ {r} : q # x => Kids(new[q]) \cap Kids(new[x]) = {}
  BY <1>5, <1>6, <1>7
<1> QED BY <1>1, <1>2, <1>4, <1>8 DEF Tree

\* Child j of page p has underflowed; the rest of the tree is in order.
Underflowed(t, lev, M, root, p, j) ==
  /\ t \in View /\ Leveled(t.nodes, lev) /\ Tree(t.nodes, M, {root})
  /\ p \in M /\ lev[p] # 0 /\ Len(t.nodes[p].keys) > 0
  /\ j \in 1..Len(t.nodes[p].ptrs)
  /\ Underflows(t.nodes[t.nodes[p].ptrs[j]])
  /\ Keyed(t.nodes, M \ {t.nodes[p].ptrs[j]})

\* The pages below p are in order, and those above p as they were.
Repaired(t, lev, M, root, p, u) ==
  /\ u \in View /\ u.root = t.root /\ u.count = t.count /\ Len(u.nodes) = Len(t.nodes)
  /\ Leveled(u.nodes, lev) /\ StillFirst(t.nodes, u.nodes, root)
  /\ \A q \in 1..Len(t.nodes) : lev[q] > lev[p] => u.nodes[q] = t.nodes[q]
  /\ \E N : /\ Tree(u.nodes, N, {root}) /\ Keyed(u.nodes, N \ {p})
            /\ \A q \in M : lev[q] >= lev[p] => q \in N

\* The position of the separator between child j and its sibling.
Between(j) == IF j > 1 THEN j - 1 ELSE j

\* What is known of the child c and its sibling s.
Siblings(t, lev, M, p, j, c, s) ==
  /\ t.nodes \in Seq(Node) /\ DOMAIN t.nodes = 1..Len(t.nodes) /\ Len(t.nodes) \in Nat
  /\ M \subseteq 1..Len(t.nodes) /\ p \in M /\ p \in 1..Len(t.nodes)
  /\ DOMAIN lev = 1..Len(t.nodes)
  /\ InternalFits(t.nodes[p]) /\ lev[p] \in Nat /\ lev[p] > 0
  /\ c = t.nodes[p].ptrs[j] /\ s = t.nodes[p].ptrs[Sibling(j)]
  /\ c \in M /\ s \in M /\ c # s /\ c # p /\ s # p
  /\ c \in Kids(t.nodes[p]) /\ s \in Kids(t.nodes[p])
  /\ lev[c] = lev[p] - 1 /\ lev[s] = lev[p] - 1
  /\ Between(j) \in 1..Len(t.nodes[p].keys) /\ Between(j) + 1 \in 1..Len(t.nodes[p].ptrs)
  /\ Between(j) \in 1..Len(t.nodes[p].ptrs)
  /\ IF j > 1 THEN Between(j) = Sibling(j) /\ Between(j) + 1 = j
     ELSE Between(j) = j /\ Between(j) + 1 = Sibling(j)
  /\ t.nodes[s].leaf \/ Len(t.nodes[s].keys) > 0

\* A child that underflows has a sibling, and both are where they should be.
LEMMA SiblingsAre ==
  ASSUME NEW t, NEW lev, NEW M, NEW root, NEW p, NEW j, Underflowed(t, lev, M, root, p, j)
  PROVE  Siblings(t, lev, M, p, j, t.nodes[p].ptrs[j], t.nodes[p].ptrs[Sibling(j)])
<1> DEFINE ns == t.nodes
           n  == ns[p]
           c  == n.ptrs[j]
           s  == n.ptrs[Sibling(j)]
<1>1. /\ ns \in Seq(Node) /\ DOMAIN ns = 1..Len(ns) /\ Len(ns) \in Nat
      /\ M \subseteq 1..Len(ns) /\ p \in M /\ p \in 1..Len(ns) /\ DOMAIN lev = 1..Len(ns)
      /\ Leveled(ns, lev) /\ Tree(ns, M, {root}) /\ lev[p] # 0
  <2>1. Leveled(ns, lev) /\ Tree(ns, M, {root}) /\ p \in M /\ lev[p] # 0
    BY DEF Underflowed
  <2> HIDE DEF ns
  <2>2. ns \in Seq(Node) /\ lev \in [1..Len(ns) -> Nat]
    BY <2>1 DEF Leveled
  <2>3. M \subseteq 1..Len(ns)
    BY <2>1 DEF Tree
  <2> QED BY <2>1, <2>2, <2>3
<1>2. j \in 1..Len(n.ptrs) /\ Len(n.keys) > 0 /\ Keyed(ns, M \ {c})
  BY DEF Underflowed
<1> HIDE DEF ns
<1>3. /\ InternalFits(n) /\ lev[p] \in Nat /\ Kids(n) = InSeq(n.ptrs)
  BY <1>1, InternalPageIs
<1>4. /\ n.keys \in Seq(Keys) /\ Len(n.keys) \in Nat /\ n.ptrs \in Seq(Nat)
      /\ Len(n.ptrs) = Len(n.keys) + 1 /\ Distinct(n.ptrs)
  BY <1>3, InternalPage
<1>5. \A q \in Kids(n) : q \in 1..Len(ns) /\ lev[q] = lev[p] - 1
  BY <1>1, PageIs
<1>6. /\ Sibling(j) \in 1..Len(n.ptrs) /\ Sibling(j) # j
      /\ Between(j) \in 1..Len(n.keys) /\ Between(j) + 1 \in 1..Len(n.ptrs)
      /\ Between(j) \in 1..Len(n.ptrs)
      /\ IF j > 1 THEN Between(j) = Sibling(j) /\ Between(j) + 1 = j
                ELSE Between(j) = j /\ Between(j) + 1 = Sibling(j)
  BY <1>2, <1>4 DEF Sibling, Between
<1>7. DOMAIN n.ptrs = 1..Len(n.ptrs)
  BY <1>4
<1>8. c \in Kids(n) /\ s \in Kids(n) /\ c # s
  BY <1>2, <1>3, <1>4, <1>6, <1>7 DEF InSeq, Distinct
<1>9. c \in M /\ s \in M
  BY <1>1, <1>8 DEF Tree
<1>10. lev[c] = lev[p] - 1 /\ lev[s] = lev[p] - 1
  BY <1>5, <1>8
<1>11. c # p /\ s # p
  <2> HIDE DEF c, s
  <2> QED BY <1>3, <1>10
<1>12. ns[s].leaf \/ Len(ns[s].keys) > 0
  BY <1>2, <1>8, <1>9 DEF Keyed
<1>13. lev[p] > 0
  BY <1>1, <1>3
<1>14. c = n.ptrs[j] /\ s = n.ptrs[Sibling(j)] /\ ns = t.nodes /\ n = ns[p]
  BY DEF ns
<1> HIDE DEF c, s, n
<1>15. Siblings(t, lev, M, p, j, c, s)
  BY <1>1, <1>3, <1>6, <1>8, <1>9, <1>10, <1>11, <1>12, <1>13, <1>14 DEF Siblings
<1> QED BY <1>15 DEF ns, c, s, n

\* A change that gives no page but the right sibling another first child.
LEMMA RightHead ==
  ASSUME NEW t, NEW lev, NEW M, NEW root, NEW p, NEW j, Underflowed(t, lev, M, root, p, j),
         NEW c, NEW s, Siblings(t, lev, M, p, j, c, s),
         NEW new, Leveled(new, lev), Len(new) = Len(t.nodes),
         HeadsBut(t.nodes, new, t.nodes[p].ptrs[Between(j) + 1])
  PROVE  StillFirst(t.nodes, new, root)
<1> DEFINE ns == t.nodes
           i  == Between(j) + 1
<1>1. Leveled(ns, lev) /\ Tree(ns, M, {root}) /\ p \in M /\ lev[p] # 0
  BY DEF Underflowed
<1>2. p \in 1..Len(ns) /\ Len(ns) \in Nat /\ i \in 1..Len(ns[p].ptrs) /\ i > 1
  <2>1. Between(j) \in 1..Len(ns[p].keys)
    BY DEF Siblings
  <2> QED BY <2>1 DEF Siblings
<1>3. HeadsBut(ns, new, ns[p].ptrs[i]) /\ Len(ns) <= Len(new)
  BY <1>2
<1> HIDE DEF ns, i
<1>4. ~ns[p].leaf
  BY <1>1, <1>2, PageIs
<1>5. First(ns, ns[p].ptrs[i]) # First(ns, root)
  BY <1>1, <1>2, <1>4, NotFirst
<1>6. StillFirst(ns, new, root)
  BY <1>1, <1>3, <1>5, HeadsKept
<1> QED BY <1>6 DEF ns

\* What redistribution makes of three pages.
LEMMA Redistributed ==
  ASSUME NumericKeys, NEW t, NEW lev, NEW M, NEW root, NEW p, NEW j,
         Underflowed(t, lev, M, root, p, j),
         NEW u, NEW new, u = [t EXCEPT !.nodes = new], IsPages(new, Len(t.nodes)),
         NEW c, NEW s, Siblings(t, lev, M, p, j, c, s),
         \A x \in 1..Len(t.nodes) : x # c /\ x # s /\ x # p => new[x] = t.nodes[x],
         new[c] \in Node, GoodPage(new[c], lev[c], lev), new[c].leaf \/ Len(new[c].keys) > 0,
         new[s] \in Node, GoodPage(new[s], lev[s], lev), new[s].leaf \/ Len(new[s].keys) > 0,
         new[p] \in Node, GoodPage(new[p], lev[p], lev),
         Kids(new[p]) = Kids(t.nodes[p]),
         Kids(new[c]) \cup Kids(new[s]) = Kids(t.nodes[c]) \cup Kids(t.nodes[s]),
         Kids(new[c]) \cap Kids(new[s]) = {},
         HeadsBut(t.nodes, new, t.nodes[p].ptrs[Between(j) + 1])
  PROVE  Repaired(t, lev, M, root, p, u)
<1> DEFINE ns == t.nodes
<1>1. /\ ns \in Seq(Node) /\ Len(ns) \in Nat /\ M \subseteq 1..Len(ns) /\ p \in 1..Len(ns)
      /\ c \in M /\ s \in M /\ c # s /\ c # p /\ s # p /\ p \in M
      /\ lev[c] = lev[p] - 1 /\ lev[s] = lev[p] - 1 /\ lev[p] \in Nat
  BY DEF Siblings
<1>2. /\ t \in View /\ Leveled(ns, lev) /\ Tree(ns, M, {root}) /\ Keyed(ns, M \ {c})
  BY DEF Underflowed, Siblings
<1>3. Leveled(new, lev) /\ Len(new) = Len(ns) /\ new \in Seq(Node)
  <2>1. \A x \in 1..Len(ns) :
           new[x] = ns[x] \/ (new[x] \in Node /\ GoodPage(new[x], lev[x], lev))
    BY <1>1
  <2> HIDE DEF ns
  <2>2. IsPages(new, Len(ns))
    BY DEF ns
  <2> QED BY <1>2, <2>1, <2>2, Repaginated
<1>4. u \in View /\ u.nodes = new /\ u.root = t.root /\ u.count = t.count
  BY <1>2, <1>3, Repaged
<1>5. \A q \in 1..Len(ns) : lev[q] > lev[p] => new[q] = ns[q]
  BY <1>1
<1>6. Tree(new, M, {root})
  <2>1. \A q \in M \ {c, s} : Kids(new[q]) = Kids(ns[q])
    BY <1>1
  <2>2. Kids(new[c]) \cup Kids(new[s]) = Kids(ns[c]) \cup Kids(ns[s])
    OBVIOUS
  <2> HIDE DEF ns
  <2> QED BY <1>1, <1>2, <1>3, <2>1, <2>2, TreeMoved
<1>7. Keyed(new, M \ {p})
  BY <1>1, <1>2 DEF Keyed
<1>9. StillFirst(ns, new, root)
  BY <1>3, RightHead
<1> HIDE DEF ns
<1>8. /\ \E N : /\ Tree(u.nodes, N, {root}) /\ Keyed(u.nodes, N \ {p})
                /\ \A q \in M : lev[q] >= lev[p] => q \in N
  BY <1>4, <1>6, <1>7
<1> QED BY <1>3, <1>4, <1>5, <1>8, <1>9 DEF Repaired, ns

\* A record is known by its fields.
WithEntries(n, es)  == [n EXCEPT !.entries = es]
WithKeys(n, keys)   == [n EXCEPT !.keys = keys]

\* Pages are records: a leaf has entries and next, an internal page keys and ptrs.
LEMMA LeafRecord ==
  ASSUME NEW es, NEW x, NEW n, n = Leaf(es, x), NEW new
  PROVE  WithEntries(n, new) = Leaf(new, x)
<1>1. WithEntries(n, new) \in [leaf : {TRUE}, entries : {new}, next : {x}]
  BY DEF WithEntries, Leaf
<1> QED BY <1>1 DEF Leaf

LEMMA InternalRecord ==
  ASSUME NEW keys, NEW ptrs, NEW n, n = Internal(keys, ptrs), NEW new
  PROVE  WithKeys(n, new) = Internal(new, ptrs)
<1>1. WithKeys(n, new) \in [leaf : {FALSE}, keys : {new}, ptrs : {ptrs}]
  BY DEF WithKeys, Internal
<1> QED BY <1>1 DEF Internal

\* What a leaf is with other entries, and an internal page with another separator.
LeafAgain(m, n, es) ==
  /\ LeafFits(m) /\ m \in Node /\ m.leaf = TRUE /\ Kids(m) = {} /\ m.next = n.next
  /\ m.entries = es

PageAgain(m, n) ==
  /\ InternalFits(m) /\ m \in Node /\ Kids(m) = Kids(n) /\ Len(m.keys) = Len(n.keys)
  /\ m.leaf = FALSE /\ m.ptrs = n.ptrs

\* A leaf with other entries is a leaf still.
LEMMA LeafChanged ==
  ASSUME NEW n, LeafFits(n), NEW es \in Seq(Entry), 10 * Len(es) <= Room
  PROVE  LeafAgain([n EXCEPT !.entries = es], n, es)
<1>1. n.next \in Nat /\ n = Leaf(n.entries, n.next)
  BY LeafPage DEF LeafFits
<1>2. LeafAgain(Leaf(es, n.next), n, es)
  BY <1>1, LeafIs DEF LeafAgain
<1>3. WithEntries(n, es) = Leaf(es, n.next)
  BY <1>1, LeafRecord, Zenon
<1> QED BY <1>2, <1>3 DEF WithEntries

\* An internal page with one key changed has the same pointers.
LEMMA KeyChanged ==
  ASSUME NEW n, InternalFits(n), NEW i \in 1..Len(n.keys), NEW k \in Keys
  PROVE  PageAgain([n EXCEPT !.keys[i] = k], n)
<1> DEFINE m    == [n EXCEPT !.keys[i] = k]
           keys == [n.keys EXCEPT ![i] = k]
<1>1. n = Internal(n.keys, n.ptrs)
  BY DEF InternalFits
<1>2. /\ n.keys \in Seq(Keys) /\ Len(n.keys) \in Nat
      /\ n.ptrs \in Seq(Nat) /\ Len(n.ptrs) = Len(n.keys) + 1 /\ Distinct(n.ptrs)
      /\ 4 + 8 * Len(n.keys) <= Room /\ Kids(n) = InSeq(n.ptrs)
  BY InternalPage
<1>3. keys \in Seq(Keys) /\ Len(keys) = Len(n.keys)
  BY <1>2
<1>4. m = Internal(keys, n.ptrs)
  <2>1. m = WithKeys(n, keys)
    BY DEF WithKeys
  <2> HIDE DEF keys, m
  <2> QED BY <1>1, <2>1, InternalRecord, Zenon
<1> HIDE DEF keys, m
<1>5. 4 + 8 * Len(keys) <= Room /\ Len(n.ptrs) = Len(keys) + 1
  BY <1>2, <1>3
<1>6. PageAgain(Internal(keys, n.ptrs), n)
  BY <1>2, <1>3, <1>5, InternalIs DEF PageAgain
<1> QED BY <1>4, <1>6 DEF m

\* A leaf that gets an entry at an end, and one that loses the entry at an end.
LEMMA EntryMoved ==
  ASSUME NumericKeys, NEW a, LeafFits(a), NEW b, LeafFits(b),
         Underflows(a), Used(b) > MIN_DATA_BYTES, NEW x \in Entry
  PROVE  /\ Cons(x, a.entries) \in Seq(Entry) /\ 10 * Len(Cons(x, a.entries)) <= Room
         /\ Append(a.entries, x) \in Seq(Entry) /\ 10 * Len(Append(a.entries, x)) <= Room
         /\ b.entries # << >> /\ Last(b.entries) \in Entry /\ Head(b.entries) \in Entry
         /\ Len(b.entries) # 1 => b.entries[2] \in Entry
         /\ Front(b.entries) \in Seq(Entry) /\ 10 * Len(Front(b.entries)) <= Room
         /\ Tail(b.entries) \in Seq(Entry) /\ 10 * Len(Tail(b.entries)) <= Room
<1>1. /\ a.entries \in Seq(Entry) /\ Len(a.entries) \in Nat
      /\ b.entries \in Seq(Entry) /\ Len(b.entries) \in Nat /\ 10 * Len(b.entries) <= Room
  BY LeafPage
<1>2. /\ Room \in Nat /\ MIN_DATA_BYTES \in Nat /\ MIN_DATA_BYTES >= 12
      /\ 2 * MIN_DATA_BYTES <= Room
  BY SizesAre
<1>3. 10 * Len(a.entries) < MIN_DATA_BYTES /\ 10 * Len(b.entries) > MIN_DATA_BYTES
  BY FsoIs DEF Underflows
<1>4. Len(b.entries) >= 2 /\ b.entries # << >>
  <2>1. Len(b.entries) >= 2
    BY <1>1, <1>2, <1>3
  <2> QED BY <2>1
<1>5. 10 * (Len(a.entries) + 1) <= Room /\ 10 * (Len(b.entries) - 1) <= Room
  BY <1>1, <1>2, <1>3
<1>6. Cons(x, a.entries) \in Seq(Entry) /\ Len(Cons(x, a.entries)) = Len(a.entries) + 1
  BY <1>1, ConsIs DEF IsCons, Cons
<1>7. Append(a.entries, x) \in Seq(Entry) /\ Len(Append(a.entries, x)) = Len(a.entries) + 1
  BY <1>1
<1>8. /\ Front(b.entries) \in Seq(Entry) /\ Len(Front(b.entries)) = Len(b.entries) - 1
      /\ Last(b.entries) \in Entry
  BY <1>1, <1>4, FrontIs DEF IsFront
<1>9. /\ Tail(b.entries) \in Seq(Entry) /\ Len(Tail(b.entries)) = Len(b.entries) - 1
      /\ Head(b.entries) \in Entry
  BY <1>1, <1>4, TailIs DEF IsTail
<1>10. b.entries[2] \in Entry
  <2>1. 2 \in 1..Len(b.entries)
    BY <1>1, <1>4
  <2> QED BY <1>1, <2>1
<1> QED BY <1>4, <1>5, <1>6, <1>7, <1>8, <1>9, <1>10

\* An entry at an end of b has moved to a; A and B are what they are then.
EntryTraded(A, B, a, b) ==
  /\ b # << >>
  /\ \/ A = Cons(Last(b), a) /\ B = Front(b)
     \/ A = Append(a, Head(b)) /\ B = Tail(b)

\* An entry has moved from leaf s to leaf c, both below p.
LeavesTraded(ns, new, p, c, s) ==
  /\ IsPages(new, Len(ns)) /\ PageAgain(new[p], ns[p])
  /\ \A x \in 1..Len(ns) : x # c /\ x # s /\ x # p => new[x] = ns[x]
  /\ \E A, B : /\ LeafAgain(new[c], ns[c], A) /\ LeafAgain(new[s], ns[s], B)
               /\ EntryTraded(A, B, ns[c].entries, ns[s].entries)

\* What redistributeLeaves does to the pages.
LEMMA LeavesMoved ==
  ASSUME NumericKeys, NEW t, NEW lev, NEW M, NEW root, NEW p, NEW j,
         Underflowed(t, lev, M, root, p, j), NEW c, NEW s, Siblings(t, lev, M, p, j, c, s),
         lev[c] = 0, Used(t.nodes[s]) > MIN_DATA_BYTES
  PROVE  \E new : /\ redistributeLeaves(t, p, j) = [t EXCEPT !.nodes = new]
                  /\ LeavesTraded(t.nodes, new, p, c, s)
<1> DEFINE ns    == t.nodes
           child == ns[c].entries
           sib   == ns[s].entries
           left  == j > 1
           moved == IF left THEN Last(sib) ELSE Head(sib)
           first == IF left \/ Len(sib) = 1 THEN moved ELSE sib[2]
           A     == IF left THEN Cons(moved, child) ELSE Append(child, moved)
           B     == IF left THEN Front(sib) ELSE Tail(sib)
           new   == [ns EXCEPT ![c].entries = A, ![s].entries = B, ![p].keys[Between(j)] = first.key]
           u     == redistributeLeaves(t, p, j)
<1>1. /\ ns \in Seq(Node) /\ DOMAIN ns = 1..Len(ns) /\ Len(ns) \in Nat
      /\ M \subseteq 1..Len(ns) /\ p \in M /\ p \in 1..Len(ns) /\ DOMAIN lev = 1..Len(ns)
      /\ InternalFits(ns[p]) /\ lev[p] \in Nat /\ lev[p] > 0
      /\ c = ns[p].ptrs[j] /\ s = ns[p].ptrs[Sibling(j)]
      /\ c \in M /\ s \in M /\ c # s /\ c # p /\ s # p
      /\ lev[c] = lev[p] - 1 /\ lev[s] = lev[p] - 1
      /\ Between(j) \in 1..Len(ns[p].keys)
  BY DEF Siblings
<1>2. t \in View /\ Leveled(ns, lev) /\ Underflows(ns[c])
  BY <1>1 DEF Underflowed
<1>3. u = [t EXCEPT !.nodes = new]
  BY <1>1 DEF redistributeLeaves, Between
<1>4. c \in 1..Len(ns) /\ s \in 1..Len(ns) /\ lev[s] = 0
  BY <1>1
<1>5. LeafFits(ns[c]) /\ LeafFits(ns[s]) /\ Kids(ns[c]) = {} /\ Kids(ns[s]) = {}
  <2>1. lev[c] = 0 /\ lev[s] = 0
    BY <1>4
  <2>4. Leveled(ns, lev) /\ c \in 1..Len(ns) /\ s \in 1..Len(ns)
    BY <1>2, <1>4
  <2> HIDE DEF ns
  <2>2. \A x \in 1..Len(ns) : lev[x] = 0 => LeafFits(ns[x]) /\ Kids(ns[x]) = {}
    BY <2>4, LeafPageIs, Zenon
  <2> QED BY <2>1, <2>2, <2>4
<1>6. \A x \in Entry :
         /\ Cons(x, child) \in Seq(Entry) /\ 10 * Len(Cons(x, child)) <= Room
         /\ Append(child, x) \in Seq(Entry) /\ 10 * Len(Append(child, x)) <= Room
         /\ sib # << >> /\ Last(sib) \in Entry /\ Head(sib) \in Entry
         /\ Len(sib) # 1 => sib[2] \in Entry
         /\ Front(sib) \in Seq(Entry) /\ 10 * Len(Front(sib)) <= Room
         /\ Tail(sib) \in Seq(Entry) /\ 10 * Len(Tail(sib)) <= Room
  BY <1>2, <1>5, EntryMoved
<1>7. \E x : x \in Entry
  <2>1. sib \in Seq(Entry) /\ Len(sib) \in Nat /\ Used(ns[s]) = 10 * Len(sib)
    BY <1>5, LeafPage, FsoIs
  <2>2. Len(sib) > 0
    BY <2>1, SizesAre
  <2>3. sib[1] \in Entry
    BY <2>1, <2>2
  <2> QED BY <2>3
<1>8. moved \in Entry /\ first \in Entry
  BY <1>6, <1>7
<1>14. EntryTraded(A, B, child, sib)
  BY <1>6, <1>7 DEF EntryTraded
<1> HIDE DEF moved, first
<1>9. first.key \in Keys
  BY <1>8 DEF Entry
<1>10. /\ A \in Seq(Entry) /\ 10 * Len(A) <= Room
       /\ B \in Seq(Entry) /\ 10 * Len(B) <= Room
  BY <1>6, <1>8
<1> HIDE DEF A, B, child, sib, left, u
<1>11. /\ DOMAIN new = 1..Len(ns)
       /\ new[c] = [ns[c] EXCEPT !.entries = A]
       /\ new[s] = [ns[s] EXCEPT !.entries = B]
       /\ new[p] = [ns[p] EXCEPT !.keys[Between(j)] = first.key]
       /\ \A x \in 1..Len(ns) : x # c /\ x # s /\ x # p => new[x] = ns[x]
       /\ IsPages(new, Len(ns))
  <2> HIDE DEF ns
  <2> QED BY <1>1, <1>4 DEF IsPages
<1> HIDE DEF new
<1>12. PageAgain(new[p], ns[p])
  <2>1. InternalFits(ns[p]) /\ Between(j) \in 1..Len(ns[p].keys)
    BY <1>1
  <2> HIDE DEF ns
  <2>2. PageAgain([ns[p] EXCEPT !.keys[Between(j)] = first.key], ns[p])
    BY <1>9, <2>1, KeyChanged, Zenon
  <2> QED BY <1>11, <2>2, Zenon
<1>13. LeafAgain(new[c], ns[c], A) /\ LeafAgain(new[s], ns[s], B)
  BY <1>5, <1>10, <1>11, LeafChanged
<1>15. LeavesTraded(ns, new, p, c, s)
  BY <1>11, <1>12, <1>13, <1>14 DEF LeavesTraded, child, sib
<1> QED BY <1>3, <1>15 DEF u

\* redistributeLeaves repairs the tree.
LEMMA LeavesRedistributed ==
  ASSUME NumericKeys, NEW t, NEW lev, NEW M, NEW root, NEW p, NEW j,
         Underflowed(t, lev, M, root, p, j), NEW c, NEW s, Siblings(t, lev, M, p, j, c, s),
         lev[c] = 0, Used(t.nodes[s]) > MIN_DATA_BYTES
  PROVE  Repaired(t, lev, M, root, p, redistributeLeaves(t, p, j))
<1> DEFINE ns == t.nodes
           u  == redistributeLeaves(t, p, j)
<1>1. /\ ns \in Seq(Node) /\ DOMAIN ns = 1..Len(ns) /\ Len(ns) \in Nat
      /\ M \subseteq 1..Len(ns) /\ p \in M /\ p \in 1..Len(ns) /\ DOMAIN lev = 1..Len(ns)
      /\ InternalFits(ns[p]) /\ lev[p] \in Nat /\ lev[p] > 0
      /\ c \in M /\ s \in M /\ c # s /\ c # p /\ s # p
      /\ lev[c] = lev[p] - 1 /\ lev[s] = lev[p] - 1
  BY DEF Siblings
<1>2. t \in View /\ Leveled(ns, lev)
  BY <1>1 DEF Underflowed
<1>3. PICK new : u = [t EXCEPT !.nodes = new] /\ LeavesTraded(ns, new, p, c, s)
  BY LeavesMoved
<1> HIDE DEF u
<1>4. c \in 1..Len(ns) /\ s \in 1..Len(ns) /\ lev[s] = 0
  BY <1>1
<1>5. LeafFits(ns[c]) /\ LeafFits(ns[s]) /\ Kids(ns[c]) = {} /\ Kids(ns[s]) = {}
  <2>1. lev[c] = 0 /\ lev[s] = 0
    BY <1>4
  <2>4. Leveled(ns, lev) /\ c \in 1..Len(ns) /\ s \in 1..Len(ns)
    BY <1>2, <1>4
  <2> HIDE DEF ns
  <2>2. \A x \in 1..Len(ns) : lev[x] = 0 => LeafFits(ns[x]) /\ Kids(ns[x]) = {}
    BY <2>4, LeafPageIs, Zenon
  <2> QED BY <2>1, <2>2, <2>4
<1>11. /\ IsPages(new, Len(ns))
       /\ \A x \in 1..Len(ns) : x # c /\ x # s /\ x # p => new[x] = ns[x]
  BY <1>3 DEF LeavesTraded
<1>12. PageAgain(new[p], ns[p])
  BY <1>3 DEF LeavesTraded
<1>13. PICK A, B : LeafAgain(new[c], ns[c], A) /\ LeafAgain(new[s], ns[s], B)
  BY <1>3 DEF LeavesTraded
<1>16. GoodPage(new[c], lev[c], lev) /\ GoodPage(new[s], lev[s], lev) /\ GoodPage(new[p], lev[p], lev)
  <2>1. GoodPage(ns[c], lev[c], lev) /\ GoodPage(ns[s], lev[s], lev) /\ GoodPage(ns[p], lev[p], lev)
    BY <1>1, <1>2, <1>4, PageIs
  <2>2. GoodPage(new[c], lev[c], lev) /\ GoodPage(new[s], lev[s], lev)
    BY <1>4, <1>13, <2>1 DEF GoodPage, LeafAgain
  <2>3. GoodPage(new[p], lev[p], lev)
    <3> HIDE DEF ns
    <3>1. \A q \in InSeq(ns[p].ptrs) : q \in DOMAIN lev /\ lev[q] = lev[p] - 1
      BY <1>1, <2>1 DEF GoodPage
    <3>2. InternalFits(new[p]) /\ new[p].ptrs = ns[p].ptrs
      BY <1>12 DEF PageAgain
    <3> QED BY <1>1, <3>1, <3>2 DEF GoodPage
  <2> QED BY <2>2, <2>3
<1>17. /\ Kids(new[c]) \cup Kids(new[s]) = Kids(ns[c]) \cup Kids(ns[s])
       /\ Kids(new[c]) \cap Kids(new[s]) = {}
  BY <1>5, <1>13 DEF LeafAgain
<1>18. /\ new[c] \in Node /\ new[c].leaf /\ new[s] \in Node /\ new[s].leaf /\ new[p] \in Node
       /\ Kids(new[p]) = Kids(ns[p])
  BY <1>12, <1>13 DEF LeafAgain, PageAgain
<1>19. HeadsBut(ns, new, ns[p].ptrs[Between(j) + 1])
  <2>1. ns[p].leaf = FALSE /\ ns[c].leaf = TRUE /\ ns[s].leaf = TRUE
    BY <1>1, <1>5, InternalPage, LeafPage
  <2>2. new[p].leaf = FALSE /\ new[p].ptrs = ns[p].ptrs
    BY <1>12 DEF PageAgain
  <2>3. new[c].leaf = TRUE /\ new[s].leaf = TRUE
    BY <1>13 DEF LeafAgain
  <2>4. \A x \in 1..Len(ns) : x # c /\ x # s /\ x # p => new[x] = ns[x]
    BY <1>11
  <2> HIDE DEF ns
  <2> QED BY <2>1, <2>2, <2>3, <2>4 DEF HeadsBut
<1> QED BY <1>3, <1>11, <1>16, <1>17, <1>18, <1>19, Redistributed DEF u

\* A page with a pointer and a key added at one end.
LEMMA AddedIs ==
  ASSUME NEW S, NEW s \in Seq(S), NEW x \in S, Distinct(s), x \notin InSeq(s)
  PROVE  /\ Cons(x, s) \in Seq(S) /\ Len(Cons(x, s)) = Len(s) + 1
         /\ InSeq(Cons(x, s)) = InSeq(s) \cup {x} /\ Distinct(Cons(x, s))
         /\ Append(s, x) \in Seq(S) /\ Len(Append(s, x)) = Len(s) + 1
         /\ InSeq(Append(s, x)) = InSeq(s) \cup {x} /\ Distinct(Append(s, x))
<1> DEFINE one == <<x>>
<1>1. one \in Seq(S) /\ InSeq(one) = {x} /\ Distinct(one) /\ Len(one) = 1
  <2>1. one \in Seq(S) /\ DOMAIN one = {1} /\ one[1] = x /\ Len(one) = 1
    OBVIOUS
  <2> HIDE DEF one
  <2> QED BY <2>1 DEF InSeq, Distinct
<1>2. Cons(x, s) = one \o s
  BY DEF Cons
<1>3. Append(s, x) = s \o one
  OBVIOUS
<1> HIDE DEF one
<1>4. InSeq(one) \cap InSeq(s) = {} /\ InSeq(s) \cap InSeq(one) = {}
  BY <1>1
<1>5. InSeq(one \o s) = InSeq(one) \cup InSeq(s) /\ Distinct(one \o s)
  BY <1>1, <1>4, JoinedIs
<1>6. InSeq(s \o one) = InSeq(s) \cup InSeq(one) /\ Distinct(s \o one)
  BY <1>1, <1>4, JoinedIs
<1>7. /\ one \o s \in Seq(S) /\ Len(one \o s) = Len(s) + 1
      /\ s \o one \in Seq(S) /\ Len(s \o one) = Len(s) + 1
  <2>1. one \o s \in Seq(S) /\ Len(one \o s) = Len(one) + Len(s)
    BY <1>1, ConcatIs
  <2>2. s \o one \in Seq(S) /\ Len(s \o one) = Len(s) + Len(one)
    BY <1>1, ConcatIs
  <2>3. Len(s) \in Nat
    OBVIOUS
  <2> QED BY <1>1, <2>1, <2>2, <2>3
<1> QED BY <1>1, <1>2, <1>3, <1>5, <1>6, <1>7

\* A page with a pointer and a key removed at one end.
LEMMA TrimmedIs ==
  ASSUME NEW S, NEW s \in Seq(S), s # << >>, Distinct(s)
  PROVE  /\ Front(s) \in Seq(S) /\ Len(Front(s)) = Len(s) - 1
         /\ InSeq(Front(s)) = InSeq(s) \ {Last(s)} /\ Distinct(Front(s))
         /\ Tail(s) \in Seq(S) /\ Len(Tail(s)) = Len(s) - 1
         /\ InSeq(Tail(s)) = InSeq(s) \ {Head(s)} /\ Distinct(Tail(s))
         /\ Last(s) \in InSeq(s) /\ Head(s) \in InSeq(s) /\ Last(s) \in S /\ Head(s) \in S
<1>1. /\ Front(s) \in Seq(S) /\ IsFront(Front(s), s)
      /\ Last(s) = s[Len(s)] /\ Last(s) \in S /\ Len(s) > 0
  BY FrontIs, Zenon
<1>2. /\ Tail(s) \in Seq(S) /\ IsTail(Tail(s), s)
      /\ Head(s) = s[1] /\ Head(s) \in S
  BY TailIs, Zenon
<1> DEFINE f == Front(s)
           r == Tail(s)
<1>3. /\ f \in Seq(S) /\ Len(f) = Len(s) - 1 /\ \A i \in 1..Len(s) - 1 : f[i] = s[i]
  BY <1>1 DEF IsFront
<1>4. /\ r \in Seq(S) /\ Len(r) = Len(s) - 1 /\ \A i \in 1..Len(s) - 1 : r[i] = s[i + 1]
  BY <1>2 DEF IsTail
<1> HIDE DEF f, r
<1>5. /\ Len(s) \in Nat /\ DOMAIN s = 1..Len(s) /\ DOMAIN f = 1..Len(s) - 1
      /\ DOMAIN r = 1..Len(s) - 1
  BY <1>3, <1>4
<1>6. InSeq(f) = InSeq(s) \ {s[Len(s)]} /\ Distinct(f)
  <2>1. \A i \in 1..Len(s) - 1 : i \in 1..Len(s) /\ s[i] # s[Len(s)]
    BY <1>1, <1>5 DEF Distinct
  <2>2. \A n \in Nat : \A i \in 1..n : i # n => i \in 1..n - 1
    OBVIOUS
  <2>3. InSeq(f) \subseteq InSeq(s) \ {s[Len(s)]}
    BY <1>3, <1>5, <2>1 DEF InSeq
  <2>4. InSeq(s) \ {s[Len(s)]} \subseteq InSeq(f)
    <3>1. ASSUME NEW i \in 1..Len(s), s[i] # s[Len(s)] PROVE s[i] \in InSeq(f)
      <4>1. i \in 1..Len(s) - 1
        BY <1>5, <2>2, <3>1
      <4> QED BY <1>3, <1>5, <4>1 DEF InSeq
    <3> QED BY <1>5, <3>1 DEF InSeq
  <2>5. Distinct(f)
    BY <1>3, <1>5, <2>1 DEF Distinct
  <2> QED BY <2>3, <2>4, <2>5
<1>7. InSeq(r) = InSeq(s) \ {s[1]} /\ Distinct(r)
  <2>1. \A i \in 1..Len(s) - 1 : i + 1 \in 1..Len(s) /\ i + 1 # 1 /\ 1 \in 1..Len(s)
    BY <1>1, <1>5
  <2>2. ASSUME NEW i \in 1..Len(s), i # 1 PROVE s[i] \in InSeq(r)
    <3>1. i - 1 \in 1..Len(s) - 1 /\ (i - 1) + 1 = i
      BY <1>5, <2>2
    <3> QED BY <1>4, <1>5, <3>1 DEF InSeq
  <2>3. InSeq(r) \subseteq InSeq(s) \ {s[1]}
    <3>1. \A i \in 1..Len(s) - 1 : s[i + 1] # s[1]
      BY <1>5, <2>1 DEF Distinct
    <3>2. \A i \in 1..Len(s) - 1 : r[i] \in InSeq(s)
      BY <1>4, <1>5, <2>1 DEF InSeq
    <3> QED BY <1>4, <1>5, <3>1, <3>2 DEF InSeq
  <2>4. InSeq(s) \ {s[1]} \subseteq InSeq(r)
    BY <1>5, <2>2 DEF InSeq
  <2>5. Distinct(r)
    <3> SUFFICES ASSUME NEW i \in 1..Len(s) - 1, NEW k \in 1..Len(s) - 1, r[i] = r[k] PROVE i = k
      BY <1>5 DEF Distinct
    <3>1. i + 1 = k + 1
      BY <1>4, <1>5, <2>1 DEF Distinct
    <3> QED BY <1>5, <3>1
  <2> QED BY <2>3, <2>4, <2>5
<1>8. s[Len(s)] \in InSeq(s) /\ s[1] \in InSeq(s)
  <2>1. Len(s) \in DOMAIN s /\ 1 \in DOMAIN s
    BY <1>1, <1>5
  <2> QED BY <2>1 DEF InSeq
<1> QED BY <1>1, <1>2, <1>3, <1>4, <1>6, <1>7, <1>8 DEF f, r

\* The pages A and B have the pointers that a and b had.
Shifted(A, B, a, b) ==
  /\ InternalFits(A) /\ A \in Node /\ Len(A.keys) > 0
  /\ InternalFits(B) /\ B \in Node /\ Len(B.keys) > 0
  /\ Kids(A) \cup Kids(B) = Kids(a) \cup Kids(b) /\ Kids(A) \cap Kids(B) = {}

\* A pointer moved from one page of a tree to another leaves a tree.
LEMMA PointerMoved ==
  ASSUME NumericKeys, NEW a, InternalFits(a), NEW b, InternalFits(b),
         Kids(a) \cap Kids(b) = {}, Underflows(a), Used(b) > MIN_DATA_BYTES, NEW x \in Keys
  PROVE  /\ Shifted(Internal(Cons(x, a.keys), Cons(Last(b.ptrs), a.ptrs)),
                    Internal(Front(b.keys), Front(b.ptrs)), a, b)
         /\ Shifted(Internal(Append(a.keys, x), Append(a.ptrs, Head(b.ptrs))),
                    Internal(Tail(b.keys), Tail(b.ptrs)), a, b)
         /\ Last(b.keys) \in Keys /\ Head(b.keys) \in Keys
<1>1. /\ a.keys \in Seq(Keys) /\ Len(a.keys) \in Nat /\ a.ptrs \in Seq(Nat)
      /\ Len(a.ptrs) = Len(a.keys) + 1 /\ Distinct(a.ptrs) /\ Kids(a) = InSeq(a.ptrs)
  BY InternalPage
<1>2. /\ b.keys \in Seq(Keys) /\ Len(b.keys) \in Nat /\ b.ptrs \in Seq(Nat)
      /\ Len(b.ptrs) = Len(b.keys) + 1 /\ Distinct(b.ptrs) /\ Kids(b) = InSeq(b.ptrs)
      /\ 4 + 8 * Len(b.keys) <= Room
  BY InternalPage
<1>3. /\ Room \in Nat /\ MIN_DATA_BYTES \in Nat /\ MIN_DATA_BYTES >= 12
      /\ 2 * MIN_DATA_BYTES <= Room
  BY SizesAre
<1>4. 4 + 8 * Len(a.keys) < MIN_DATA_BYTES /\ 4 + 8 * Len(b.keys) > MIN_DATA_BYTES
  BY FsoIs DEF Underflows
<1>5. Len(b.keys) >= 2 /\ b.keys # << >> /\ b.ptrs # << >>
  <2>1. Len(b.keys) >= 2
    BY <1>2, <1>3, <1>4
  <2> QED BY <1>2, <2>1
<1>6. 4 + 8 * (Len(a.keys) + 1) <= Room /\ 4 + 8 * (Len(b.keys) - 1) <= Room
  BY <1>1, <1>2, <1>3, <1>4
<1>7. /\ Cons(x, a.keys) \in Seq(Keys) /\ Len(Cons(x, a.keys)) = Len(a.keys) + 1
      /\ Append(a.keys, x) \in Seq(Keys) /\ Len(Append(a.keys, x)) = Len(a.keys) + 1
  <2>1. <<x>> \o a.keys \in Seq(Keys) /\ IsCons(<<x>> \o a.keys, x, a.keys)
    BY <1>1, ConsIs, Zenon
  <2> QED BY <1>1, <2>1 DEF IsCons, Cons
<1>8. /\ Front(b.keys) \in Seq(Keys) /\ Len(Front(b.keys)) = Len(b.keys) - 1
      /\ Last(b.keys) \in Keys
  BY <1>2, <1>5, FrontIs DEF IsFront
<1>9. /\ Tail(b.keys) \in Seq(Keys) /\ Len(Tail(b.keys)) = Len(b.keys) - 1
      /\ Head(b.keys) \in Keys
  BY <1>2, <1>5, TailIs DEF IsTail
<1>10. /\ Front(b.ptrs) \in Seq(Nat) /\ Len(Front(b.ptrs)) = Len(b.ptrs) - 1
       /\ InSeq(Front(b.ptrs)) = Kids(b) \ {Last(b.ptrs)} /\ Distinct(Front(b.ptrs))
       /\ Tail(b.ptrs) \in Seq(Nat) /\ Len(Tail(b.ptrs)) = Len(b.ptrs) - 1
       /\ InSeq(Tail(b.ptrs)) = Kids(b) \ {Head(b.ptrs)} /\ Distinct(Tail(b.ptrs))
       /\ Last(b.ptrs) \in Kids(b) /\ Head(b.ptrs) \in Kids(b)
       /\ Last(b.ptrs) \in Nat /\ Head(b.ptrs) \in Nat
  <2> DEFINE ptrs == b.ptrs
  <2>1. ptrs \in Seq(Nat) /\ ptrs # << >> /\ Distinct(ptrs) /\ Kids(b) = InSeq(ptrs)
    BY <1>2, <1>5
  <2> HIDE DEF ptrs
  <2>2. /\ Front(ptrs) \in Seq(Nat) /\ Len(Front(ptrs)) = Len(ptrs) - 1
        /\ InSeq(Front(ptrs)) = InSeq(ptrs) \ {Last(ptrs)} /\ Distinct(Front(ptrs))
        /\ Tail(ptrs) \in Seq(Nat) /\ Len(Tail(ptrs)) = Len(ptrs) - 1
        /\ InSeq(Tail(ptrs)) = InSeq(ptrs) \ {Head(ptrs)} /\ Distinct(Tail(ptrs))
        /\ Last(ptrs) \in InSeq(ptrs) /\ Head(ptrs) \in InSeq(ptrs)
        /\ Last(ptrs) \in Nat /\ Head(ptrs) \in Nat
    BY <2>1, TrimmedIs
  <2> QED BY <2>1, <2>2 DEF ptrs
<1> DEFINE L == Last(b.ptrs)
           H == Head(b.ptrs)
<1>11. L \notin InSeq(a.ptrs) /\ H \notin InSeq(a.ptrs) /\ L \in Nat /\ H \in Nat
  BY <1>1, <1>10
<1> HIDE DEF L, H
<1>12. /\ Cons(L, a.ptrs) \in Seq(Nat) /\ Len(Cons(L, a.ptrs)) = Len(a.ptrs) + 1
       /\ InSeq(Cons(L, a.ptrs)) = InSeq(a.ptrs) \cup {L} /\ Distinct(Cons(L, a.ptrs))
  BY <1>1, <1>11, AddedIs
<1>13. /\ Append(a.ptrs, H) \in Seq(Nat) /\ Len(Append(a.ptrs, H)) = Len(a.ptrs) + 1
       /\ InSeq(Append(a.ptrs, H)) = InSeq(a.ptrs) \cup {H} /\ Distinct(Append(a.ptrs, H))
  BY <1>1, <1>11, AddedIs
<1>14. Shifted(Internal(Cons(x, a.keys), Cons(L, a.ptrs)),
               Internal(Front(b.keys), Front(b.ptrs)), a, b)
  <2> DEFINE ak == Cons(x, a.keys)
             ap == Cons(L, a.ptrs)
             bk == Front(b.keys)
             bp == Front(b.ptrs)
             A  == Internal(ak, ap)
             B  == Internal(bk, bp)
  <2>1. /\ ak \in Seq(Keys) /\ ap \in Seq(Nat) /\ Len(ap) = Len(ak) + 1 /\ Distinct(ap)
        /\ 4 + 8 * Len(ak) <= Room /\ Len(ak) > 0
    BY <1>1, <1>6, <1>7, <1>12
  <2>2. /\ bk \in Seq(Keys) /\ bp \in Seq(Nat) /\ Len(bp) = Len(bk) + 1 /\ Distinct(bp)
        /\ 4 + 8 * Len(bk) <= Room /\ Len(bk) > 0
    BY <1>2, <1>5, <1>6, <1>8, <1>10
  <2>3. InSeq(ap) = Kids(a) \cup {L} /\ InSeq(bp) = Kids(b) \ {L} /\ L \in Kids(b)
    BY <1>1, <1>10, <1>12 DEF L
  <2> HIDE DEF ak, ap, bk, bp
  <2>4. InternalFits(A) /\ A \in Node /\ A.keys = ak /\ Kids(A) = InSeq(ap)
    BY <2>1, InternalIs
  <2>5. InternalFits(B) /\ B \in Node /\ B.keys = bk /\ Kids(B) = InSeq(bp)
    BY <2>2, InternalIs
  <2> HIDE DEF A, B
  <2>6. Kids(A) \cup Kids(B) = Kids(a) \cup Kids(b) /\ Kids(A) \cap Kids(B) = {}
    BY <2>3, <2>4, <2>5
  <2>7. Shifted(A, B, a, b)
    BY <2>1, <2>2, <2>4, <2>5, <2>6 DEF Shifted
  <2> QED BY <2>7 DEF A, B, ak, ap, bk, bp
<1>15. Shifted(Internal(Append(a.keys, x), Append(a.ptrs, H)),
               Internal(Tail(b.keys), Tail(b.ptrs)), a, b)
  <2> DEFINE ak == Append(a.keys, x)
             ap == Append(a.ptrs, H)
             bk == Tail(b.keys)
             bp == Tail(b.ptrs)
             A  == Internal(ak, ap)
             B  == Internal(bk, bp)
  <2>1. /\ ak \in Seq(Keys) /\ ap \in Seq(Nat) /\ Len(ap) = Len(ak) + 1 /\ Distinct(ap)
        /\ 4 + 8 * Len(ak) <= Room /\ Len(ak) > 0
    BY <1>1, <1>6, <1>7, <1>13
  <2>2. /\ bk \in Seq(Keys) /\ bp \in Seq(Nat) /\ Len(bp) = Len(bk) + 1 /\ Distinct(bp)
        /\ 4 + 8 * Len(bk) <= Room /\ Len(bk) > 0
    BY <1>2, <1>5, <1>6, <1>9, <1>10
  <2>3. InSeq(ap) = Kids(a) \cup {H} /\ InSeq(bp) = Kids(b) \ {H} /\ H \in Kids(b)
    BY <1>1, <1>10, <1>13 DEF H
  <2> HIDE DEF ak, ap, bk, bp
  <2>4. InternalFits(A) /\ A \in Node /\ A.keys = ak /\ Kids(A) = InSeq(ap)
    BY <2>1, InternalIs
  <2>5. InternalFits(B) /\ B \in Node /\ B.keys = bk /\ Kids(B) = InSeq(bp)
    BY <2>2, InternalIs
  <2> HIDE DEF A, B
  <2>6. Kids(A) \cup Kids(B) = Kids(a) \cup Kids(b) /\ Kids(A) \cap Kids(B) = {}
    BY <2>3, <2>4, <2>5
  <2>7. Shifted(A, B, a, b)
    BY <2>1, <2>2, <2>4, <2>5, <2>6 DEF Shifted
  <2> QED BY <2>7 DEF A, B, ak, ap, bk, bp
<1> QED BY <1>8, <1>9, <1>14, <1>15 DEF L, H

\* The page behind the separator is the only one whose first pointer is another.
LEMMA PointerBehind ==
  ASSUME NEW a, InternalFits(a), NEW b, InternalFits(b), Len(b.keys) > 0, NEW x
  PROVE  /\ Append(a.ptrs, x)[1] = a.ptrs[1]
         /\ Front(b.ptrs)[1] = b.ptrs[1]
<1> DEFINE ap == a.ptrs
           bp == b.ptrs
<1>1. ap \in Seq(Nat) /\ Len(ap) > 0
  <2>1. a.ptrs \in Seq(Nat) /\ Len(a.ptrs) = Len(a.keys) + 1 /\ Len(a.keys) \in Nat
    BY InternalPage
  <2> QED BY <2>1
<1>2. bp \in Seq(Nat) /\ Len(bp) - 1 \in 1..Len(bp)
  <2>1. b.ptrs \in Seq(Nat) /\ Len(b.ptrs) = Len(b.keys) + 1 /\ Len(b.keys) \in Nat
    BY InternalPage
  <2> QED BY <2>1
<1> HIDE DEF ap, bp
<1>3. Append(ap, x)[1] = ap[1]
  BY <1>1
<1>4. Front(bp)[1] = bp[1]
  BY <1>2, HeadCut DEF Front
<1> QED BY <1>3, <1>4 DEF ap, bp

\* A pointer has moved from page s to page c, both below p.
PointerTraded(A, B, a, b, left) ==
  IF left THEN A = Cons(Last(b), a) /\ B = Front(b) ELSE A = Append(a, Head(b)) /\ B = Tail(b)

PagesTraded(ns, new, p, j, c, s) ==
  /\ IsPages(new, Len(ns)) /\ PageAgain(new[p], ns[p])
  /\ \A x \in 1..Len(ns) : x # c /\ x # s /\ x # p => new[x] = ns[x]
  /\ Shifted(new[c], new[s], ns[c], ns[s])
  /\ PointerTraded(new[c].ptrs, new[s].ptrs, ns[c].ptrs, ns[s].ptrs, j > 1)

\* What redistributeInternals does to the pages.
LEMMA InternalsMoved ==
  ASSUME NumericKeys, NEW t, NEW lev, NEW M, NEW root, NEW p, NEW j,
         Underflowed(t, lev, M, root, p, j), NEW c, NEW s, Siblings(t, lev, M, p, j, c, s),
         lev[c] # 0, Used(t.nodes[s]) > MIN_DATA_BYTES
  PROVE  \E new : /\ redistributeInternals(t, p, j) = [t EXCEPT !.nodes = new]
                  /\ PagesTraded(t.nodes, new, p, j, c, s)
<1> DEFINE ns    == t.nodes
           child == ns[c]
           sib   == ns[s]
           left  == j > 1
           sep   == ns[p].keys[Between(j)]
           A     == IF left
                    THEN Internal(Cons(sep, child.keys), Cons(Last(sib.ptrs), child.ptrs))
                    ELSE Internal(Append(child.keys, sep), Append(child.ptrs, Head(sib.ptrs)))
           B     == IF left THEN Internal(Front(sib.keys), Front(sib.ptrs))
                            ELSE Internal(Tail(sib.keys), Tail(sib.ptrs))
           up    == IF left THEN Last(sib.keys) ELSE Head(sib.keys)
           new   == [ns EXCEPT ![c] = A, ![s] = B, ![p].keys[Between(j)] = up]
           u     == redistributeInternals(t, p, j)
<1>1. /\ ns \in Seq(Node) /\ DOMAIN ns = 1..Len(ns) /\ Len(ns) \in Nat
      /\ M \subseteq 1..Len(ns) /\ p \in M /\ p \in 1..Len(ns) /\ DOMAIN lev = 1..Len(ns)
      /\ InternalFits(ns[p]) /\ lev[p] \in Nat /\ lev[p] > 0
      /\ c = ns[p].ptrs[j] /\ s = ns[p].ptrs[Sibling(j)]
      /\ c \in M /\ s \in M /\ c # s /\ c # p /\ s # p
      /\ lev[c] = lev[p] - 1 /\ lev[s] = lev[p] - 1
      /\ Between(j) \in 1..Len(ns[p].keys)
  BY DEF Siblings
<1>2. t \in View /\ Leveled(ns, lev) /\ Underflows(ns[c]) /\ Tree(ns, M, {root})
  BY <1>1 DEF Underflowed
<1>3. u = [t EXCEPT !.nodes = new]
  BY <1>1 DEF redistributeInternals, Between
<1>4. c \in 1..Len(ns) /\ s \in 1..Len(ns) /\ lev[s] # 0
  BY <1>1
<1>5. InternalFits(ns[c]) /\ InternalFits(ns[s])
  <2>1. lev[c] # 0 /\ lev[s] # 0
    BY <1>4
  <2>4. Leveled(ns, lev) /\ c \in 1..Len(ns) /\ s \in 1..Len(ns)
    BY <1>2, <1>4
  <2> HIDE DEF ns
  <2>2. \A x \in 1..Len(ns) : lev[x] # 0 => InternalFits(ns[x])
    BY <2>4, InternalPageIs, Zenon
  <2> QED BY <2>1, <2>2, <2>4
<1>6. Kids(ns[c]) \cap Kids(ns[s]) = {}
  BY <1>1, <1>2 DEF Tree
<1>7. sep \in Keys
  <2>1. ns[p].keys \in Seq(Keys)
    BY <1>1, InternalPage
  <2> QED BY <1>1, <2>1
<1>8. Shifted(A, B, child, sib) /\ up \in Keys
  <2>1. Used(sib) > MIN_DATA_BYTES
    OBVIOUS
  <2> HIDE DEF ns, child, sib, sep
  <2>2. InternalFits(child) /\ InternalFits(sib) /\ Kids(child) \cap Kids(sib) = {} /\ Underflows(child)
    BY <1>2, <1>5, <1>6 DEF child, sib
  <2>3. /\ Shifted(Internal(Cons(sep, child.keys), Cons(Last(sib.ptrs), child.ptrs)),
                   Internal(Front(sib.keys), Front(sib.ptrs)), child, sib)
        /\ Shifted(Internal(Append(child.keys, sep), Append(child.ptrs, Head(sib.ptrs))),
                   Internal(Tail(sib.keys), Tail(sib.ptrs)), child, sib)
        /\ Last(sib.keys) \in Keys /\ Head(sib.keys) \in Keys
    BY <1>7, <2>1, <2>2, PointerMoved
  <2> QED BY <2>3
<1>9. IF left THEN A.ptrs = Cons(Last(sib.ptrs), child.ptrs) /\ B.ptrs = Front(sib.ptrs)
      ELSE A.ptrs = Append(child.ptrs, Head(sib.ptrs)) /\ B.ptrs = Tail(sib.ptrs)
  BY DEF Internal
<1> HIDE DEF A, B, up, child, sib, left, u, sep
<1>11. /\ DOMAIN new = 1..Len(ns)
       /\ new[c] = A
       /\ new[s] = B
       /\ new[p] = [ns[p] EXCEPT !.keys[Between(j)] = up]
       /\ \A x \in 1..Len(ns) : x # c /\ x # s /\ x # p => new[x] = ns[x]
       /\ IsPages(new, Len(ns))
  <2> HIDE DEF ns
  <2> QED BY <1>1, <1>4 DEF IsPages
<1> HIDE DEF new
<1>12. PageAgain(new[p], ns[p])
  BY <1>1, <1>8, <1>11, KeyChanged
<1>13. PointerTraded(new[c].ptrs, new[s].ptrs, ns[c].ptrs, ns[s].ptrs, j > 1)
  BY <1>9, <1>11 DEF PointerTraded, child, sib, left
<1>14. PagesTraded(ns, new, p, j, c, s)
  BY <1>8, <1>11, <1>12, <1>13 DEF PagesTraded, child, sib
<1> QED BY <1>3, <1>14 DEF u

\* redistributeInternals repairs the tree.
LEMMA InternalsRedistributed ==
  ASSUME NumericKeys, NEW t, NEW lev, NEW M, NEW root, NEW p, NEW j,
         Underflowed(t, lev, M, root, p, j), NEW c, NEW s, Siblings(t, lev, M, p, j, c, s),
         lev[c] # 0, Used(t.nodes[s]) > MIN_DATA_BYTES
  PROVE  Repaired(t, lev, M, root, p, redistributeInternals(t, p, j))
<1> DEFINE ns    == t.nodes
           left  == j > 1
           u     == redistributeInternals(t, p, j)
<1>1. /\ ns \in Seq(Node) /\ DOMAIN ns = 1..Len(ns) /\ Len(ns) \in Nat
      /\ M \subseteq 1..Len(ns) /\ p \in M /\ p \in 1..Len(ns) /\ DOMAIN lev = 1..Len(ns)
      /\ InternalFits(ns[p]) /\ lev[p] \in Nat /\ lev[p] > 0
      /\ c \in M /\ s \in M /\ c # s /\ c # p /\ s # p
      /\ lev[c] = lev[p] - 1 /\ lev[s] = lev[p] - 1
  BY DEF Siblings
<1>2. t \in View /\ Leveled(ns, lev)
  BY <1>1 DEF Underflowed
<1>3. PICK new : u = [t EXCEPT !.nodes = new] /\ PagesTraded(ns, new, p, j, c, s)
  BY InternalsMoved
<1> HIDE DEF u
<1>4. c \in 1..Len(ns) /\ s \in 1..Len(ns) /\ lev[s] # 0
  BY <1>1
<1>5. InternalFits(ns[c]) /\ InternalFits(ns[s])
  <2>1. lev[c] # 0 /\ lev[s] # 0
    BY <1>4
  <2>4. Leveled(ns, lev) /\ c \in 1..Len(ns) /\ s \in 1..Len(ns)
    BY <1>2, <1>4
  <2> HIDE DEF ns
  <2>2. \A x \in 1..Len(ns) : lev[x] # 0 => InternalFits(ns[x])
    BY <2>4, InternalPageIs, Zenon
  <2> QED BY <2>1, <2>2, <2>4
<1>9. IF left THEN new[s].ptrs[1] = ns[s].ptrs[1] ELSE new[c].ptrs[1] = ns[c].ptrs[1]
  <2> DEFINE a == ns[c]
             b == ns[s]
  <2>1. InternalFits(a) /\ InternalFits(b) /\ Len(b.keys) > 0
    <3>1. ~ns[s].leaf
      BY <1>5, InternalPage
    <3> QED BY <1>5, <3>1 DEF Siblings
  <2>2. PointerTraded(new[c].ptrs, new[s].ptrs, a.ptrs, b.ptrs, left)
    BY <1>3 DEF PagesTraded
  <2> HIDE DEF a, b, ns, left
  <2>3. /\ Append(a.ptrs, Head(b.ptrs))[1] = a.ptrs[1]
        /\ Front(b.ptrs)[1] = b.ptrs[1]
    BY <2>1, PointerBehind
  <2>4. IF left THEN new[s].ptrs[1] = b.ptrs[1] ELSE new[c].ptrs[1] = a.ptrs[1]
    BY <2>2, <2>3 DEF PointerTraded
  <2> QED BY <2>4 DEF a, b
<1>10. /\ left => c = ns[p].ptrs[Between(j) + 1]
       /\ ~left => s = ns[p].ptrs[Between(j) + 1]
  BY DEF Siblings
<1> HIDE DEF left
<1>11. /\ IsPages(new, Len(ns))
       /\ \A x \in 1..Len(ns) : x # c /\ x # s /\ x # p => new[x] = ns[x]
  BY <1>3 DEF PagesTraded
<1>12. PageAgain(new[p], ns[p])
  BY <1>3 DEF PagesTraded
<1>13. /\ InternalFits(new[c]) /\ new[c] \in Node /\ Len(new[c].keys) > 0
       /\ InternalFits(new[s]) /\ new[s] \in Node /\ Len(new[s].keys) > 0
       /\ Kids(new[c]) \cup Kids(new[s]) = Kids(ns[c]) \cup Kids(ns[s])
       /\ Kids(new[c]) \cap Kids(new[s]) = {}
  BY <1>3 DEF PagesTraded, Shifted
<1>16. GoodPage(new[c], lev[c], lev) /\ GoodPage(new[s], lev[s], lev) /\ GoodPage(new[p], lev[p], lev)
  <2> HIDE DEF ns
  <2>1. GoodPage(ns[p], lev[p], lev)
    BY <1>1, <1>2, PageIs
  <2>2. \A q \in Kids(ns[c]) \cup Kids(ns[s]) : q \in DOMAIN lev /\ lev[q] = lev[c] - 1
    <3>1. \A q \in Kids(ns[c]) : q \in 1..Len(ns) /\ lev[q] = lev[c] - 1
      BY <1>2, <1>4, PageIs
    <3>2. \A q \in Kids(ns[s]) : q \in 1..Len(ns) /\ lev[q] = lev[s] - 1
      BY <1>2, <1>4, PageIs
    <3> QED BY <1>1, <3>1, <3>2
  <2>3. Kids(new[c]) = InSeq(new[c].ptrs) /\ Kids(new[s]) = InSeq(new[s].ptrs)
    BY <1>13, InternalPage
  <2>4. lev[c] > 0 /\ lev[s] > 0
    BY <1>1
  <2>5. GoodPage(new[c], lev[c], lev)
    BY <1>13, <2>2, <2>3, <2>4 DEF GoodPage
  <2>6. GoodPage(new[s], lev[s], lev)
    BY <1>1, <1>13, <2>2, <2>3, <2>4 DEF GoodPage
  <2>7. GoodPage(new[p], lev[p], lev)
    <3>1. \A q \in InSeq(ns[p].ptrs) : q \in DOMAIN lev /\ lev[q] = lev[p] - 1
      BY <1>1, <2>1 DEF GoodPage
    <3>2. InternalFits(new[p]) /\ new[p].ptrs = ns[p].ptrs
      BY <1>12 DEF PageAgain
    <3> QED BY <1>1, <3>1, <3>2 DEF GoodPage
  <2> QED BY <2>5, <2>6, <2>7
<1>18. new[p] \in Node /\ Kids(new[p]) = Kids(ns[p])
  BY <1>12 DEF PageAgain
<1>19. HeadsBut(ns, new, ns[p].ptrs[Between(j) + 1])
  <2>1. /\ ns[p].leaf = FALSE /\ ns[c].leaf = FALSE /\ ns[s].leaf = FALSE
        /\ new[c].leaf = FALSE /\ new[s].leaf = FALSE
    BY <1>1, <1>5, <1>13, InternalPage
  <2>2. new[p].leaf = FALSE /\ new[p].ptrs = ns[p].ptrs
    BY <1>12 DEF PageAgain
  <2>3. IF left THEN new[s].ptrs[1] = ns[s].ptrs[1] ELSE new[c].ptrs[1] = ns[c].ptrs[1]
    BY <1>9
  <2>4. \A x \in 1..Len(ns) : x # c /\ x # s /\ x # p => new[x] = ns[x]
    BY <1>11
  <2>5. /\ left => c = ns[p].ptrs[Between(j) + 1]
        /\ ~left => s = ns[p].ptrs[Between(j) + 1]
    BY <1>10
  <2> HIDE DEF ns
  <2> QED BY <2>1, <2>2, <2>3, <2>4, <2>5 DEF HeadsBut
<1> QED BY <1>3, <1>11, <1>13, <1>16, <1>18, <1>19, Redistributed DEF u

\* The page m holds what a and b held, if it is not larger than a page.
Merged(m, a, b, extra) ==
  /\ Fso(m) = Fso(a) + Used(b) + extra
  /\ Fso(m) <= PAGE_SIZE =>
       /\ m \in Node /\ m.leaf = a.leaf /\ Kids(m) = Kids(a) \cup Kids(b)
       /\ IF m.leaf THEN LeafFits(m) /\ m.next = b.next
          ELSE InternalFits(m) /\ Len(m.keys) > 0 /\ m.ptrs[1] = a.ptrs[1]

\* The page two leaves are merged into.
LEMMA LeavesMerged ==
  ASSUME NumericKeys, NEW a, LeafFits(a), NEW b, LeafFits(b), NEW x
  PROVE  Merged(mergedNode(a, x, b), a, b, 0)
<1> DEFINE es == a.entries \o b.entries
           m  == Leaf(es, b.next)
<1>1. /\ a.leaf = TRUE /\ a.entries \in Seq(Entry) /\ Len(a.entries) \in Nat /\ Kids(a) = {}
      /\ Fso(a) = 16 + 10 * Len(a.entries)
  BY LeafPage, FsoIs
<1>2. /\ b.leaf = TRUE /\ b.entries \in Seq(Entry) /\ Len(b.entries) \in Nat /\ Kids(b) = {}
      /\ b.next \in Nat /\ Used(b) = 10 * Len(b.entries)
  BY LeafPage, FsoIs
<1>3. mergedNode(a, x, b) = m
  BY <1>1 DEF mergedNode
<1>4. es \in Seq(Entry) /\ Len(es) = Len(a.entries) + Len(b.entries)
  BY <1>1, <1>2, ConcatIs
<1>10. Len(es) \in Nat /\ 16 + 10 * Len(es) = 16 + 10 * Len(a.entries) + 10 * Len(b.entries) + 0
  <2>1. \A x1, x2 \in Nat : x1 + x2 \in Nat /\ 16 + 10 * (x1 + x2) = 16 + 10 * x1 + 10 * x2 + 0
    OBVIOUS
  <2> HIDE DEF es
  <2> QED BY <1>1, <1>2, <1>4, <2>1
<1> HIDE DEF es
<1>5. m.leaf = TRUE /\ m.entries = es /\ m.next = b.next /\ Kids(m) = {}
  BY DEF Leaf, Kids
<1>6. Fso(m) = 16 + 10 * Len(es)
  <2>1. Bytes(KeysOf(es), RID_SIZE) = Len(es) * (4 + RID_SIZE)
    <3>1. KeysOf(es) \in Seq(Keys) /\ Len(KeysOf(es)) = Len(es) /\ RID_SIZE \in Nat
      BY <1>4, KeysOfIs DEF RID_SIZE
    <3> QED BY <3>1, BytesAre
  <2>2. Len(es) \in Nat
    BY <1>10
  <2> HIDE DEF m
  <2> QED BY <1>5, <2>1, <2>2 DEF Fso, Used, RID_SIZE, METADATA_SIZE
<1>7. ASSUME Fso(m) <= PAGE_SIZE PROVE LeafFits(m) /\ m \in Node
  <2>1. 10 * Len(es) <= Room
    <3>1. Len(es) \in Nat /\ Room = PAGE_SIZE - 16 /\ PAGE_SIZE \in Nat
      BY <1>10, SizesAre
    <3> HIDE DEF m
    <3> QED BY <1>6, <1>7, <3>1
  <2> QED BY <1>2, <1>4, <2>1, LeafIs
<1>8. Fso(m) = Fso(a) + Used(b) + 0
  <2> HIDE DEF m
  <2> QED BY <1>1, <1>2, <1>6, <1>10
<1> HIDE DEF m
<1>9. Merged(m, a, b, 0)
  BY <1>1, <1>2, <1>5, <1>7, <1>8 DEF Merged
<1> QED BY <1>3, <1>9

\* The page two internal pages and the separator are merged into.
LEMMA InternalsMerged ==
  ASSUME NumericKeys, NEW a, InternalFits(a), NEW b, InternalFits(b),
         Kids(a) \cap Kids(b) = {}, NEW x \in Keys
  PROVE  Merged(mergedNode(a, x, b), a, b, 4)
<1> DEFINE ak   == Append(a.keys, x)
           keys == ak \o b.keys
           ptrs == a.ptrs \o b.ptrs
           m    == Internal(keys, ptrs)
<1>1. /\ a.leaf = FALSE /\ a.keys \in Seq(Keys) /\ Len(a.keys) \in Nat /\ a.ptrs \in Seq(Nat)
      /\ Len(a.ptrs) = Len(a.keys) + 1 /\ Distinct(a.ptrs) /\ Kids(a) = InSeq(a.ptrs)
      /\ Fso(a) = 20 + 8 * Len(a.keys)
  BY InternalPage, FsoIs
<1>2. /\ b.keys \in Seq(Keys) /\ Len(b.keys) \in Nat /\ b.ptrs \in Seq(Nat)
      /\ Len(b.ptrs) = Len(b.keys) + 1 /\ Distinct(b.ptrs) /\ Kids(b) = InSeq(b.ptrs)
      /\ Used(b) = 4 + 8 * Len(b.keys)
  BY InternalPage, FsoIs
<1>3. mergedNode(a, x, b) = m
  BY <1>1 DEF mergedNode
<1>4. ak \in Seq(Keys) /\ Len(ak) = Len(a.keys) + 1
  BY <1>1
<1> HIDE DEF ak
<1>5. keys \in Seq(Keys) /\ Len(keys) = Len(a.keys) + 1 + Len(b.keys)
  <2>1. keys \in Seq(Keys) /\ Len(keys) = Len(ak) + Len(b.keys)
    BY <1>2, <1>4, ConcatIs, ZenonT(60)
  <2> HIDE DEF keys
  <2> QED BY <1>4, <2>1
<1>13. /\ Len(keys) \in Nat /\ Len(keys) > 0
       /\ 20 + 8 * Len(keys) = 20 + 8 * Len(a.keys) + (4 + 8 * Len(b.keys)) + 4
  <2>1. \A x1, x2 \in Nat : /\ x1 + 1 + x2 \in Nat /\ x1 + 1 + x2 > 0
                            /\ 20 + 8 * (x1 + 1 + x2) = 20 + 8 * x1 + (4 + 8 * x2) + 4
    OBVIOUS
  <2> HIDE DEF keys
  <2> QED BY <1>1, <1>2, <1>5, <2>1
<1>6. ptrs \in Seq(Nat) /\ Len(ptrs) = Len(a.ptrs) + Len(b.ptrs)
  <2> DEFINE ap == a.ptrs
             bp == b.ptrs
  <2>1. ap \in Seq(Nat) /\ bp \in Seq(Nat)
    BY <1>1, <1>2
  <2> HIDE DEF ap, bp
  <2>2. ap \o bp \in Seq(Nat) /\ Len(ap \o bp) = Len(ap) + Len(bp)
    BY <2>1, ConcatIs
  <2> QED BY <2>2 DEF ap, bp
<1>7. InSeq(ptrs) = Kids(a) \cup Kids(b) /\ Distinct(ptrs)
  <2> DEFINE ap == a.ptrs
             bp == b.ptrs
  <2>1. /\ ap \in Seq(Nat) /\ bp \in Seq(Nat) /\ Distinct(ap) /\ Distinct(bp)
        /\ InSeq(ap) \cap InSeq(bp) = {}
    BY <1>1, <1>2
  <2> HIDE DEF ap, bp
  <2>2. InSeq(ap \o bp) = InSeq(ap) \cup InSeq(bp) /\ Distinct(ap \o bp)
    BY <2>1, JoinedIs
  <2> QED BY <1>1, <1>2, <2>2 DEF ap, bp
<1>14. ptrs[1] = a.ptrs[1]
  <2> DEFINE ap == a.ptrs
             bp == b.ptrs
  <2>1. ap \in Seq(Nat) /\ bp \in Seq(Nat) /\ Len(ap) > 0
    BY <1>1, <1>2
  <2> HIDE DEF ap, bp
  <2>2. (ap \o bp)[1] = ap[1]
    BY <2>1, HeadJoined
  <2> QED BY <2>2 DEF ap, bp
<1> HIDE DEF keys, ptrs
<1>8. m.leaf = FALSE /\ m.keys = keys /\ m.ptrs = ptrs /\ Kids(m) = InSeq(ptrs)
  BY DEF Internal, Kids
<1>9. Fso(m) = 20 + 8 * Len(keys)
  <2>1. Bytes(keys, PTR_SIZE) = Len(keys) * (4 + PTR_SIZE)
    <3>1. PTR_SIZE \in Nat
      BY DEF PTR_SIZE
    <3> QED BY <1>5, <3>1, BytesAre
  <2>2. Len(keys) \in Nat
    BY <1>13
  <2> HIDE DEF m
  <2> QED BY <1>8, <2>1, <2>2 DEF Fso, Used, PTR_SIZE, METADATA_SIZE
<1>10. ASSUME Fso(m) <= PAGE_SIZE PROVE InternalFits(m) /\ m \in Node /\ Len(m.keys) > 0
  <2>1. 4 + 8 * Len(keys) <= Room
    <3>1. Len(keys) \in Nat /\ Room = PAGE_SIZE - 16 /\ PAGE_SIZE \in Nat
      BY <1>13, SizesAre
    <3> HIDE DEF m
    <3> QED BY <1>9, <1>10, <3>1
  <2>2. Len(ptrs) = Len(keys) + 1 /\ Len(keys) > 0
    <3>1. \A x1, x2 \in Nat : (x1 + 1) + (x2 + 1) = (x1 + 1 + x2) + 1
      OBVIOUS
    <3> QED BY <1>1, <1>2, <1>5, <1>6, <1>13, <3>1
  <2>3. InternalFits(m) /\ m \in Node
    BY <1>5, <1>6, <1>7, <2>1, <2>2, InternalIs
  <2> QED BY <1>8, <2>2, <2>3
<1>11. Fso(m) = Fso(a) + Used(b) + 4
  <2> HIDE DEF m
  <2> QED BY <1>1, <1>2, <1>9, <1>13
<1>15. m.ptrs[1] = a.ptrs[1]
  BY <1>8, <1>14
<1> HIDE DEF m
<1>12. Merged(m, a, b, 4)
  BY <1>1, <1>7, <1>8, <1>10, <1>11, <1>15 DEF Merged
<1> QED BY <1>3, <1>12

\* The parent without a separator and the pointer behind it.
LEMMA PointerDropped ==
  ASSUME NEW n, InternalFits(n), NEW at \in 1..Len(n.keys)
  PROVE  LET m == Internal(RemoveAt(n.keys, at), RemoveAt(n.ptrs, at + 1))
         IN  /\ InternalFits(m) /\ m \in Node /\ Kids(m) = Kids(n) \ {n.ptrs[at + 1]}
             /\ m.ptrs[1] = n.ptrs[1]
<1> DEFINE keys == RemoveAt(n.keys, at)
           old  == n.ptrs
           ptrs == RemoveAt(old, at + 1)
           m    == Internal(keys, ptrs)
<1>1. /\ n.keys \in Seq(Keys) /\ Len(n.keys) \in Nat
      /\ old \in Seq(Nat) /\ Len(old) = Len(n.keys) + 1 /\ Distinct(old)
      /\ 4 + 8 * Len(n.keys) <= Room /\ Kids(n) = InSeq(old)
  BY InternalPage
<1> HIDE DEF old
<1>2. at + 1 \in 1..Len(old)
  BY <1>1
<1>3. keys \in Seq(Keys) /\ Len(keys) = Len(n.keys) - 1
  BY <1>1, RemoveAtIs
<1>4. ptrs \in Seq(Nat) /\ Len(ptrs) = Len(old) - 1
  BY <1>1, <1>2, RemoveAtIs
<1>5. InSeq(ptrs) = InSeq(old) \ {old[at + 1]} /\ Distinct(ptrs)
  BY <1>1, <1>2, RemovedIs
<1>9. ptrs[1] = old[1]
  BY <1>1, <1>2, HeadRemoved
<1> HIDE DEF keys, ptrs
<1>6. Len(ptrs) = Len(keys) + 1 /\ 4 + 8 * Len(keys) <= Room
  <2>1. Room \in Int
    BY BTreeAssumption DEF Room, METADATA_SIZE
  <2> QED BY <1>1, <1>3, <1>4, <2>1
<1>7. InternalFits(m) /\ m \in Node /\ Kids(m) = InSeq(ptrs) /\ m.ptrs = ptrs
  BY <1>3, <1>4, <1>5, <1>6, InternalIs
<1> HIDE DEF m
<1>8. /\ InternalFits(m) /\ m \in Node /\ Kids(m) = Kids(n) \ {old[at + 1]}
      /\ m.ptrs[1] = old[1]
  BY <1>1, <1>5, <1>7, <1>9
<1> QED BY <1>8 DEF m, keys, ptrs, old

\* The page n stands for the pages l and r, with the first child of l.
StandsFor(n, ns, lev, l, r) ==
  /\ GoodPage(n, lev[l], lev) /\ n \in Node /\ Kids(n) = Kids(ns[l]) \cup Kids(ns[r])
  /\ n.leaf \/ Len(n.keys) > 0
  /\ n.leaf = ns[l].leaf /\ (~n.leaf => n.ptrs[1] = ns[l].ptrs[1])

\* The page n fits at the level of l, like the pages l and r it is made of.
LEMMA MergedGood ==
  ASSUME NEW ns, NEW lev, Leveled(ns, lev), NEW l \in 1..Len(ns), NEW r \in 1..Len(ns),
         lev[l] = lev[r], NEW n, NEW extra, Merged(n, ns[l], ns[r], extra), Fso(n) <= PAGE_SIZE
  PROVE  StandsFor(n, ns, lev, l, r)
<1>1. /\ n \in Node /\ n.leaf = ns[l].leaf /\ Kids(n) = Kids(ns[l]) \cup Kids(ns[r])
      /\ IF n.leaf THEN LeafFits(n) /\ n.next = ns[r].next
         ELSE InternalFits(n) /\ Len(n.keys) > 0 /\ n.ptrs[1] = ns[l].ptrs[1]
  BY DEF Merged
<1>2. DOMAIN lev = 1..Len(ns) /\ lev[l] \in Nat /\ ns[l].leaf \in BOOLEAN
  BY PageIs
<1>3. CASE lev[l] = 0
  <2>1. n.leaf
    BY <1>1, <1>3, PageIs
  <2>2. ns[r].next = 0 \/ (ns[r].next \in DOMAIN lev /\ lev[ns[r].next] = 0)
    <3>1. lev[r] = 0
      BY <1>3
    <3>2. ns[r].next \in 0..Len(ns) /\ (ns[r].next # 0 => lev[ns[r].next] = 0)
      BY <3>1, LeafPageIs, Zenon
    <3>3. Len(ns) \in Nat
      BY PageIs
    <3> QED BY <1>2, <3>2, <3>3
  <2> QED BY <1>1, <1>3, <2>1, <2>2 DEF GoodPage, StandsFor
<1>4. CASE lev[l] # 0
  <2>1. ~n.leaf
    BY <1>1, <1>4, PageIs
  <2>2. \A q \in Kids(ns[l]) : q \in 1..Len(ns) /\ lev[q] = lev[l] - 1
    BY PageIs
  <2>3. \A q \in Kids(ns[r]) : q \in 1..Len(ns) /\ lev[q] = lev[r] - 1
    BY PageIs
  <2>4. InternalFits(n) /\ Len(n.keys) > 0
    BY <1>1, <2>1
  <2>5. Kids(n) = InSeq(n.ptrs)
    BY <2>4, InternalPage
  <2>6. lev[l] > 0
    BY <1>2, <1>4
  <2>7. GoodPage(n, lev[l], lev)
    BY <1>1, <1>2, <2>2, <2>3, <2>4, <2>5, <2>6 DEF GoodPage
  <2> QED BY <1>1, <2>1, <2>4, <2>7 DEF StandsFor
<1> QED BY <1>3, <1>4

\* The page n is the internal page m without its child r, which is not the first.
Without(n, m, r) ==
  InternalFits(n) /\ n \in Node /\ Kids(n) = Kids(m) \ {r} /\ n.ptrs[1] = m.ptrs[1]

\* What a merge that fits makes of three pages.
LEMMA MergeFits ==
  ASSUME NumericKeys, NEW t, NEW lev, NEW M, NEW root, NEW p, NEW j,
         Underflowed(t, lev, M, root, p, j),
         NEW c, NEW s, Siblings(t, lev, M, p, j, c, s),
         NEW l, NEW r, {l, r} = {c, s}, l # r,
         NEW m, NEW extra, Merged(m, t.nodes[l], t.nodes[r], extra), Fso(m) <= PAGE_SIZE,
         NEW n, Without(n, t.nodes[p], r)
  PROVE  Repaired(t, lev, M, root, p, [t EXCEPT !.nodes = [@ EXCEPT ![l] = m, ![p] = n]])
<1> DEFINE ns  == t.nodes
           new == [ns EXCEPT ![l] = m, ![p] = n]
           u   == [t EXCEPT !.nodes = new]
<1>1. /\ ns \in Seq(Node) /\ Len(ns) \in Nat /\ M \subseteq 1..Len(ns) /\ p \in 1..Len(ns)
      /\ c \in M /\ s \in M /\ c # s /\ c # p /\ s # p /\ p \in M
      /\ lev[c] = lev[p] - 1 /\ lev[s] = lev[p] - 1 /\ lev[p] \in Nat /\ lev[p] > 0
      /\ c \in Kids(ns[p]) /\ s \in Kids(ns[p]) /\ DOMAIN ns = 1..Len(ns)
  BY DEF Siblings
<1>2. /\ t \in View /\ Leveled(ns, lev) /\ Tree(ns, M, {root}) /\ Keyed(ns, M \ {c})
  BY DEF Underflowed, Siblings
<1>3. /\ Merged(m, ns[l], ns[r], extra) /\ Kids(n) = Kids(ns[p]) \ {r}
      /\ n.ptrs[1] = ns[p].ptrs[1] /\ InternalFits(n) /\ n \in Node
  BY DEF Without
<1> HIDE DEF ns
<1>4. /\ l \in M /\ r \in M /\ l # p /\ r # p /\ lev[l] = lev[p] - 1 /\ lev[r] = lev[p] - 1
      /\ r \in Kids(ns[p]) /\ l \in 1..Len(ns) /\ r \in 1..Len(ns)
      /\ c \in {l, r}
  <2>1. (l = c /\ r = s) \/ (l = s /\ r = c)
    OBVIOUS
  <2> QED BY <1>1, <2>1
<1>5. /\ GoodPage(m, lev[l], lev) /\ m \in Node /\ Kids(m) = Kids(ns[l]) \cup Kids(ns[r])
      /\ m.leaf \/ Len(m.keys) > 0
      /\ m.leaf = ns[l].leaf /\ (~m.leaf => m.ptrs[1] = ns[l].ptrs[1])
  <2>1. lev[l] = lev[r]
    BY <1>4
  <2>2. StandsFor(m, ns, lev, l, r)
    BY <1>2, <1>3, <1>4, <2>1, MergedGood
  <2> QED BY <2>2 DEF StandsFor
<1>6. GoodPage(n, lev[p], lev)
  <2>1. \A q \in Kids(ns[p]) : q \in 1..Len(ns) /\ lev[q] = lev[p] - 1
    BY <1>1, <1>2, PageIs
  <2>2. Kids(n) = InSeq(n.ptrs)
    BY <1>3, InternalPage
  <2>3. DOMAIN lev = 1..Len(ns)
    BY <1>1, <1>2, PageIs
  <2> QED BY <1>1, <1>3, <2>1, <2>2, <2>3 DEF GoodPage
<1>7. /\ new[l] = m /\ new[p] = n /\ IsPages(new, Len(ns))
      /\ \A x \in 1..Len(ns) : x # l /\ x # p => new[x] = ns[x]
  BY <1>1, <1>4 DEF IsPages
<1> HIDE DEF new
<1>8. Leveled(new, lev) /\ Len(new) = Len(ns) /\ new \in Seq(Node)
  <2>1. \A x \in 1..Len(ns) :
           new[x] = ns[x] \/ (new[x] \in Node /\ GoodPage(new[x], lev[x], lev))
    BY <1>3, <1>5, <1>6, <1>7
  <2> QED BY <1>2, <1>7, <2>1, Repaginated
<1>9. u \in View /\ u.nodes = new /\ u.root = t.root /\ u.count = t.count
  BY <1>2, <1>8, Repaged
<1> HIDE DEF u
<1>10. \A q \in 1..Len(ns) : lev[q] > lev[p] => new[q] = ns[q]
  BY <1>1, <1>4, <1>7
<1>11. Tree(new, M \ {r}, {root})
  <2>1. \A q \in M \ {l, r, p} : new[q] = ns[q]
    BY <1>1, <1>7
  <2>2. Kids(new[l]) = Kids(ns[l]) \cup Kids(ns[r]) /\ Kids(new[p]) = Kids(ns[p]) \ {r}
    BY <1>3, <1>5, <1>7
  <2> QED BY <1>1, <1>2, <1>4, <1>8, <2>1, <2>2, TreeMerged
<1>12. Keyed(new, (M \ {r}) \ {p})
  <2> SUFFICES ASSUME NEW q \in (M \ {r}) \ {p} PROVE new[q].leaf \/ Len(new[q].keys) > 0
    BY DEF Keyed
  <2>1. CASE q = l
    BY <1>5, <1>7, <2>1
  <2>2. CASE q # l
    <3>1. new[q] = ns[q] /\ q \in M \ {c}
      BY <1>1, <1>4, <1>7, <2>2
    <3> QED BY <1>2, <3>1 DEF Keyed
  <2> QED BY <2>1, <2>2
<1>13. \A q \in M : lev[q] >= lev[p] => q \in M \ {r}
  BY <1>1, <1>4
<1>14. \E N : /\ Tree(u.nodes, N, {root}) /\ Keyed(u.nodes, N \ {p})
              /\ \A q \in M : lev[q] >= lev[p] => q \in N
  BY <1>9, <1>11, <1>12, <1>13
<1>16. StillFirst(ns, new, root)
  <2>1. n.leaf = FALSE /\ ns[p].leaf = FALSE
    BY <1>1, <1>2, <1>3, PageIs, InternalPage
  <2>2. HeadsBut(ns, new, 0)
    BY <1>3, <1>5, <1>7, <2>1 DEF HeadsBut
  <2>3. 0 \notin 1..Len(ns) /\ Len(ns) <= Len(new)
    BY <1>1, <1>8
  <2> QED BY <1>2, <1>8, <2>2, <2>3, HeadsKept
<1>15. Repaired(t, lev, M, root, p, u)
  BY <1>8, <1>9, <1>10, <1>14, <1>16 DEF Repaired, ns
<1> QED BY <1>15 DEF u, new, ns

\* merge repairs the tree, or leaves it as it is because the child still has keys.
LEMMA MergeRepairs ==
  ASSUME NumericKeys, NEW t, NEW lev, NEW M, NEW root, NEW p, NEW j,
         Underflowed(t, lev, M, root, p, j), NEW c, NEW s, Siblings(t, lev, M, p, j, c, s),
         Used(t.nodes[s]) <= MIN_DATA_BYTES
  PROVE  Repaired(t, lev, M, root, p, merge(t, p, j))
<1> DEFINE ns == t.nodes
           at == Between(j)
           l  == ns[p].ptrs[at]
           r  == ns[p].ptrs[at + 1]
           x  == ns[p].keys[at]
           m  == mergedNode(ns[l], x, ns[r])
           n  == Internal(RemoveAt(ns[p].keys, at), RemoveAt(ns[p].ptrs, at + 1))
           extra == IF lev[c] = 0 THEN 0 ELSE 4
<1>1. /\ ns \in Seq(Node) /\ Len(ns) \in Nat /\ M \subseteq 1..Len(ns) /\ p \in 1..Len(ns)
      /\ InternalFits(ns[p]) /\ at \in 1..Len(ns[p].keys)
      /\ c \in M /\ s \in M /\ c # s /\ c # p /\ s # p /\ p \in M
      /\ lev[c] = lev[p] - 1 /\ lev[s] = lev[p] - 1 /\ lev[p] \in Nat /\ lev[p] > 0
      /\ {l, r} = {c, s} /\ l # r
  <2>1. /\ c = ns[p].ptrs[j] /\ s = ns[p].ptrs[Sibling(j)] /\ c # s
        /\ IF j > 1 THEN at = Sibling(j) /\ at + 1 = j ELSE at = j /\ at + 1 = Sibling(j)
    BY DEF Siblings
  <2>2. {l, r} = {c, s} /\ l # r
    <3> HIDE DEF ns, at
    <3> QED BY <2>1
  <2> QED BY <2>2 DEF Siblings
<1>2. /\ t \in View /\ Leveled(ns, lev) /\ Tree(ns, M, {root}) /\ Keyed(ns, M \ {c})
  BY DEF Underflowed, Siblings
<1>3. merge(t, p, j) = IF Fso(m) > PAGE_SIZE THEN t
                       ELSE [t EXCEPT !.nodes = [@ EXCEPT ![l] = m, ![p] = n]]
  BY DEF merge, Between
<1>4. InternalFits(n) /\ n \in Node /\ Kids(n) = Kids(ns[p]) \ {r} /\ n.ptrs[1] = ns[p].ptrs[1]
  <2> DEFINE pg == ns[p]
  <2>1. InternalFits(pg) /\ at \in 1..Len(pg.keys)
    BY <1>1
  <2> HIDE DEF pg, at
  <2>2. LET w == Internal(RemoveAt(pg.keys, at), RemoveAt(pg.ptrs, at + 1))
        IN  /\ InternalFits(w) /\ w \in Node /\ Kids(w) = Kids(pg) \ {pg.ptrs[at + 1]}
            /\ w.ptrs[1] = pg.ptrs[1]
    BY <2>1, PointerDropped
  <2> QED BY <2>2 DEF pg
<1>5. x \in Keys
  <2>1. ns[p].keys \in Seq(Keys)
    BY <1>1, InternalPage
  <2> QED BY <1>1, <2>1
<1>6. Used(ns[s]) <= MIN_DATA_BYTES
  OBVIOUS
<1> HIDE DEF ns, n, x, at, l, r
<1>7. /\ l \in 1..Len(ns) /\ r \in 1..Len(ns) /\ lev[l] = lev[c] /\ lev[r] = lev[c]
      /\ c \in 1..Len(ns) /\ s \in 1..Len(ns)
      /\ l \in M /\ r \in M
  <2>1. (l = c /\ r = s) \/ (l = s /\ r = c)
    BY <1>1
  <2> QED BY <1>1, <2>1
<1>8. Merged(m, ns[l], ns[r], extra)
  <2>1. CASE lev[c] = 0
    <3>1. \A y \in 1..Len(ns) : lev[y] = 0 => LeafFits(ns[y])
      BY <1>2, LeafPageIs, Zenon
    <3>2. LeafFits(ns[l]) /\ LeafFits(ns[r])
      BY <1>7, <2>1, <3>1
    <3>3. Merged(m, ns[l], ns[r], 0)
      BY <3>2, LeavesMerged
    <3> QED BY <2>1, <3>3
  <2>2. CASE lev[c] # 0
    <3>1. \A y \in 1..Len(ns) : lev[y] # 0 => InternalFits(ns[y])
      BY <1>2, InternalPageIs, Zenon
    <3>2. InternalFits(ns[l]) /\ InternalFits(ns[r])
      BY <1>7, <2>2, <3>1
    <3>3. Kids(ns[l]) \cap Kids(ns[r]) = {}
      BY <1>1, <1>2, <1>7 DEF Tree
    <3>4. Merged(m, ns[l], ns[r], 4)
      BY <1>5, <3>2, <3>3, InternalsMerged
    <3> QED BY <2>2, <3>4
  <2> QED BY <2>1, <2>2
<1> HIDE DEF m, extra
<1>10. \A y \in 1..Len(ns) :
          /\ Used(ns[y]) \in Nat /\ Fso(ns[y]) = 16 + Used(ns[y])
          /\ lev[y] # 0 => Used(ns[y]) = 4 + 8 * Len(ns[y].keys) /\ Len(ns[y].keys) \in Nat
  <2> SUFFICES ASSUME NEW y \in 1..Len(ns)
               PROVE  /\ Used(ns[y]) \in Nat /\ Fso(ns[y]) = 16 + Used(ns[y])
                      /\ lev[y] # 0 => /\ Used(ns[y]) = 4 + 8 * Len(ns[y].keys)
                                       /\ Len(ns[y].keys) \in Nat
    OBVIOUS
  <2>1. CASE lev[y] = 0
    <3>1. LeafFits(ns[y])
      BY <1>2, <2>1, LeafPageIs, Zenon
    <3>2. Len(ns[y].entries) \in Nat
      BY <3>1, LeafPage
    <3>3. Fso(ns[y]) = 16 + 10 * Len(ns[y].entries) /\ Used(ns[y]) = 10 * Len(ns[y].entries)
      BY <3>1, FsoIs
    <3> QED BY <2>1, <3>2, <3>3
  <2>2. CASE lev[y] # 0
    <3>1. InternalFits(ns[y])
      BY <1>2, <2>2, InternalPageIs, Zenon
    <3>2. Len(ns[y].keys) \in Nat
      BY <3>1, InternalPage
    <3>3. Fso(ns[y]) = 20 + 8 * Len(ns[y].keys) /\ Used(ns[y]) = 4 + 8 * Len(ns[y].keys)
      BY <3>1, FsoIs
    <3> QED BY <3>2, <3>3
  <2> QED BY <2>1, <2>2
<1>11. /\ Fso(m) = 16 + Used(ns[c]) + Used(ns[s]) + extra /\ Fso(m) \in Nat
       /\ extra = (IF lev[c] = 0 THEN 0 ELSE 4)
  <2>1. Fso(m) = Fso(ns[l]) + Used(ns[r]) + extra
    BY <1>8 DEF Merged
  <2>2. extra = (IF lev[c] = 0 THEN 0 ELSE 4) /\ extra \in Nat
    BY DEF extra
  <2>3. (l = c /\ r = s) \/ (l = s /\ r = c)
    BY <1>1
  <2>4. Fso(ns[l]) = 16 + Used(ns[l]) /\ Used(ns[l]) \in Nat /\ Used(ns[r]) \in Nat
    BY <1>7, <1>10
  <2>5. Fso(m) = 16 + Used(ns[l]) + Used(ns[r]) + extra /\ Fso(m) \in Nat
    BY <2>1, <2>2, <2>4
  <2>6. Used(ns[l]) + Used(ns[r]) = Used(ns[c]) + Used(ns[s])
    BY <2>3, <2>4
  <2>7. \A v, w, y, z, e \in Nat : v + w = y + z => 16 + v + w + e = 16 + y + z + e
    OBVIOUS
  <2>8. Used(ns[c]) \in Nat /\ Used(ns[s]) \in Nat
    BY <1>7, <1>10
  <2>9. 16 + Used(ns[l]) + Used(ns[r]) + extra = 16 + Used(ns[c]) + Used(ns[s]) + extra
    BY <2>2, <2>4, <2>6, <2>7, <2>8
  <2> QED BY <2>2, <2>5, <2>9
<1>12. PAGE_SIZE \in Nat /\ PAGE_SIZE >= MIN_DATA_BYTES + 24 /\ MIN_DATA_BYTES \in Nat
  BY SizesAre
<1>9. CASE Fso(m) <= PAGE_SIZE
  <2>1. Repaired(t, lev, M, root, p, [t EXCEPT !.nodes = [@ EXCEPT ![l] = m, ![p] = n]])
    <3>1. Merged(m, t.nodes[l], t.nodes[r], extra) /\ Without(n, t.nodes[p], r)
      BY <1>4, <1>8 DEF ns, Without
    <3> QED BY <1>1, <1>9, <3>1, MergeFits
  <2>2. ~(Fso(m) > PAGE_SIZE)
    BY <1>9, <1>11, <1>12
  <2> QED BY <1>3, <2>1, <2>2
<1>13. CASE Fso(m) > PAGE_SIZE
  <2>1. merge(t, p, j) = t
    BY <1>3, <1>13
  <2>2. ns[c].leaf \/ Len(ns[c].keys) > 0
    <3>1. CASE lev[c] = 0
      BY <1>2, <1>7, <3>1, PageIs
    <3>2. CASE lev[c] # 0
      <4>1. /\ Used(ns[c]) = 4 + 8 * Len(ns[c].keys) /\ Len(ns[c].keys) \in Nat
            /\ Used(ns[s]) \in Nat
        BY <1>7, <1>10, <3>2
      <4>2. 16 + Used(ns[c]) + Used(ns[s]) + 4 > PAGE_SIZE
        BY <1>11, <1>13, <3>2
      <4> QED BY <1>6, <1>12, <4>1, <4>2
    <3> QED BY <3>1, <3>2
  <2>3. Keyed(ns, M \ {p})
    BY <1>2, <2>2 DEF Keyed
  <2>4. t.nodes = ns
    BY DEF ns
  <2>5. Repaired(t, lev, M, root, p, t)
    BY <1>2, <2>3, <2>4 DEF Repaired, StillFirst
  <2> QED BY <2>1, <2>5
<1>14. Fso(m) <= PAGE_SIZE \/ Fso(m) > PAGE_SIZE
  BY <1>11, <1>12
<1> QED BY <1>9, <1>13, <1>14

\* The ways to repair an underflow.
RepairWays(t, lev, p, j, c, s, u) ==
  \/ Used(t.nodes[s]) <= MIN_DATA_BYTES /\ u = merge(t, p, j)
  \/ Used(t.nodes[s]) > MIN_DATA_BYTES /\ lev[c] = 0 /\ u = redistributeLeaves(t, p, j)
  \/ Used(t.nodes[s]) > MIN_DATA_BYTES /\ lev[c] # 0 /\ u = redistributeInternals(t, p, j)

LEMMA RepairChoice ==
  ASSUME NumericKeys, NEW t, NEW lev, NEW M, NEW root, NEW p, NEW j,
         Underflowed(t, lev, M, root, p, j)
  PROVE  \E c, s : /\ Siblings(t, lev, M, p, j, c, s)
                   /\ RepairWays(t, lev, p, j, c, s, redistributeOrMergeEntries(t, p, j))
<1> DEFINE ns == t.nodes
           c  == ns[p].ptrs[j]
           s  == ns[p].ptrs[Sibling(j)]
<1>1. Siblings(t, lev, M, p, j, c, s)
  BY SiblingsAre
<1>2. redistributeOrMergeEntries(t, p, j) =
        IF Used(ns[s]) <= MIN_DATA_BYTES THEN merge(t, p, j)
        ELSE IF ns[c].leaf THEN redistributeLeaves(t, p, j)
             ELSE redistributeInternals(t, p, j)
  BY DEF redistributeOrMergeEntries
<1> HIDE DEF c, s
<1>3. c \in 1..Len(ns) /\ s \in 1..Len(ns) /\ Leveled(ns, lev)
  BY <1>1 DEF Siblings, Underflowed
<1>4. ns[c].leaf <=> lev[c] = 0
  BY <1>3, PageIs
<1>7. RepairWays(t, lev, p, j, c, s, redistributeOrMergeEntries(t, p, j))
  <2>5. CASE Used(ns[s]) <= MIN_DATA_BYTES
    BY <1>2, <2>5 DEF RepairWays
  <2>6. CASE ~(Used(ns[s]) <= MIN_DATA_BYTES)
    <3>1. Used(ns[s]) > MIN_DATA_BYTES
      <4>1. Used(ns[s]) \in Nat
        <5> HIDE DEF ns
        <5>1. CASE lev[s] = 0
          <6>1. LeafFits(ns[s])
            BY <1>3, <5>1, LeafPageIs, Zenon
          <6> QED BY <6>1, LeafPage, FsoIs
        <5>2. CASE lev[s] # 0
          <6>1. InternalFits(ns[s])
            BY <1>3, <5>2, InternalPageIs, Zenon
          <6> QED BY <6>1, InternalPage, FsoIs
        <5> QED BY <5>1, <5>2
      <4> QED BY <2>6, <4>1, SizesAre
    <3>2. CASE lev[c] = 0
      BY <1>2, <1>4, <2>6, <3>1, <3>2 DEF RepairWays
    <3>3. CASE lev[c] # 0
      BY <1>2, <1>4, <2>6, <3>1, <3>3 DEF RepairWays
    <3> QED BY <3>2, <3>3
  <2> QED BY <2>5, <2>6
<1> QED BY <1>1, <1>7

\* An underflow is repaired.
LEMMA RepairIs ==
  ASSUME NumericKeys, NEW t, NEW lev, NEW M, NEW root, NEW p, NEW j,
         Underflowed(t, lev, M, root, p, j)
  PROVE  Repaired(t, lev, M, root, p, redistributeOrMergeEntries(t, p, j))
<1> DEFINE u == redistributeOrMergeEntries(t, p, j)
<1>1. PICK c, s : Siblings(t, lev, M, p, j, c, s) /\ RepairWays(t, lev, p, j, c, s, u)
  BY RepairChoice
<1>2. ASSUME Used(t.nodes[s]) <= MIN_DATA_BYTES
      PROVE  Repaired(t, lev, M, root, p, merge(t, p, j))
  BY <1>1, <1>2, MergeRepairs
<1>3. ASSUME Used(t.nodes[s]) > MIN_DATA_BYTES, lev[c] = 0
      PROVE  Repaired(t, lev, M, root, p, redistributeLeaves(t, p, j))
  BY <1>1, <1>3, LeavesRedistributed
<1>4. ASSUME Used(t.nodes[s]) > MIN_DATA_BYTES, lev[c] # 0
      PROVE  Repaired(t, lev, M, root, p, redistributeInternals(t, p, j))
  BY <1>1, <1>4, InternalsRedistributed
<1> HIDE DEF u
<1>5. Repaired(t, lev, M, root, p, u)
  BY <1>1, <1>2, <1>3, <1>4 DEF RepairWays
<1> QED BY <1>5 DEF u

\* The walk of deleteEntry along the chain.
Leaves(ns, lev) == {p \in 1..Len(ns) : lev[p] = 0}

IsFollowed(f, n, a, g) == f = [i \in 0..n |-> IF i = 0 THEN a ELSE g[f[i - 1]]]

\* A step iterated n times, from a start, stays in a set that grows with it.
LEMMA Followed ==
  \A n \in Nat : \A Good, a, g :
     a \in Good[0] /\ (\A k \in 1..n : \A x \in Good[k - 1] : g[x] \in Good[k]) =>
        (\E f : IsFollowed(f, n, a, g)) /\ \A f : IsFollowed(f, n, a, g) => f[n] \in Good[n]
<1> SUFFICES ASSUME NEW n \in Nat, NEW Good, NEW a, NEW g, a \in Good[0],
                    \A k \in 1..n : \A x \in Good[k - 1] : g[x] \in Good[k]
             PROVE  /\ \E f : IsFollowed(f, n, a, g)
                    /\ \A f : IsFollowed(f, n, a, g) => f[n] \in Good[n]
  OBVIOUS
<1> DEFINE H == [k \in 1..n |-> [d \in Good[k - 1] |-> g[d]]]
<1>1. /\ \A k \in 1..n : \A d \in Good[k - 1] : H[k][d] = g[d]
      /\ \A k \in 1..n : k - 1 \in 0..n /\ k \in 0..n /\ k # 0
      /\ 0 \in 0..n /\ n \in 0..n
      /\ \A k \in 0..n : k # 0 => k \in 1..n
  OBVIOUS
<1> HIDE DEF H
<1>2. StaysGood(n, a, H, Good)
  BY <1>1 DEF StaysGood
<1>3. \E f : IsFollowed(f, n, a, g)
  <2>1. PICK f : IsLadder(n, a, H, f) /\ \A k \in 0..n : f[k] \in Good[k]
    BY <1>2, Ladder
  <2>2. \A k \in 0..n : k # 0 => H[k][f[k - 1]] = g[f[k - 1]]
    BY <1>1, <2>1
  <2>3. f = [i \in 0..n |-> IF i = 0 THEN a ELSE g[f[i - 1]]]
    BY <2>1, <2>2 DEF IsLadder
  <2> QED BY <2>3 DEF IsFollowed
<1>4. ASSUME NEW f, IsFollowed(f, n, a, g) PROVE f[n] \in Good[n]
  <2>0. f = [i \in 0..n |-> IF i = 0 THEN a ELSE g[f[i - 1]]]
    BY <1>4 DEF IsFollowed
  <2>1. f[0] \in Good[0]
    BY <1>1, <2>0
  <2>2. ASSUME NEW k \in 1..n, f[k - 1] \in Good[k - 1] PROVE f[k] \in Good[k]
    <3>1. f[k] = g[f[k - 1]]
      BY <1>1, <2>0
    <3> QED BY <2>2, <3>1
  <2>3. \A k \in 0..n : f[k] \in Good[k]
    BY <2>1, <2>2, Climbing
  <2> QED BY <1>1, <2>3
<1> QED BY <1>3, <1>4

\* A step that stays in a set, iterated, stays in it.
LEMMA ChainWalked ==
  \A n \in Nat : \A S, a, g :
     a \in S /\ (\A x \in S : g[x] \in S) =>
        (\E f : IsFollowed(f, n, a, g)) /\ \A f : IsFollowed(f, n, a, g) => f[n] \in S
<1> SUFFICES ASSUME NEW n \in Nat, NEW S, NEW a, NEW g, a \in S, \A x \in S : g[x] \in S
             PROVE  (\E f : IsFollowed(f, n, a, g)) /\ \A f : IsFollowed(f, n, a, g) => f[n] \in S
  OBVIOUS
<1> DEFINE Good == [k \in 0..n |-> S]
<1>1. Good[0] = S /\ Good[n] = S /\ \A k \in 1..n : Good[k - 1] = S /\ Good[k] = S
  <2>1. \A k \in 0..n : Good[k] = S
    OBVIOUS
  <2>2. 0 \in 0..n /\ n \in 0..n /\ \A k \in 1..n : k - 1 \in 0..n /\ k \in 0..n
    OBVIOUS
  <2> HIDE DEF Good
  <2> QED BY <2>1, <2>2
<1> HIDE DEF Good
<1>2. a \in Good[0] /\ \A k \in 1..n : \A x \in Good[k - 1] : g[x] \in Good[k]
  BY <1>1
<1>3. (\E f : IsFollowed(f, n, a, g)) /\ \A f : IsFollowed(f, n, a, g) => f[n] \in Good[n]
  BY <1>2, Followed, Zenon
<1> QED BY <1>1, <1>3

\* What findLeafEntry finds is on one of the pages S, if the descent ends on one and the
\* chain leads from them to none but them.
LEMMA LeafOfIn ==
  ASSUME NEW t, NEW e, LeafOf(t, e) # 0, DOMAIN t.nodes = 1..Len(t.nodes), Len(t.nodes) \in Nat,
         NEW S, S \subseteq 1..Len(t.nodes), Last(Path(t, e.key, findInternalChildIdsLeft)) \in S,
         \A p \in S : t.nodes[p].next = 0 \/ t.nodes[p].next \in S
  PROVE  /\ t.root # 0 /\ LeafOf(t, e) \in S
         /\ \E x \in ToSet(t.nodes[LeafOf(t, e)].entries) : Matches(x, e)
<1> DEFINE ns == t.nodes
           Past(p) == ns[p].entries # << >> /\ ns[p].entries[1].key > e.key
           Has(p)  == \E x \in ToSet(ns[p].entries) : Matches(x, e)
           follow == [p \in DOMAIN ns |->
                        LET next == ns[p].next
                        IN  IF Has(p) \/ next = 0 \/ Past(next) THEN p ELSE next]
           a     == Last(Path(t, e.key, findInternalChildIdsLeft))
           Eq(f) == f = [i \in 0..Len(ns) |-> IF i = 0 THEN a ELSE follow[f[i - 1]]]
           leaf  == CHOOSE f : Eq(f)
           stop  == leaf[Len(ns)]
<1>1. LeafOf(t, e) = IF t.root # 0 /\ Has(stop) THEN stop ELSE 0
  BY DEF LeafOf
<1>2. t.root # 0 /\ Has(stop) /\ LeafOf(t, e) = stop
  BY <1>1
<1>6. \A p \in S : follow[p] \in S
  <2> SUFFICES ASSUME NEW p \in S PROVE follow[p] \in S
    OBVIOUS
  <2>1. p \in DOMAIN ns /\ (ns[p].next = 0 \/ ns[p].next \in S)
    OBVIOUS
  <2>2. follow[p] = IF Has(p) \/ ns[p].next = 0 \/ Past(ns[p].next) THEN p ELSE ns[p].next
    BY <2>1
  <2> HIDE DEF follow, Has, Past, ns
  <2> QED BY <2>1, <2>2
<1> DEFINE n == Len(ns)
           Qe(f) == IsFollowed(f, n, a, follow)
<1>7. (\E f : Qe(f)) /\ \A f : Qe(f) => f[n] \in S
  <2>1. n \in Nat /\ a \in S /\ \A x \in S : follow[x] \in S
    BY <1>6
  <2> HIDE DEF n, a, follow
  <2> QED BY <2>1, ChainWalked, Zenon
<1>8. Eq(leaf)
  <2>1. \A f : Qe(f) <=> Eq(f)
    BY DEF IsFollowed
  <2>2. \E f : Eq(f)
    <3> HIDE DEF Eq, Qe
    <3> QED BY <1>7, <2>1
  <2> HIDE DEF Eq
  <2> QED BY <2>2
<1>9. stop \in S
  <2>1. Qe(leaf)
    BY <1>8 DEF IsFollowed
  <2> HIDE DEF Qe, leaf
  <2> QED BY <1>7, <2>1
<1> HIDE DEF leaf, stop
<1> QED BY <1>2, <1>9

\* What findLeafEntry finds.
LEMMA LeafOfIs ==
  ASSUME NEW t, NEW lev, FileView(t, lev), NEW e, LeafOf(t, e) # 0
  PROVE  /\ t.root # 0 /\ LeafOf(t, e) \in 1..Len(t.nodes) /\ lev[LeafOf(t, e)] = 0
         /\ \E x \in ToSet(t.nodes[LeafOf(t, e)].entries) : Matches(x, e)
<1> DEFINE ns == t.nodes
           a  == Last(Path(t, e.key, findInternalChildIdsLeft))
<1>2. t.root # 0
  BY DEF LeafOf
<1>3. PICK L : GoodView(t, lev, L)
  BY <1>2 DEF FileView
<1>4. /\ Leveled(ns, lev) /\ t.root \in 1..Len(ns) /\ Len(ns) \in Nat /\ DOMAIN ns = 1..Len(ns)
      /\ lev[t.root] \in Nat
  <2>1. Leveled(ns, lev) /\ Tree(ns, L, {t.root})
    BY <1>3 DEF GoodView
  <2>2. t.root \in 1..Len(ns)
    BY <2>1 DEF Tree
  <2> HIDE DEF ns
  <2> QED BY <2>1, <2>2, PageIs
<1>5. a \in Leaves(ns, lev)
  <2> DEFINE path == Path(t, e.key, findInternalChildIdsLeft)
  <2>1. PICK pick : Walk(ns, lev, pick, t.root, path)
    BY <1>4, DescentLeft
  <2> HIDE DEF path, ns
  <2>2. Len(path) = lev[t.root] + 1
    BY <2>1 DEF Walk
  <2>3. lev[t.root] + 1 \in 1..lev[t.root] + 1 /\ lev[t.root] + 1 - (lev[t.root] + 1) = 0
    BY <1>4
  <2>4. path[lev[t.root] + 1] \in 1..Len(ns) /\ lev[path[lev[t.root] + 1]] = 0
    BY <2>1, <2>3 DEF Walk
  <2>5. Last(path) = path[lev[t.root] + 1]
    BY <2>2 DEF Last
  <2>6. Last(path) \in Leaves(ns, lev)
    BY <2>4, <2>5 DEF Leaves
  <2> QED BY <2>6 DEF path
<1>6. \A p \in Leaves(ns, lev) : ns[p].next = 0 \/ ns[p].next \in Leaves(ns, lev)
  <2> SUFFICES ASSUME NEW p \in Leaves(ns, lev)
               PROVE  ns[p].next = 0 \/ ns[p].next \in Leaves(ns, lev)
    OBVIOUS
  <2>1. p \in 1..Len(ns) /\ lev[p] = 0
    BY DEF Leaves
  <2> HIDE DEF ns
  <2>3. ns[p].next \in 0..Len(ns) /\ (ns[p].next # 0 => lev[ns[p].next] = 0)
    BY <1>4, <2>1, LeafPageIs, Zenon
  <2> QED BY <1>4, <2>3 DEF Leaves
<1>7. Leaves(ns, lev) \subseteq 1..Len(ns)
  BY DEF Leaves
<1>8. /\ LeafOf(t, e) \in Leaves(ns, lev)
      /\ \E x \in ToSet(t.nodes[LeafOf(t, e)].entries) : Matches(x, e)
  BY <1>4, <1>5, <1>6, <1>7, LeafOfIn
<1> QED BY <1>2, <1>8 DEF Leaves

\* An entry taken from a leaf.
LEMMA EntryCut ==
  ASSUME NEW t, NEW lev, NEW L, GoodView(t, lev, L), NEW q \in 1..Len(t.nodes), lev[q] = 0,
         NEW at \in 1..Len(t.nodes[q].entries)
  PROVE  LET u == [t EXCEPT !.nodes[q].entries = RemoveAt(@, at)]
         IN  /\ GoodView(u, lev, L) /\ u.root = t.root /\ Len(u.nodes) = Len(t.nodes)
             /\ \A x \in 1..Len(t.nodes) : x # q => u.nodes[x] = t.nodes[x]
             /\ StillFirst(t.nodes, u.nodes, t.root)
<1> DEFINE ns  == t.nodes
           es  == RemoveAt(ns[q].entries, at)
           n   == [ns[q] EXCEPT !.entries = es]
           new == [ns EXCEPT ![q] = n]
           u   == [t EXCEPT !.nodes[q].entries = RemoveAt(@, at)]
<1>1. /\ t \in View /\ t.count = Len(ns) + 1 /\ Leveled(ns, lev) /\ Tree(ns, L, {t.root})
      /\ Keyed(ns, L)
  BY DEF GoodView
<1>2. u = [t EXCEPT !.nodes = new]
  OBVIOUS
<1> HIDE DEF ns
<1>3. LeafFits(ns[q]) /\ Kids(ns[q]) = {} /\ ns[q].leaf = TRUE /\ q \in 1..Len(ns)
  <2>1. q \in 1..Len(ns)
    BY DEF ns
  <2> QED BY <1>1, <2>1, LeafPageIs, Zenon
<1>4. es \in Seq(Entry) /\ 10 * Len(es) <= Room
  <2> DEFINE old == ns[q].entries
  <2>1. old \in Seq(Entry) /\ Len(old) \in Nat /\ 10 * Len(old) <= Room
    BY <1>3, LeafPage
  <2>2. at \in 1..Len(old)
    BY DEF ns
  <2> HIDE DEF old
  <2>3. RemoveAt(old, at) \in Seq(Entry) /\ Len(RemoveAt(old, at)) = Len(old) - 1
    BY <2>1, <2>2, RemoveAtIs
  <2>4. Room \in Int
    BY BTreeAssumption DEF Room, METADATA_SIZE
  <2>5. 10 * (Len(old) - 1) <= Room
    BY <2>1, <2>4
  <2> QED BY <2>3, <2>5 DEF old
<1> HIDE DEF es
<1>5. LeafAgain(n, ns[q], es)
  BY <1>3, <1>4, LeafChanged
<1> HIDE DEF n
<1>6. GoodPage(n, lev[q], lev)
  <2>1. GoodPage(ns[q], lev[q], lev)
    BY <1>1, <1>3, PageIs
  <2>2. LeafFits(n) /\ n.next = ns[q].next
    BY <1>5 DEF LeafAgain
  <2> QED BY <2>1, <2>2 DEF GoodPage
<1>7. Leveled(new, lev) /\ SameBut(new, ns, q) /\ new[q] = n
  <2>1. n \in Node
    BY <1>5 DEF LeafAgain
  <2> QED BY <1>1, <1>3, <1>6, <2>1, Rewritten
<1> HIDE DEF new
<1>8. u \in View /\ u.nodes = new /\ u.root = t.root /\ u.count = t.count
  <2>1. new \in Seq(Node)
    BY <1>7 DEF Leveled
  <2> HIDE DEF u
  <2> QED BY <1>1, <1>2, <2>1, Repaged
<1>9. Len(new) = Len(ns) /\ \A x \in 1..Len(ns) : x # q => new[x] = ns[x]
  BY <1>7 DEF SameBut
<1>10. \A x \in 1..Len(ns) : Kids(new[x]) = Kids(ns[x])
  BY <1>3, <1>5, <1>7, <1>9 DEF LeafAgain
<1>11. Tree(new, L, {t.root}) /\ Keyed(new, L)
  <2>1. L \subseteq 1..Len(ns)
    BY <1>1 DEF Tree
  <2>2. Tree(new, L, {t.root})
    BY <1>1, <1>9, <1>10, <2>1 DEF Tree
  <2>3. Keyed(new, L)
    BY <1>1, <1>5, <1>7, <1>9, <2>1 DEF Keyed, LeafAgain
  <2> QED BY <2>2, <2>3
<1>13. StillFirst(ns, new, t.root)
  <2>1. HeadsBut(ns, new, 0)
    <3>1. n.leaf = TRUE
      BY <1>5, LeafPage DEF LeafAgain
    <3> QED BY <1>3, <1>7, <1>9, <3>1 DEF HeadsBut
  <2>2. 0 \notin 1..Len(ns) /\ Len(ns) <= Len(new)
    <3>1. Len(ns) \in Nat
      BY <1>1 DEF Leveled
    <3> QED BY <1>9, <3>1
  <2> QED BY <1>1, <1>7, <2>1, <2>2, HeadsKept
<1> HIDE DEF u
<1>12. GoodView(u, lev, L)
  BY <1>1, <1>7, <1>8, <1>9, <1>11 DEF GoodView
<1>14. \A x \in 1..Len(t.nodes) : x # q => u.nodes[x] = t.nodes[x]
  BY <1>8, <1>9 DEF ns
<1>15. StillFirst(t.nodes, u.nodes, t.root) /\ Len(u.nodes) = Len(t.nodes)
  BY <1>8, <1>9, <1>13 DEF ns
<1> QED BY <1>8, <1>12, <1>14, <1>15 DEF u, ns

\* A tree whose root may have lost its last key.
Rooted(t, lev, L) ==
  /\ t \in View /\ t.count = Len(t.nodes) + 1 /\ Leveled(t.nodes, lev)
  /\ Tree(t.nodes, L, {t.root}) /\ Keyed(t.nodes, L \ {t.root})

\* del has climbed from the leaf, at level 0, to page path[d.at + 1] at most; the pages
\* above it are as they were.
Settled(d, path) == d.at = 0 \/ ~Underflows(d.tree.nodes[path[d.at + 1]])

Climbed(d, t, lev, path, k) ==
  /\ d \in [tree : View, at : Nat] /\ d.at <= lev[t.root]
  /\ d.tree.root = t.root /\ d.tree.count = t.count /\ Len(d.tree.nodes) = Len(t.nodes)
  /\ Leveled(d.tree.nodes, lev)
  /\ \A x \in 1..Len(t.nodes) : lev[x] > lev[t.root] - d.at => d.tree.nodes[x] = t.nodes[x]
  /\ \E M : /\ Tree(d.tree.nodes, M, {t.root}) /\ Keyed(d.tree.nodes, M \ {path[d.at + 1]})
            /\ \A i \in 1..d.at + 1 : path[i] \in M
  /\ StillFirst(t.nodes, d.tree.nodes, t.root)
  /\ d.at = lev[t.root] - k \/ Settled(d, path)

\* One step of the climb: the tree, and the page it has come to.
UpOne(d, path, key) ==
  [tree |-> redistributeOrMergeEntries(d.tree, path[d.at],
              findInternalChildIdsLeft(d.tree.nodes[path[d.at]], key)),
   at   |-> d.at - 1]

\* The climb has come to a page that has underflowed, M are the pages of the tree.
LEMMA ClimbAt ==
  ASSUME NumericKeys, NEW t, NEW lev, NEW L, GoodView(t, lev, L), NEW key,
         NEW pick, Picks(t.nodes, pick),
         \A p \in 1..Len(t.nodes) :
            ~t.nodes[p].leaf => pick[p] = findInternalChildIdsLeft(t.nodes[p], key),
         NEW path, Walk(t.nodes, lev, pick, t.root, path),
         NEW k \in 1..lev[t.root], NEW d, Climbed(d, t, lev, path, k - 1), ~Settled(d, path),
         NEW M, Tree(d.tree.nodes, M, {t.root}), Keyed(d.tree.nodes, M \ {path[d.at + 1]}),
         \A i \in 1..d.at + 1 : path[i] \in M
  PROVE  /\ Underflowed(d.tree, lev, M, t.root, path[d.at],
                        findInternalChildIdsLeft(d.tree.nodes[path[d.at]], key))
         /\ d.at \in 1..lev[t.root]
<1> DEFINE ns == t.nodes
           v  == d.tree
           n  == lev[t.root]
           at == d.at
           p  == path[at]
           c  == path[at + 1]
           j  == findInternalChildIdsLeft(v.nodes[p], key)
<1>1. Leveled(ns, lev) /\ Tree(ns, L, {t.root}) /\ t.root \in 1..Len(ns) /\ n \in Nat
  <2>1. Leveled(ns, lev) /\ Tree(ns, L, {t.root})
    BY DEF GoodView
  <2>2. t.root \in 1..Len(ns)
    BY <2>1 DEF Tree
  <2> HIDE DEF ns
  <2> QED BY <2>1, <2>2, PageIs
<1>2. /\ v \in View /\ at \in Nat /\ at <= n /\ v.root = t.root /\ v.count = t.count
      /\ Len(v.nodes) = Len(ns) /\ Leveled(v.nodes, lev)
      /\ \A x \in 1..Len(ns) : lev[x] > n - at => v.nodes[x] = ns[x]
      /\ StillFirst(ns, v.nodes, t.root)
  BY DEF Climbed
<1>3. /\ Tree(v.nodes, M, {t.root}) /\ Keyed(v.nodes, M \ {c})
      /\ \A i \in 1..at + 1 : path[i] \in M
  OBVIOUS
<1>4. at # 0 /\ Underflows(v.nodes[c]) /\ at = n - (k - 1)
  BY DEF Climbed, Settled
<1>5. /\ \A i \in 1..n + 1 : path[i] \in 1..Len(ns) /\ lev[path[i]] = n + 1 - i
      /\ \A i \in 1..n : path[i + 1] = ns[path[i]].ptrs[pick[path[i]]]
  BY DEF Walk
<1>6. /\ \A x \in 1..Len(ns) : ~ns[x].leaf => pick[x] = findInternalChildIdsLeft(ns[x], key)
      /\ Picks(ns, pick)
  OBVIOUS
<1> HIDE DEF ns, v, n, at
<1>7. /\ at \in 1..n /\ at \in 1..n + 1 /\ at + 1 \in 1..n + 1 /\ at \in 1..at + 1
      /\ n + 1 - at > n - at /\ n + 1 - at > 0
      /\ k \in 1..n
  <2>1. k \in 1..n
    BY DEF n
  <2> QED BY <1>1, <1>2, <1>4, <2>1
<1>8. /\ p \in 1..Len(ns) /\ lev[p] = n + 1 - at /\ c = ns[p].ptrs[pick[p]]
      /\ c \in 1..Len(ns) /\ lev[c] = n + 1 - (at + 1)
  BY <1>5, <1>7
<1> HIDE DEF p, c
<1>9. v.nodes[p] = ns[p] /\ p # c /\ lev[p] # 0
  BY <1>1, <1>2, <1>7, <1>8
<1>10. ~ns[p].leaf
  BY <1>1, <1>8, <1>9, PageIs
<1>11. j = pick[p] /\ c = v.nodes[p].ptrs[j] /\ j \in 1..Len(v.nodes[p].ptrs)
  BY <1>6, <1>8, <1>9, <1>10 DEF Picks
<1>12. p \in M
  BY <1>3, <1>7 DEF p
<1>13. Len(v.nodes[p].keys) > 0
  BY <1>3, <1>9, <1>10, <1>12 DEF Keyed
<1> HIDE DEF j
<1>14. Underflowed(v, lev, M, t.root, p, j)
  BY <1>2, <1>3, <1>4, <1>9, <1>11, <1>12, <1>13 DEF Underflowed
<1> QED BY <1>7, <1>14 DEF v, p, j, at, n

\* One step of the climb.
LEMMA ClimbStep ==
  ASSUME NumericKeys, NEW t, NEW lev, NEW L, GoodView(t, lev, L), NEW key,
         NEW pick, Picks(t.nodes, pick),
         \A p \in 1..Len(t.nodes) :
            ~t.nodes[p].leaf => pick[p] = findInternalChildIdsLeft(t.nodes[p], key),
         NEW path, Walk(t.nodes, lev, pick, t.root, path),
         NEW k \in 1..lev[t.root], NEW d, Climbed(d, t, lev, path, k - 1), ~Settled(d, path)
  PROVE  Climbed(UpOne(d, path, key), t, lev, path, k)
<1> DEFINE ns == t.nodes
           v  == d.tree
           n  == lev[t.root]
           at == d.at
           p  == path[at]
           c  == path[at + 1]
           j  == findInternalChildIdsLeft(v.nodes[p], key)
           u  == redistributeOrMergeEntries(v, p, j)
<1>1. Leveled(ns, lev) /\ Tree(ns, L, {t.root}) /\ t.root \in 1..Len(ns) /\ n \in Nat
  <2>1. Leveled(ns, lev) /\ Tree(ns, L, {t.root})
    BY DEF GoodView
  <2>2. t.root \in 1..Len(ns)
    BY <2>1 DEF Tree
  <2> HIDE DEF ns
  <2> QED BY <2>1, <2>2, PageIs
<1>2. /\ v \in View /\ at \in Nat /\ at <= n /\ v.root = t.root /\ v.count = t.count
      /\ Len(v.nodes) = Len(ns) /\ Leveled(v.nodes, lev)
      /\ \A x \in 1..Len(ns) : lev[x] > n - at => v.nodes[x] = ns[x]
      /\ StillFirst(ns, v.nodes, t.root)
  BY DEF Climbed
<1>3. PICK M : /\ Tree(v.nodes, M, {t.root}) /\ Keyed(v.nodes, M \ {c})
               /\ \A i \in 1..at + 1 : path[i] \in M
  BY DEF Climbed
<1>4. at # 0 /\ Underflows(v.nodes[c]) /\ at = n - (k - 1)
  BY DEF Climbed, Settled
<1>5. /\ \A i \in 1..n + 1 : path[i] \in 1..Len(ns) /\ lev[path[i]] = n + 1 - i
      /\ \A i \in 1..n : path[i + 1] = ns[path[i]].ptrs[pick[path[i]]]
  BY DEF Walk
<1> HIDE DEF ns, v, n, at
<1>7. /\ at \in 1..n /\ at \in 1..n + 1 /\ at + 1 \in 1..n + 1 /\ at \in 1..at + 1
      /\ n + 1 - at > n - at /\ n + 1 - at > 0
      /\ k \in 1..n
  <2>1. k \in 1..n
    BY DEF n
  <2> QED BY <1>1, <1>2, <1>4, <2>1
<1>8. /\ p \in 1..Len(ns) /\ lev[p] = n + 1 - at /\ c = ns[p].ptrs[pick[p]]
      /\ c \in 1..Len(ns) /\ lev[c] = n + 1 - (at + 1)
  BY <1>5, <1>7
<1> HIDE DEF p, c
<1> HIDE DEF j
<1>14. Underflowed(v, lev, M, t.root, p, j)
  BY <1>3, ClimbAt DEF v, p, j, at, c, n, ns
<1>15. Repaired(v, lev, M, t.root, p, u)
  BY <1>14, RepairIs
<1> HIDE DEF u
<1>16. /\ u \in View /\ u.root = t.root /\ u.count = t.count /\ Len(u.nodes) = Len(ns)
       /\ Leveled(u.nodes, lev)
       /\ \A q \in 1..Len(ns) : lev[q] > lev[p] => u.nodes[q] = v.nodes[q]
       /\ StillFirst(v.nodes, u.nodes, t.root)
  BY <1>2, <1>15 DEF Repaired
<1>24. StillFirst(ns, u.nodes, t.root)
  BY <1>1, <1>2, <1>16, StillTwice
<1>17. PICK N : /\ Tree(u.nodes, N, {t.root}) /\ Keyed(u.nodes, N \ {p})
                /\ \A q \in M : lev[q] >= lev[p] => q \in N
  BY <1>15 DEF Repaired
<1> DEFINE x == [tree |-> u, at |-> at - 1]
<1>18. x \in [tree : View, at : Nat] /\ x.tree = u /\ x.at = at - 1 /\ x.at \in Nat
  <2>1. at - 1 \in Nat
    BY <1>7, <1>2
  <2> QED BY <1>16, <2>1
<1> HIDE DEF x
<1>19. /\ x.at <= n /\ x.at = n - k /\ x.at + 1 = at
  BY <1>1, <1>2, <1>4, <1>7, <1>18
<1>20. \A q \in 1..Len(ns) : lev[q] > n - x.at => u.nodes[q] = ns[q]
  <2> SUFFICES ASSUME NEW q \in 1..Len(ns), lev[q] > n - x.at PROVE u.nodes[q] = ns[q]
    OBVIOUS
  <2>1. lev[q] \in Nat
    BY <1>1, PageIs
  <2>2. n - x.at = n + 1 - at /\ n - x.at > n - at
    BY <1>1, <1>2, <1>18
  <2>3. lev[q] > lev[p] /\ lev[q] > n - at
    BY <1>1, <1>2, <1>8, <2>1, <2>2
  <2> QED BY <1>2, <1>16, <2>3
<1>21. \A i \in 1..x.at + 1 : path[i] \in N
  <2> SUFFICES ASSUME NEW i \in 1..at PROVE path[i] \in N
    BY <1>19
  <2>1. i \in 1..at + 1 /\ i \in 1..n + 1 /\ n + 1 - i >= n + 1 - at
    BY <1>1, <1>2, <1>7
  <2>2. path[i] \in M /\ lev[path[i]] >= lev[p]
    BY <1>3, <1>5, <1>8, <2>1
  <2> QED BY <1>17, <2>2
<1>22. path[x.at + 1] = p
  BY <1>19 DEF p
<1>23. Climbed(x, t, lev, path, k)
  <2>1. \E W : /\ Tree(x.tree.nodes, W, {t.root}) /\ Keyed(x.tree.nodes, W \ {path[x.at + 1]})
               /\ \A i \in 1..x.at + 1 : path[i] \in W
    BY <1>17, <1>18, <1>21, <1>22
  <2> HIDE DEF x
  <2> QED BY <1>16, <1>18, <1>19, <1>20, <1>24, <2>1 DEF Climbed, n, ns
<1> QED BY <1>23 DEF UpOne, x, u, v, p, j, at

\* The file without the entry found on leaf q.
CutAt(t, e, q) == CHOOSE i \in DOMAIN t.nodes[q].entries :
                    /\ Matches(t.nodes[q].entries[i], e)
                    /\ \A j \in 1..i - 1 : ~Matches(t.nodes[q].entries[j], e)
Cut(t, e, q)   == [t EXCEPT !.nodes[q].entries = RemoveAt(@, CutAt(t, e, q))]

LEMMA MatchIs ==
  ASSUME NEW t, NEW q, NEW S, t.nodes[q].entries \in Seq(S), NEW e,
         \E x \in ToSet(t.nodes[q].entries) : Matches(x, e)
  PROVE  /\ CutAt(t, e, q) \in 1..Len(t.nodes[q].entries)
         /\ Matches(t.nodes[q].entries[CutAt(t, e, q)], e)
<1> DEFINE es == t.nodes[q].entries
           T  == {i \in DOMAIN es : Matches(es[i], e)}
<1>8. es \in Seq(S) /\ \E x \in ToSet(es) : Matches(x, e)
  OBVIOUS
<1>9. CutAt(t, e, q) = CHOOSE i \in DOMAIN es : /\ Matches(es[i], e)
                                               /\ \A j \in 1..i - 1 : ~Matches(es[j], e)
  BY DEF CutAt
<1> HIDE DEF es
<1>1. DOMAIN es = 1..Len(es) /\ Len(es) \in Nat
  BY <1>8
<1>2. T # {} /\ T \subseteq 1..Len(es)
  BY <1>1, <1>8 DEF ToSet
<1> HIDE DEF T
<1>3. T \subseteq Nat
  BY <1>1, <1>2
<1>4. PICK i \in T : \A m \in T : i <= m
  BY <1>2, <1>3, LeastOf
<1>5. \A j \in 1..i - 1 : ~Matches(es[j], e)
  <2> SUFFICES ASSUME NEW j \in 1..i - 1, Matches(es[j], e) PROVE FALSE
    OBVIOUS
  <2>1. i \in 1..Len(es) /\ i \in Nat
    BY <1>1, <1>2, <1>4
  <2>2. j \in 1..Len(es) /\ j < i
    BY <1>1, <2>1
  <2>3. j \in T
    BY <1>1, <2>2 DEF T
  <2> QED BY <1>4, <2>1, <2>2, <2>3
<1>6. i \in DOMAIN es /\ Matches(es[i], e)
  BY <1>4 DEF T
<1>7. \E k \in DOMAIN es : Matches(es[k], e) /\ \A j \in 1..k - 1 : ~Matches(es[j], e)
  BY <1>5, <1>6
<1>10. CutAt(t, e, q) \in DOMAIN es /\ Matches(es[CutAt(t, e, q)], e)
  BY <1>7, <1>9
<1> QED BY <1>1, <1>10 DEF es

\* A page that has not underflowed is not without keys.
LEMMA KeptKeys ==
  ASSUME NumericKeys, NEW ns, NEW lev, Leveled(ns, lev), NEW p \in 1..Len(ns),
         ~Underflows(ns[p])
  PROVE  ns[p].leaf \/ Len(ns[p].keys) > 0
<1>1. CASE lev[p] = 0
  BY <1>1, PageIs
<1>2. CASE lev[p] # 0
  <2>1. InternalFits(ns[p])
    BY <1>2, InternalPageIs, Zenon
  <2>2. Used(ns[p]) = 4 + 8 * Len(ns[p].keys) /\ Len(ns[p].keys) \in Nat
    BY <2>1, FsoIs, InternalPage
  <2>3. MIN_DATA_BYTES \in Nat /\ MIN_DATA_BYTES >= 12
    BY SizesAre
  <2>4. ~(4 + 8 * Len(ns[p].keys) < MIN_DATA_BYTES)
    BY <2>2 DEF Underflows
  <2> QED BY <2>2, <2>3, <2>4
<1> QED BY <1>1, <1>2

\* Where the climb ends.
LEMMA ClimbEnds ==
  ASSUME NumericKeys, NEW t, NEW lev, NEW L, GoodView(t, lev, L),
         NEW pick, NEW path, Walk(t.nodes, lev, pick, t.root, path),
         NEW d, Climbed(d, t, lev, path, lev[t.root])
  PROVE  /\ \E M : Rooted(d.tree, lev, M)
         /\ Len(d.tree.nodes) = Len(t.nodes) /\ d.tree.root = t.root
         /\ StillFirst(t.nodes, d.tree.nodes, t.root)
<1> DEFINE v == d.tree
<1>1. /\ v \in View /\ d.at \in Nat /\ v.root = t.root /\ v.count = t.count
      /\ Len(v.nodes) = Len(t.nodes) /\ Leveled(v.nodes, lev) /\ d.at <= lev[t.root]
      /\ StillFirst(t.nodes, v.nodes, t.root)
  BY DEF Climbed
<1>2. PICK M : /\ Tree(v.nodes, M, {t.root}) /\ Keyed(v.nodes, M \ {path[d.at + 1]})
               /\ \A i \in 1..d.at + 1 : path[i] \in M
  BY DEF Climbed
<1>3. t.root \in 1..Len(t.nodes) /\ lev[t.root] \in Nat /\ t.count = Len(t.nodes) + 1
  <2>1. Leveled(t.nodes, lev) /\ Tree(t.nodes, L, {t.root}) /\ t.count = Len(t.nodes) + 1
    BY DEF GoodView
  <2>2. t.root \in 1..Len(t.nodes)
    BY <2>1 DEF Tree
  <2> QED BY <2>1, <2>2, PageIs
<1>4. d.at = 0 \/ ~Underflows(v.nodes[path[d.at + 1]])
  <2>1. lev[t.root] - lev[t.root] = 0
    BY <1>3
  <2> QED BY <2>1 DEF Climbed, Settled
<1>5. path[1] = t.root
  BY DEF Walk
<1> HIDE DEF v
<1>6. Keyed(v.nodes, M \ {t.root})
  <2>1. CASE d.at = 0
    <3>1. path[d.at + 1] = t.root
      BY <1>5, <2>1
    <3> QED BY <1>2, <3>1
  <2>2. CASE ~Underflows(v.nodes[path[d.at + 1]])
    <3>1. d.at + 1 \in 1..d.at + 1
      BY <1>1
    <3>2. path[d.at + 1] \in M
      BY <1>2, <3>1
    <3>3. path[d.at + 1] \in 1..Len(v.nodes)
      BY <1>2, <3>2 DEF Tree
    <3> DEFINE c == path[d.at + 1]
    <3> HIDE DEF c
    <3>4. v.nodes[c].leaf \/ Len(v.nodes[c].keys) > 0
      BY <1>1, <2>2, <3>3, KeptKeys DEF c
    <3>5. Keyed(v.nodes, M \ {c})
      BY <1>2 DEF c
    <3> QED BY <3>4, <3>5 DEF Keyed
  <2> QED BY <1>4, <2>1, <2>2
<1>7. Rooted(v, lev, M)
  BY <1>1, <1>2, <1>3, <1>6 DEF Rooted
<1> QED BY <1>1, <1>7 DEF v

\* The path of a deletion, and what else its climb keeps.
DelPath(t, e) == Path(t, e.key, findInternalChildIdsLeft)

ClimbKeeps(Extra, t, e, q, lev, path) ==
  /\ [tree |-> Cut(t, e, q), at |-> lev[t.root]] \in Extra
  /\ \A k \in 1..lev[t.root] : \A d \in Extra :
       Climbed(d, t, lev, path, k - 1) /\ ~Settled(d, path) => UpOne(d, path, e.key) \in Extra

\* del climbs from the leaf.
LEMMA DelClimbs ==
  ASSUME NumericKeys, NEW t, NEW lev, NEW L, GoodView(t, lev, L), NEW e,
         NEW q \in 1..Len(t.nodes), lev[q] = 0,
         CutAt(t, e, q) \in 1..Len(t.nodes[q].entries),
         NEW path, path = DelPath(t, e), NEW pick, Picks(t.nodes, pick),
         \A p \in 1..Len(t.nodes) :
            ~t.nodes[p].leaf => pick[p] = findInternalChildIdsLeft(t.nodes[p], e.key),
         Walk(t.nodes, lev, pick, t.root, path),
         NEW Extra, ClimbKeeps(Extra, t, e, q, lev, path)
  PROVE  \/ del(t, e, q) = Cut(t, e, q)
         \/ \E d \in Extra : Climbed(d, t, lev, path, lev[t.root]) /\ del(t, e, q) = d.tree
<1> DEFINE ns   == t.nodes
           cut  == Cut(t, e, q)
           D    == [tree : View, at : Nat]
           Up(d) == UpOne(d, path, e.key)
           up   == [d \in D |->
                      IF d.at = 0 \/ ~Underflows(d.tree.nodes[path[d.at + 1]]) THEN d ELSE Up(d)]
           a    == [tree |-> cut, at |-> Len(path) - 1]
           Eq(f) == f = [k \in 0..Len(path) - 1 |-> IF k = 0 THEN a ELSE up[f[k - 1]]]
           climb == CHOOSE f : Eq(f)
           n    == lev[t.root]
<1>1. del(t, e, q) = IF q = Last(path) THEN climb[Len(path) - 1].tree ELSE cut
  BY DEF del, Cut, CutAt, UpOne, DelPath
<1>3. GoodView(t, lev, L)
  OBVIOUS
<1>4. /\ Leveled(ns, lev) /\ t.root \in 1..Len(ns) /\ n \in Nat /\ Tree(ns, L, {t.root})
      /\ t.root \in L
  <2>1. Leveled(ns, lev) /\ Tree(ns, L, {t.root})
    BY <1>3 DEF GoodView
  <2>2. t.root \in 1..Len(ns) /\ t.root \in L
    BY <2>1 DEF Tree
  <2> HIDE DEF ns
  <2> QED BY <2>1, <2>2, PageIs
<1>2. q \in 1..Len(ns) /\ lev[q] = 0
  OBVIOUS
<1>6. /\ GoodView(cut, lev, L) /\ cut.root = t.root /\ Len(cut.nodes) = Len(ns)
      /\ \A x \in 1..Len(ns) : x # q => cut.nodes[x] = ns[x]
      /\ StillFirst(ns, cut.nodes, t.root)
  BY EntryCut DEF Cut
<1> HIDE DEF cut
<1>7. /\ Picks(ns, pick)
      /\ \A p \in 1..Len(ns) : ~ns[p].leaf => pick[p] = findInternalChildIdsLeft(ns[p], e.key)
      /\ Walk(ns, lev, pick, t.root, path)
  OBVIOUS
<1>8. /\ Len(path) = n + 1 /\ Len(path) - 1 = n
      /\ \A i \in 1..n + 1 : path[i] \in L
  <2>1. \A i \in 1..n + 1 : path[i] \in L
    BY <1>4, <1>7, WalkStays
  <2>2. Len(path) = n + 1
    BY <1>7 DEF Walk
  <2>3. Len(path) - 1 = n
    BY <1>4, <2>2
  <2> QED BY <2>1, <2>2, <2>3
<1>9. Climbed(a, t, lev, path, 0) /\ a \in Extra
  <2>1. cut \in View /\ cut.count = t.count /\ Leveled(cut.nodes, lev) /\ Tree(cut.nodes, L, {t.root})
        /\ Keyed(cut.nodes, L)
    BY <1>3, <1>6 DEF GoodView
  <2>2. a.tree = cut /\ a.at = n /\ a \in D
    BY <1>4, <1>8, <2>1
  <2>7. a \in Extra
    BY <1>8 DEF cut, ClimbKeeps
  <2> HIDE DEF a
  <2>3. \A x \in 1..Len(ns) : lev[x] > n - a.at => a.tree.nodes[x] = ns[x]
    <3>1. n - n = 0
      BY <1>4
    <3> QED BY <1>2, <1>6, <2>2, <3>1
  <2>4. Keyed(cut.nodes, L \ {path[a.at + 1]})
    BY <2>1 DEF Keyed
  <2>5. a.at <= n /\ a.at = n - 0
    BY <1>4, <2>2
  <2>6. \E M : /\ Tree(a.tree.nodes, M, {t.root}) /\ Keyed(a.tree.nodes, M \ {path[a.at + 1]})
               /\ \A i \in 1..a.at + 1 : path[i] \in M
    BY <1>8, <2>1, <2>2, <2>4
  <2> QED BY <1>6, <2>1, <2>2, <2>3, <2>5, <2>6, <2>7 DEF Climbed
<1>10. ASSUME NEW k \in 1..n, NEW d, d \in D, d \in Extra, Climbed(d, t, lev, path, k - 1)
       PROVE  up[d] \in D /\ up[d] \in Extra /\ Climbed(up[d], t, lev, path, k)
  <2>1. up[d] = IF Settled(d, path) THEN d ELSE Up(d)
    BY <1>10 DEF Settled
  <2> HIDE DEF up
  <2>2. CASE Settled(d, path)
    BY <1>10, <2>1, <2>2 DEF Climbed
  <2>3. CASE ~Settled(d, path)
    <3>1. Climbed(Up(d), t, lev, path, k)
      BY <1>3, <1>7, <1>10, <2>3, ClimbStep
    <3>2. Up(d) \in D
      <4> HIDE DEF Up
      <4> QED BY <3>1 DEF Climbed
    <3>3. Up(d) \in Extra
      BY <1>10, <2>3 DEF ClimbKeeps
    <3> QED BY <2>1, <2>3, <3>1, <3>2, <3>3
  <2> QED BY <2>2, <2>3
<1> HIDE DEF up
<1> DEFINE Good == [k \in 0..n |-> {d \in D : d \in Extra /\ Climbed(d, t, lev, path, k)}]
<1>11. \A k \in 0..n : \A d : d \in Good[k] <=> d \in D /\ d \in Extra /\ Climbed(d, t, lev, path, k)
  OBVIOUS
<1> HIDE DEF Good
<1>12. a \in Good[0]
  <2>1. 0 \in 0..n /\ a \in D
    BY <1>4, <1>9 DEF Climbed
  <2> QED BY <1>9, <1>11, <2>1
<1>13. \A k \in 1..n : \A d \in Good[k - 1] : up[d] \in Good[k]
  <2> SUFFICES ASSUME NEW k \in 1..n, NEW d \in Good[k - 1] PROVE up[d] \in Good[k]
    OBVIOUS
  <2>1. k - 1 \in 0..n /\ k \in 0..n
    BY <1>4
  <2> QED BY <1>10, <1>11, <2>1
<1>14. /\ \E f : IsFollowed(f, n, a, up)
       /\ \A f : IsFollowed(f, n, a, up) => f[n] \in Good[n]
  <2> HIDE DEF n, a
  <2> QED BY <1>4, <1>12, <1>13, Followed, Zenon
<1>15. \A f : IsFollowed(f, n, a, up) <=> Eq(f)
  BY <1>8 DEF IsFollowed
<1>16. Eq(climb)
  <2> HIDE DEF Eq
  <2> QED BY <1>14, <1>15
<1> HIDE DEF Eq, climb, a
<1>17. Climbed(climb[n], t, lev, path, n) /\ climb[n] \in Extra
  <2>1. n \in 0..n
    BY <1>4
  <2> QED BY <1>11, <1>14, <1>15, <1>16, <2>1
<1> QED BY <1>1, <1>8, <1>17 DEF n, cut

\* deleteEntry leaves a tree whose root may be without keys.
LEMMA DelIs ==
  ASSUME NumericKeys, NEW t, NEW lev, FileView(t, lev), NEW e, LeafOf(t, e) # 0
  PROVE  /\ \E M : Rooted(del(t, e, LeafOf(t, e)), lev, M)
         /\ Len(del(t, e, LeafOf(t, e)).nodes) = Len(t.nodes)
         /\ del(t, e, LeafOf(t, e)).root = t.root
         /\ StillFirst(t.nodes, del(t, e, LeafOf(t, e)).nodes, t.root)
<1> DEFINE ns   == t.nodes
           q    == LeafOf(t, e)
           at   == CutAt(t, e, q)
           cut  == Cut(t, e, q)
           n    == lev[t.root]
<1>2. /\ t.root # 0 /\ q \in 1..Len(ns) /\ lev[q] = 0
      /\ \E x \in ToSet(ns[q].entries) : Matches(x, e)
  BY LeafOfIs
<1>3. PICK L : GoodView(t, lev, L)
  BY <1>2 DEF FileView
<1>4. /\ Leveled(ns, lev) /\ t.root \in 1..Len(ns) /\ n \in Nat /\ Tree(ns, L, {t.root})
      /\ t.root \in L
  <2>1. Leveled(ns, lev) /\ Tree(ns, L, {t.root})
    BY <1>3 DEF GoodView
  <2>2. t.root \in 1..Len(ns) /\ t.root \in L
    BY <2>1 DEF Tree
  <2> HIDE DEF ns
  <2> QED BY <2>1, <2>2, PageIs
<1>5. at \in 1..Len(ns[q].entries)
  <2>1. ns[q].entries \in Seq(Entry)
    <3> HIDE DEF ns, q
    <3>1. LeafFits(ns[q])
      BY <1>2, <1>4, LeafPageIs, Zenon
    <3> QED BY <3>1, LeafPage
  <2> QED BY <1>2, <2>1, MatchIs
<1> HIDE DEF at, q
<1>6. /\ GoodView(cut, lev, L) /\ cut.root = t.root /\ Len(cut.nodes) = Len(ns)
      /\ \A x \in 1..Len(ns) : x # q => cut.nodes[x] = ns[x]
      /\ StillFirst(ns, cut.nodes, t.root)
  BY <1>2, <1>3, <1>5, EntryCut DEF Cut, at
<1> HIDE DEF cut
<1>11. PICK path : path = DelPath(t, e)
  OBVIOUS
<1>7. PICK pick : /\ Picks(ns, pick)
                  /\ \A p \in 1..Len(ns) :
                       ~ns[p].leaf => pick[p] = findInternalChildIdsLeft(ns[p], e.key)
                  /\ Walk(ns, lev, pick, t.root, path)
  BY <1>4, <1>11, DescentLeft DEF DelPath
<1>8. \/ del(t, e, q) = cut
      \/ \E d : Climbed(d, t, lev, path, n) /\ del(t, e, q) = d.tree
  <2> DEFINE D     == [tree : View, at : Nat]
             Extra == D \cup {[tree |-> cut, at |-> n]}
  <2>1. \A k \in 1..n : \A d \in Extra :
           Climbed(d, t, lev, path, k - 1) /\ ~Settled(d, path) => UpOne(d, path, e.key) \in Extra
    <3> SUFFICES ASSUME NEW k \in 1..n, NEW d \in Extra, Climbed(d, t, lev, path, k - 1),
                        ~Settled(d, path)
                 PROVE  UpOne(d, path, e.key) \in D
      OBVIOUS
    <3>1. Climbed(UpOne(d, path, e.key), t, lev, path, k)
      BY <1>3, <1>7, ClimbStep
    <3> QED BY <3>1 DEF Climbed
  <2>2. [tree |-> cut, at |-> n] \in Extra
    OBVIOUS
  <2> HIDE DEF Extra
  <2>4. ClimbKeeps(Extra, t, e, q, lev, path)
    BY <2>1, <2>2 DEF ClimbKeeps, cut
  <2>3. \/ del(t, e, q) = cut
        \/ \E d \in Extra : Climbed(d, t, lev, path, n) /\ del(t, e, q) = d.tree
    BY <1>2, <1>3, <1>5, <1>7, <1>11, <2>4, DelClimbs DEF cut, at
  <2> QED BY <2>3
<1>9. Rooted(cut, lev, L)
  BY <1>6 DEF GoodView, Rooted, Keyed
<1>10. /\ \E M : Rooted(del(t, e, q), lev, M)
       /\ Len(del(t, e, q).nodes) = Len(ns) /\ del(t, e, q).root = t.root
       /\ StillFirst(ns, del(t, e, q).nodes, t.root)
  <2>1. CASE del(t, e, q) = cut
    BY <1>6, <1>9, <2>1
  <2>2. CASE \E d : Climbed(d, t, lev, path, n) /\ del(t, e, q) = d.tree
    <3>1. PICK d : Climbed(d, t, lev, path, n) /\ del(t, e, q) = d.tree
      BY <2>2
    <3>2. /\ \E M : Rooted(d.tree, lev, M)
          /\ Len(d.tree.nodes) = Len(ns) /\ d.tree.root = t.root
          /\ StillFirst(ns, d.tree.nodes, t.root)
      BY <1>3, <1>7, <3>1, ClimbEnds
    <3> QED BY <3>1, <3>2
  <2> QED BY <1>8, <2>1, <2>2
<1> QED BY <1>10 DEF q

\* shrinkRoot makes a file of what deletion has left.
LEMMA ShrinkIs ==
  ASSUME NEW t, NEW lev, NEW L, Rooted(t, lev, L)
  PROVE  /\ FileView(shrinkRoot(t), lev) /\ shrinkRoot(t).nodes = t.nodes
         /\ shrinkRoot(t).root # 0 =>
              First(t.nodes, shrinkRoot(t).root) = First(t.nodes, t.root)
<1> DEFINE ns == t.nodes
           r  == ns[t.root]
<1>1. /\ t \in View /\ t.count = Len(ns) + 1 /\ Leveled(ns, lev)
      /\ Tree(ns, L, {t.root}) /\ Keyed(ns, L \ {t.root})
  BY DEF Rooted
<1>2. t.root \in L /\ t.root \in 1..Len(ns) /\ L \subseteq 1..Len(ns)
  BY <1>1 DEF Tree
<1>3. shrinkRoot(t) = IF r.leaf
                      THEN IF r.entries = << >> THEN [t EXCEPT !.root = 0] ELSE t
                      ELSE IF r.keys = << >> THEN [t EXCEPT !.root = r.ptrs[1]] ELSE t
  BY DEF shrinkRoot
<1>4. ASSUME NEW x \in Nat
      PROVE  /\ [t EXCEPT !.root = x] \in View /\ [t EXCEPT !.root = x].nodes = ns
             /\ [t EXCEPT !.root = x].root = x /\ [t EXCEPT !.root = x].count = t.count
  BY <1>1 DEF View
<1>7. shrinkRoot(t).nodes = ns
  BY <1>3, <1>4
<1>8. ASSUME shrinkRoot(t).root # 0
      PROVE  First(ns, shrinkRoot(t).root) = First(ns, t.root)
  <2>1. CASE r.leaf \/ r.keys # << >>
    <3>1. shrinkRoot(t) = t \/ shrinkRoot(t) = [t EXCEPT !.root = 0]
      BY <1>3, <2>1
    <3>2. [t EXCEPT !.root = 0].root = 0
      BY <1>4
    <3> HIDE DEF ns
    <3> QED BY <1>8, <3>1, <3>2
  <2>2. CASE ~r.leaf /\ r.keys = << >>
    <3> DEFINE x == r.ptrs[1]
    <3>1. First(ns, t.root) = First(ns, x) /\ x \in 1..Len(ns)
      BY <1>1, <1>2, <2>2, FirstsAre
    <3>2. x \in Nat
      BY <3>1
    <3>3. shrinkRoot(t).root = x
      BY <1>3, <1>4, <2>2, <3>2
    <3> HIDE DEF x
    <3> QED BY <3>1, <3>3
  <2> QED BY <2>1, <2>2
<1> HIDE DEF ns
<1>5. ASSUME r.leaf \/ r.keys # << >> PROVE FileView(shrinkRoot(t), lev)
  <2>1. Keyed(ns, L)
    <3>1. r.leaf \/ Len(r.keys) > 0
      <4>1. CASE r.leaf
        BY <4>1
      <4>2. CASE ~r.leaf
        <5>1. InternalFits(r)
          BY <1>1, <1>2, <4>2, PageIs
        <5>2. r.keys \in Seq(Keys)
          BY <5>1, InternalPage
        <5> QED BY <1>5, <4>2, <5>2
      <4> QED BY <4>1, <4>2
    <3> QED BY <1>1, <3>1 DEF Keyed
  <2>2. FileView(t, lev)
    <3>1. GoodView(t, lev, L)
      BY <1>1, <2>1 DEF GoodView, ns
    <3> QED BY <1>1, <3>1 DEF FileView, ns
  <2>3. FileView([t EXCEPT !.root = 0], lev)
    <3> DEFINE u == [t EXCEPT !.root = 0]
    <3>1. u \in View /\ u.nodes = ns /\ u.root = 0 /\ u.count = t.count
      BY <1>4
    <3> HIDE DEF u
    <3>2. FileView(u, lev)
      BY <1>1, <3>1 DEF FileView
    <3> QED BY <3>2 DEF u
  <2> QED BY <1>3, <1>5, <2>2, <2>3
<1>6. ASSUME ~r.leaf, r.keys = << >> PROVE FileView(shrinkRoot(t), lev)
  <2> DEFINE x == r.ptrs[1]
             u == [t EXCEPT !.root = x]
             M == L \ {t.root}
  <2>1. InternalFits(r)
    BY <1>1, <1>2, <1>6, PageIs
  <2>2. r.ptrs \in Seq(Nat) /\ Len(r.ptrs) = 1 /\ Kids(r) = InSeq(r.ptrs)
    <3>1. /\ r.ptrs \in Seq(Nat) /\ Len(r.ptrs) = Len(r.keys) + 1
          /\ Kids(r) = InSeq(r.ptrs)
      BY <2>1, InternalPage
    <3>2. Len(r.keys) = 0
      BY <1>6
    <3> QED BY <3>1, <3>2
  <2>3. Kids(r) = {x} /\ x \in Nat
    <3>1. DOMAIN r.ptrs = {1}
      BY <2>2
    <3>2. 1 \in 1..Len(r.ptrs)
      BY <2>2
    <3> QED BY <2>2, <3>1, <3>2 DEF InSeq
  <2> HIDE DEF x
  <2>4. u \in View /\ u.nodes = ns /\ u.root = x /\ u.count = t.count
    BY <1>4, <2>3
  <2>5. Tree(ns, M, {x})
    <3>1. /\ \A p \in L : Kids(ns[p]) \subseteq L \ {t.root}
          /\ \A p, q \in L : p # q => Kids(ns[p]) \cap Kids(ns[q]) = {}
      BY <1>1 DEF Tree
    <3>2. x \in M
      BY <1>2, <2>3, <3>1
    <3>3. \A p \in M : Kids(ns[p]) \subseteq M \ {x}
      BY <1>2, <2>3, <3>1
    <3> QED BY <1>2, <3>1, <3>2, <3>3 DEF Tree
  <2> HIDE DEF u
  <2>6. GoodView(u, lev, M)
    BY <1>1, <2>4, <2>5 DEF GoodView
  <2>7. FileView(u, lev)
    BY <1>1, <2>4, <2>6 DEF FileView
  <2> QED BY <1>3, <1>6, <2>7 DEF u, x
<1>9. FileView(shrinkRoot(t), lev)
  BY <1>5, <1>6
<1> QED BY <1>7, <1>8, <1>9 DEF ns

-----------------------------------------------------------------------------
(* The file between two calls. *)

LEMMA ChildrenAre ==
  ASSUME NEW lev, Leveled(nodes, lev), NEW p \in 1..Len(nodes)
  PROVE  /\ Children(p) = Kids(nodes[p]) /\ DOMAIN nodes = 1..Len(nodes)
         /\ \A q \in Children(p) : q \in 1..Len(nodes) /\ lev[q] = lev[p] - 1
         /\ lev[p] \in Nat /\ (nodes[p].leaf <=> lev[p] = 0)
<1>1. Children(p) = Kids(nodes[p])
  BY DEF Children, Kids, InSeq, ToSet
<1>2. \A q \in Kids(nodes[p]) : q \in 1..Len(nodes) /\ lev[q] = lev[p] - 1
  BY PageIs
<1>3. lev[p] \in Nat /\ (nodes[p].leaf <=> lev[p] = 0) /\ DOMAIN nodes = 1..Len(nodes)
  BY PageIs
<1> QED BY <1>1, <1>2, <1>3

\* The pages below a page of some that point to none but themselves are among them.
LEMMA TreePagesIn ==
  ASSUME NEW lev, Leveled(nodes, lev), NEW L, L \subseteq 1..Len(nodes),
         \A p \in L : Kids(nodes[p]) \subseteq L, NEW r \in L
  PROVE  TreePages(r) \subseteq L
<1> DEFINE P == 1..Len(nodes)
           V == SUBSET P
           Eq(f) == f = [p \in DOMAIN nodes |-> {p} \cup UNION {f[q] : q \in Children(p)}]
           G == [p \in P |-> [g \in [P -> V] |-> {p} \cup UNION {g[q] : q \in Children(p)}]]
           below == CHOOSE f : Eq(f)
<1>1. DOMAIN nodes = P /\ lev \in [P -> Nat]
  BY DEF Leveled
<1>2. /\ \A p \in P : \A q \in Children(p) : q \in P /\ lev[q] < lev[p] /\ lev[q] = lev[p] - 1
      /\ \A p \in P : Children(p) = Kids(nodes[p])
  <2> SUFFICES ASSUME NEW p \in P
               PROVE  /\ \A q \in Children(p) : q \in P /\ lev[q] < lev[p] /\ lev[q] = lev[p] - 1
                      /\ Children(p) = Kids(nodes[p])
    OBVIOUS
  <2>1. /\ \A q \in Children(p) : q \in P /\ lev[q] = lev[p] - 1
        /\ Children(p) = Kids(nodes[p]) /\ lev[p] \in Nat
    BY ChildrenAre
  <2> QED BY <2>1
<1>3. \A p \in P, g \in [P -> V] : G[p][g] = {p} \cup UNION {g[q] : q \in Children(p)}
  OBVIOUS
<1> HIDE DEF G
<1>4. Descends(P, lev, V, G)
  <2>1. V # {}
    OBVIOUS
  <2>2. ASSUME NEW p \in P, NEW g \in [P -> V] PROVE G[p][g] \in V
    <3>1. \A q \in Children(p) : g[q] \subseteq P
      BY <1>2, <2>2
    <3> QED BY <1>3, <3>1
  <2>3. ASSUME NEW p \in P, NEW g \in [P -> V], NEW h \in [P -> V],
               \A q \in P : lev[q] < lev[p] => g[q] = h[q]
        PROVE  G[p][g] = G[p][h]
    <3>1. \A q \in Children(p) : g[q] = h[q]
      BY <1>2, <2>3
    <3>2. {g[q] : q \in Children(p)} = {h[q] : q \in Children(p)}
      BY <3>1
    <3> QED BY <1>3, <3>2
  <2> HIDE DEF P, V
  <2> QED BY <1>1, <2>1, <2>2, <2>3 DEF Descends
<1>5. \E f : Eq(f)
  <2>1. PICK f \in [P -> V] : IsFixpoint(P, G, f)
    <3> HIDE DEF P, V
    <3> QED BY <1>4, ByLevel, Zenon
  <2>2. f = [p \in P |-> {p} \cup UNION {f[q] : q \in Children(p)}]
    <3> HIDE DEF P, V
    <3>1. \A p \in P : G[p][f] = {p} \cup UNION {f[q] : q \in Children(p)}
      BY <1>3
    <3> QED BY <2>1, <3>1 DEF IsFixpoint
  <2> QED BY <1>1, <2>2
<1>6. Eq(below)
  <2> HIDE DEF Eq
  <2> QED BY <1>5
<1>7. TreePages(r) = below[r]
  BY DEF TreePages
<1> HIDE DEF below
<1>8. L \subseteq P /\ \A p \in L : Children(p) \subseteq L
  <2>1. L \subseteq P /\ \A p \in L : Kids(nodes[p]) \subseteq L
    OBVIOUS
  <2> QED BY <1>2, <2>1
<1> DEFINE T == {n \in Nat : \A p \in L : lev[p] = n => below[p] \subseteq L}
<1>9. \A p \in L : below[p] = {p} \cup UNION {below[q] : q \in Children(p)}
  BY <1>1, <1>6, <1>8
<1> HIDE DEF Eq
<1>10. 0 \in T
  <2> SUFFICES ASSUME NEW p \in L, lev[p] = 0 PROVE below[p] \subseteq L
    OBVIOUS
  <2>1. \A q \in Children(p) : FALSE
    BY <1>1, <1>2, <1>8
  <2> QED BY <1>9, <2>1
<1>11. ASSUME NEW n \in Nat, n \in T PROVE n + 1 \in T
  <2> SUFFICES ASSUME NEW p \in L, lev[p] = n + 1 PROVE below[p] \subseteq L
    OBVIOUS
  <2>1. \A q \in Children(p) : q \in L /\ lev[q] = n
    BY <1>2, <1>8
  <2>2. \A q \in Children(p) : below[q] \subseteq L
    BY <1>11, <2>1
  <2> QED BY <1>9, <2>2
<1>12. Nat \subseteq T
  <2> HIDE DEF T
  <2> QED BY <1>10, <1>11, Induct
<1> QED BY <1>1, <1>7, <1>8, <1>12

\* The file as the one open handle, or the next one to be opened, sees it.
FileNow(lev) == FileView([nodes |-> nodes, root |-> Root, count |-> Len(nodes) + 1], lev)

\* The inductive invariant: some levels fit all pages, and the pages at and below the root
\* are a tree whose internal pages have keys.
IndexInvariant ==
  /\ nodes \in Seq(Node) /\ hidden \in 0..Len(nodes)
  /\ handles \in [Handles -> [open : BOOLEAN, root : 0..Len(nodes), count : Nat]]
  /\ \A g, h \in Handles : handles[g].open /\ handles[h].open => g = h
  /\ \A h \in Handles : handles[h].open => handles[h].count = Len(nodes) + 1
  /\ \E lev : FileNow(lev)

\* The root is that of the one open handle, or the stored one.
LEMMA RootIs ==
  ASSUME \A g, h \in Handles : handles[g].open /\ handles[h].open => g = h
  PROVE  /\ \A h \in Handles : handles[h].open => Root = handles[h].root
         /\ (\A h \in Handles : ~handles[h].open) => Root = hidden
<1>1. ASSUME NEW h \in Handles, handles[h].open PROVE Root = handles[h].root
  <2>1. (CHOOSE g \in Handles : handles[g].open) = h
    BY <1>1
  <2> QED BY <1>1, <2>1 DEF Root
<1>2. (\A h \in Handles : ~handles[h].open) => Root = hidden
  BY DEF Root
<1> QED BY <1>1, <1>2

\* The root is a page of the file, or 0.
LEMMA RootIn ==
  ASSUME NEW t, NEW lev, FileView(t, lev)
  PROVE  t.root \in 0..Len(t.nodes) /\ t.nodes \in Seq(Node) /\ Len(t.nodes) \in Nat
<1>1. t.nodes \in Seq(Node) /\ Len(t.nodes) \in Nat
  BY DEF FileView, Leveled
<1>2. t.root # 0 => t.root \in 1..Len(t.nodes)
  BY DEF FileView, GoodView, Tree
<1> QED BY <1>1, <1>2

\* The invariant after a call that leaves a file.
LEMMA BecomesIs ==
  ASSUME IndexInvariant, NEW h \in Handles, Current(h), NEW t, NEW lv, FileView(t, lv),
         Len(nodes) <= Len(t.nodes), Becomes(h, t)
  PROVE  IndexInvariant'
<1> DEFINE n == Len(nodes)
           m == Len(t.nodes)
<1>1. /\ n \in Nat /\ hidden \in 0..n
      /\ handles \in [Handles -> [open : BOOLEAN, root : 0..n, count : Nat]]
      /\ \A f, g \in Handles : handles[f].open /\ handles[g].open => f = g
  BY DEF IndexInvariant
<1>2. /\ t.root \in 0..m /\ t.nodes \in Seq(Node) /\ m \in Nat
      /\ t.count = m + 1 /\ t.count \in Nat
  BY RootIn DEF FileView
<1>3. /\ nodes' = t.nodes /\ hidden' = hidden
      /\ handles' = [handles EXCEPT ![h].root = t.root, ![h].count = t.count]
  BY DEF Becomes
<1>4. handles[h].open
  BY DEF Current
<1>5. /\ handles' \in [Handles -> [open : BOOLEAN, root : 0..m, count : Nat]]
      /\ \A g \in Handles : handles'[g].open = handles[g].open
      /\ handles'[h].root = t.root /\ handles'[h].count = t.count
  <2> DEFINE hs == [handles EXCEPT ![h].root = t.root, ![h].count = t.count]
  <2>1. n <= m
    OBVIOUS
  <2>2. /\ hs \in [Handles -> [open : BOOLEAN, root : 0..m, count : Nat]]
        /\ \A g \in Handles : /\ hs[g].open = handles[g].open
                              /\ g = h => hs[g].root = t.root /\ hs[g].count = t.count
    <3>1. 0..n \subseteq 0..m
      BY <1>1, <1>2, <2>1
    <3> HIDE DEF n, m
    <3> QED BY <1>1, <1>2, <3>1
  <2> QED BY <1>3, <2>2
<1>6. hidden' \in 0..m
  BY <1>1, <1>2, <1>3
<1>7. \A f, g \in Handles : handles'[f].open /\ handles'[g].open => f = g
  BY <1>1, <1>5
<1>8. \A g \in Handles : handles'[g].open => g = h
  BY <1>1, <1>4, <1>5
<1>9. \A g \in Handles : handles'[g].open => handles'[g].count = Len(nodes') + 1
  BY <1>2, <1>3, <1>5, <1>8
<1>10. Root' = t.root
  <2>1. handles'[h].open
    BY <1>4, <1>5
  <2>2. (CHOOSE g \in Handles : handles'[g].open) = h
    BY <1>8, <2>1
  <2> QED BY <1>5, <2>1, <2>2 DEF Root
<1>11. FileNow(lv)'
  <2>1. [nodes |-> nodes', root |-> Root', count |-> Len(nodes') + 1] = t
    <3>1. t \in [nodes : Seq(Node), root : Nat, count : Nat]
      BY DEF FileView, View
    <3> QED BY <1>2, <1>3, <1>10, <3>1
  <2> QED BY <2>1 DEF FileNow
<1> QED BY <1>2, <1>3, <1>5, <1>6, <1>7, <1>9, <1>11 DEF IndexInvariant

\* What the current handle sees is the file.
LEMMA NowIs ==
  ASSUME IndexInvariant, NEW h \in Handles, Current(h)
  PROVE  \E lev : FileView(ViewOf(h), lev) /\ ViewOf(h).nodes = nodes
<1>1. Root = handles[h].root /\ handles[h].count = Len(nodes) + 1
  BY RootIs DEF IndexInvariant, Current
<1>2. ViewOf(h) = [nodes |-> nodes, root |-> Root, count |-> Len(nodes) + 1]
  BY <1>1 DEF ViewOf
<1>3. PICK lev : FileNow(lev)
  BY DEF IndexInvariant
<1> QED BY <1>2, <1>3 DEF FileNow

\* A view with a tree is a file.
LEMMA GoodIsFile ==
  ASSUME NEW t, NEW lv, NEW L, NEW n, LargeView(t, lv, L, n)
  PROVE  FileView(t, lv) /\ n <= Len(t.nodes)
BY DEF LargeView, GoodView, FileView

\* insertEntry keeps the invariant: half pages fit, and splits lead to a new root.
LEMMA InsertKeeps ==
  ASSUME NumericKeys, IndexInvariant, NEW h \in Handles, NEW e \in Entry, insertEntry(h, e)
  PROVE  IndexInvariant'
<1>1. Current(h)
  BY DEF insertEntry
<1>2. PICK lev : FileView(ViewOf(h), lev) /\ ViewOf(h).nodes = nodes
  BY <1>1, NowIs
<1> DEFINE t == InsertEntry(ViewOf(h), e)
<1>3. PICK lv, M : LargeView(t, lv, M, Len(nodes))
  BY <1>2, InsertEntryIs DEF t
<1>4. Becomes(h, t)
  BY DEF insertEntry
<1> HIDE DEF t
<1>5. FileView(t, lv) /\ Len(nodes) <= Len(t.nodes)
  BY <1>3, GoodIsFile
<1> QED BY <1>1, <1>4, <1>5, BecomesIs

\* deleteEntry keeps the invariant.
LEMMA DeleteKeeps ==
  ASSUME NumericKeys, IndexInvariant, NEW h \in Handles, NEW e \in Entry, deleteEntry(h, e)
  PROVE  IndexInvariant'
<1>1. Current(h)
  BY DEF deleteEntry
<1>2. PICK lev : FileView(ViewOf(h), lev) /\ ViewOf(h).nodes = nodes
  BY <1>1, NowIs
<1> DEFINE v == ViewOf(h)
           u == del(v, e, LeafOf(v, e))
           t == shrinkRoot(u)
<1>3. LeafOf(v, e) # 0 /\ Becomes(h, t)
  BY DEF deleteEntry
<1>4. (\E M : Rooted(u, lev, M)) /\ Len(u.nodes) = Len(nodes)
  <2> HIDE DEF v
  <2>1. FileView(v, lev) /\ v.nodes = nodes
    BY <1>2 DEF v
  <2> QED BY <1>3, <2>1, DelIs
<1> HIDE DEF u
<1>5. FileView(t, lev) /\ Len(t.nodes) = Len(nodes)
  <2>1. FileView(t, lev) /\ t.nodes = u.nodes
    BY <1>4, ShrinkIs
  <2> HIDE DEF t
  <2> QED BY <1>4, <2>1
<1>6. Len(nodes) <= Len(t.nodes)
  BY <1>5 DEF IndexInvariant
<1> HIDE DEF t
<1> QED BY <1>1, <1>3, <1>5, <1>6, BecomesIs

\* A new file satisfies it.
LEMMA IndexInit ==
  ASSUME Init
  PROVE  IndexInvariant
<1>1. nodes = << >> /\ hidden = 0 /\ \A h \in Handles : handles[h] = Closed
  BY DEF Init
<1>2. handles \in [Handles -> [open : BOOLEAN, root : 0..Len(nodes), count : Nat]]
  BY <1>1 DEF Init, Closed
<1>3. \A h \in Handles : ~handles[h].open
  BY <1>1 DEF Closed
<1>4. Root = 0
  BY <1>1, <1>3 DEF Root
<1> DEFINE lev == [p \in 1..Len(nodes) |-> 0]
           v   == [nodes |-> nodes, root |-> Root, count |-> Len(nodes) + 1]
<1>5. Leveled(nodes, lev)
  <2>1. nodes \in Seq(Node) /\ Len(nodes) = 0
    BY <1>1
  <2>2. lev \in [1..Len(nodes) -> Nat] /\ \A p \in 1..Len(nodes) : FALSE
    BY <2>1
  <2> QED BY <2>1, <2>2 DEF Leveled
<1>6. v \in View /\ v.nodes = nodes /\ v.root = 0 /\ v.count = Len(nodes) + 1
  BY <1>1, <1>4 DEF View
<1> HIDE DEF v, lev
<1>7. FileView(v, lev)
  BY <1>5, <1>6 DEF FileView
<1>8. FileNow(lev)
  BY <1>7 DEF FileNow, v
<1> QED BY <1>1, <1>2, <1>3, <1>8 DEF IndexInvariant

\* Every step keeps it.
LEMMA IndexStep ==
  ASSUME NumericKeys, IndexInvariant, [Next]_vars
  PROVE  IndexInvariant'
<1>1. /\ nodes \in Seq(Node) /\ hidden \in 0..Len(nodes) /\ Len(nodes) \in Nat
      /\ handles \in [Handles -> [open : BOOLEAN, root : 0..Len(nodes), count : Nat]]
      /\ \A g, h \in Handles : handles[g].open /\ handles[h].open => g = h
      /\ \A h \in Handles : handles[h].open => handles[h].count = Len(nodes) + 1
  BY DEF IndexInvariant
<1>2. PICK lev : FileNow(lev)
  BY DEF IndexInvariant
<1>3. ASSUME nodes' = nodes, Root' = Root PROVE FileNow(lev)'
  BY <1>2, <1>3 DEF FileNow
<1>4. ASSUME NEW h \in Handles, \A g \in Handles : ~handles[g].open, openFile(h)
      PROVE  IndexInvariant'
  <2>1. /\ nodes' = nodes /\ hidden' = hidden
        /\ handles' = [handles EXCEPT
             ![h] = [open |-> TRUE, root |-> hidden, count |-> Len(nodes) + 1]]
    BY <1>4 DEF openFile
  <2>2. handles' \in [Handles -> [open : BOOLEAN, root : 0..Len(nodes), count : Nat]]
    BY <1>1, <2>1
  <2>3. /\ handles'[h] = [open |-> TRUE, root |-> hidden, count |-> Len(nodes) + 1]
        /\ \A g \in Handles : handles'[g].open => g = h
    BY <1>1, <1>4, <2>1
  <2>4. Root' = Root
    <3>1. Root = hidden
      BY <1>1, <1>4, RootIs
    <3>2. (CHOOSE g \in Handles : handles'[g].open) = h
      BY <2>3
    <3> QED BY <2>3, <3>1, <3>2 DEF Root
  <2>5. FileNow(lev)'
    BY <1>3, <2>1, <2>4
  <2> QED BY <1>1, <2>1, <2>2, <2>3, <2>5 DEF IndexInvariant
<1>5. ASSUME NEW h \in Handles, closeFile(h)
      PROVE  IndexInvariant'
  <2>1. /\ nodes' = nodes /\ hidden' = handles[h].root /\ handles[h].open
        /\ handles' = [handles EXCEPT ![h] = Closed]
    BY <1>5 DEF closeFile
  <2>2. handles' \in [Handles -> [open : BOOLEAN, root : 0..Len(nodes), count : Nat]]
    BY <1>1, <2>1 DEF Closed
  <2>3. \A g \in Handles : ~handles'[g].open
    BY <1>1, <2>1 DEF Closed
  <2>4. Root' = Root
    <3>1. Root = handles[h].root
      BY <1>1, <2>1, RootIs
    <3> QED BY <2>1, <2>3, <3>1 DEF Root
  <2>5. FileNow(lev)'
    BY <1>3, <2>1, <2>4
  <2>6. hidden' \in 0..Len(nodes)
    BY <1>1, <2>1
  <2> QED BY <1>1, <2>1, <2>2, <2>3, <2>5, <2>6 DEF IndexInvariant
<1>6. CASE UNCHANGED vars
  <2>1. nodes' = nodes /\ hidden' = hidden /\ handles' = handles
    BY <1>6 DEF vars
  <2>2. FileNow(lev)'
    BY <1>3, <2>1 DEF Root
  <2> QED BY <1>1, <2>1, <2>2 DEF IndexInvariant
<1> QED BY <1>4, <1>5, <1>6, InsertKeeps, DeleteKeeps DEF Next

\* The inductive invariant holds: whatever insertEntry and deleteEntry split, move and merge,
\* openFile and closeFile in between, and for every size of a page and all keys of four bytes.
THEOREM TreeInvariant ==
  ASSUME NumericKeys
  PROVE  Spec => []IndexInvariant
BY IndexInit, IndexStep, PTL DEF Spec

-----------------------------------------------------------------------------
(* What the invariant says of the pages. *)

\* The levels of the pages, and the tree at the root.
LEMMA LevelsNow ==
  ASSUME IndexInvariant
  PROVE  \E lev : FileNow(lev) /\ Leveled(nodes, lev)
<1>1. PICK lev : FileNow(lev)
  BY DEF IndexInvariant
<1> DEFINE v == [nodes |-> nodes, root |-> Root, count |-> Len(nodes) + 1]
<1>2. v.nodes = nodes /\ FileView(v, lev)
  BY <1>1 DEF FileNow
<1> HIDE DEF v
<1> QED BY <1>1, <1>2 DEF FileView

LEMMA TreeNow ==
  ASSUME NEW lev, FileNow(lev), Root # 0
  PROVE  \E L : Leveled(nodes, lev) /\ Tree(nodes, L, {Root}) /\ Keyed(nodes, L) /\ Root \in L
<1> DEFINE v == [nodes |-> nodes, root |-> Root, count |-> Len(nodes) + 1]
<1>1. v.nodes = nodes /\ v.root = Root /\ FileView(v, lev)
  BY DEF FileNow
<1> HIDE DEF v
<1>2. PICK L : GoodView(v, lev, L)
  BY <1>1 DEF FileView
<1>3. Leveled(nodes, lev) /\ Tree(nodes, L, {Root}) /\ Keyed(nodes, L)
  BY <1>1, <1>2 DEF GoodView
<1>4. Root \in L
  BY <1>3 DEF Tree
<1> QED BY <1>3, <1>4

\* Pointers and next pages stay inside the file, an internal page has one pointer more than
\* keys: no call of ix.cc follows a page number that is not one.
THEOREM IndexTypeCorrect ==
  ASSUME NumericKeys
  PROVE  Spec => []TypeOK
<1>1. ASSUME IndexInvariant PROVE TypeOK
  <2>1. PICK lev : Leveled(nodes, lev)
    BY <1>1, LevelsNow
  <2>2. DOMAIN nodes = 1..Len(nodes)
    BY <2>1 DEF Leveled
  <2>3. ASSUME NEW p \in 1..Len(nodes), nodes[p].leaf
        PROVE  nodes[p].entries \in Seq(Entry) /\ nodes[p].next \in 0..Len(nodes)
    <3>1. LeafFits(nodes[p]) /\ nodes[p].next \in 0..Len(nodes)
      BY <2>1, <2>3, PageIs
    <3> QED BY <3>1, LeafPage
  <2>4. ASSUME NEW p \in 1..Len(nodes), ~nodes[p].leaf
        PROVE  /\ nodes[p].keys \in Seq(Keys) /\ nodes[p].ptrs \in Seq(1..Len(nodes))
               /\ Len(nodes[p].ptrs) = Len(nodes[p].keys) + 1
    <3>1. InternalFits(nodes[p]) /\ \A i \in 1..Len(nodes[p].ptrs) : nodes[p].ptrs[i] \in 1..Len(nodes)
      BY <2>1, <2>4, PageIs
    <3>2. /\ nodes[p].keys \in Seq(Keys) /\ nodes[p].ptrs \in Seq(Nat)
          /\ Len(nodes[p].ptrs) = Len(nodes[p].keys) + 1
      BY <3>1, InternalPage
    <3>3. nodes[p].ptrs \in Seq(1..Len(nodes))
      <4> DEFINE s == nodes[p].ptrs
                 P == 1..Len(nodes)
      <4>1. s \in Seq(Nat) /\ \A i \in 1..Len(s) : s[i] \in P
        BY <3>1, <3>2
      <4> HIDE DEF s, P
      <4>2. s \in Seq(P)
        BY <4>1
      <4> QED BY <4>2 DEF s, P
    <3> QED BY <3>2, <3>3
  <2> QED BY <1>1, <2>2, <2>3, <2>4 DEF TypeOK, IndexInvariant
<1> QED BY <1>1, TreeInvariant, PTL

\* No split, rotation, merge or new separator writes beyond the end of a page, if all keys
\* are of four bytes, as integers and reals are.  (With VarChar keys some do: run overflow.)
THEOREM NoPageOverflows ==
  ASSUME NumericKeys
  PROVE  Spec => []PagesFit
<1>1. ASSUME IndexInvariant PROVE PagesFit
  <2>1. PICK lev : Leveled(nodes, lev)
    BY <1>1, LevelsNow
  <2>2. DOMAIN nodes = 1..Len(nodes)
    BY <2>1 DEF Leveled
  <2>3. ASSUME NEW p \in 1..Len(nodes)
        PROVE  Fso(nodes[p]) <= PAGE_SIZE
    <3>1. CASE nodes[p].leaf
      <4>1. LeafFits(nodes[p])
        BY <2>1, <3>1, PageIs
      <4>2. Fso(nodes[p]) = 16 + 10 * Len(nodes[p].entries)
        BY <4>1, FsoIs
      <4>3. 10 * Len(nodes[p].entries) <= PAGE_SIZE - 16 /\ Len(nodes[p].entries) \in Nat
        BY <4>1, LeafPage DEF Room, METADATA_SIZE
      <4> QED BY <4>2, <4>3, BTreeAssumption
    <3>2. CASE ~nodes[p].leaf
      <4>1. InternalFits(nodes[p])
        BY <2>1, <3>2, PageIs
      <4>2. Fso(nodes[p]) = 20 + 8 * Len(nodes[p].keys)
        BY <4>1, FsoIs
      <4>3. 4 + 8 * Len(nodes[p].keys) <= PAGE_SIZE - 16 /\ Len(nodes[p].keys) \in Nat
        BY <4>1, InternalPage DEF Room, METADATA_SIZE
      <4> QED BY <4>2, <4>3, BTreeAssumption
    <3> QED BY <3>1, <3>2
  <2> QED BY <2>2, <2>3 DEF PagesFit
<1> QED BY <1>1, TreeInvariant, PTL

\* All leaves are at one depth, and every internal page has keys: the sibling that
\* redistributeOrMergeEntries takes for an underflowing child exists.
THEOREM TreeStaysWellShaped ==
  ASSUME NumericKeys
  PROVE  Spec => []WellShaped
<1>1. ASSUME IndexInvariant PROVE WellShaped
  <2> SUFFICES ASSUME Root # 0, NEW p \in TreePages(Root), ~nodes[p].leaf
               PROVE  /\ nodes[p].keys # << >>
                      /\ \A q \in Children(p) : Height(q) = Height(nodes[p].ptrs[1])
    BY DEF WellShaped
  <2>1. PICK lev : FileNow(lev)
    BY <1>1 DEF IndexInvariant
  <2>2. PICK L : Leveled(nodes, lev) /\ Tree(nodes, L, {Root}) /\ Keyed(nodes, L) /\ Root \in L
    BY <2>1, TreeNow
  <2>3. p \in L /\ p \in 1..Len(nodes)
    <3>1. TreePages(Root) \subseteq L
      <4>1. L \subseteq 1..Len(nodes) /\ \A q \in L : Kids(nodes[q]) \subseteq L
        BY <2>2 DEF Tree
      <4> QED BY <2>2, <4>1, TreePagesIn
    <3> QED BY <2>2, <3>1 DEF Tree
  <2>4. nodes[p].keys # << >>
    <3>1. Len(nodes[p].keys) > 0
      BY <2>2, <2>3 DEF Keyed
    <3> QED BY <3>1
  <2>5. \A q \in Children(p) : Height(q) = lev[p]
    <3> SUFFICES ASSUME NEW q \in Children(p) PROVE Height(q) = lev[p]
      OBVIOUS
    <3>1. q \in 1..Len(nodes) /\ lev[q] = lev[p] - 1 /\ lev[p] \in Nat
      BY <2>2, <2>3, ChildrenAre
    <3>2. Height(q) = lev[q] + 1
      BY <2>2, <3>1, HeightIs
    <3> QED BY <3>1, <3>2
  <2>6. nodes[p].ptrs[1] \in Children(p)
    <3>1. InternalFits(nodes[p]) /\ Kids(nodes[p]) = InSeq(nodes[p].ptrs)
      BY <2>2, <2>3, PageIs
    <3>2. 1 \in DOMAIN nodes[p].ptrs
      <4>1. /\ nodes[p].ptrs \in Seq(Nat) /\ Len(nodes[p].ptrs) = Len(nodes[p].keys) + 1
            /\ Len(nodes[p].keys) \in Nat
        BY <3>1, InternalPage
      <4>2. DOMAIN nodes[p].ptrs = 1..Len(nodes[p].ptrs)
        BY <4>1
      <4> QED BY <4>1, <4>2
    <3>3. Children(p) = Kids(nodes[p])
      BY <2>2, <2>3, ChildrenAre
    <3> QED BY <3>1, <3>2, <3>3 DEF InSeq
  <2> QED BY <2>4, <2>5, <2>6
<1> QED BY <1>1, TreeInvariant, PTL

-----------------------------------------------------------------------------
(* Earlier roots. *)

\* The pages that start at the first leaf of the root before start at that of the root after.
RootsReach(ns, root, new, after) ==
  \A p \in 1..Len(ns) : First(ns, p) = First(ns, root) => First(new, p) = First(new, after)

\* Insertion: the old root is the first child of the new one.
LEMMA InsertReaches ==
  ASSUME NEW ns, NEW lev, Leveled(ns, lev), NEW root \in 1..Len(ns), NEW u, NEW lv,
         FileView(u, lv), u.root # 0, Len(ns) <= Len(u.nodes), After(ns, root, u)
  PROVE  RootsReach(ns, root, u.nodes, u.root)
<1> DEFINE new == u.nodes
<1>1. Leveled(new, lv) /\ u.root \in 1..Len(new)
  <2>1. u.root \in 0..Len(new) /\ Len(new) \in Nat
    BY RootIn
  <2> HIDE DEF new
  <2>2. u.root \in 1..Len(new)
    BY <2>1
  <2> QED BY <2>2 DEF FileView, new
<1>2. /\ HeadsBut(ns, new, 0) /\ Len(ns) <= Len(new)
      /\ u.root # root => ~new[u.root].leaf /\ new[u.root].ptrs[1] = root
  BY DEF After
<1> HIDE DEF new
<1>3. StillFirst(ns, new, root)
  <2>1. 0 \notin 1..Len(ns)
    BY DEF Leveled
  <2> QED BY <1>1, <1>2, <2>1, HeadsKept
<1>4. First(new, u.root) = First(new, root)
  <2>1. CASE u.root = root
    BY <2>1
  <2>2. CASE u.root # root
    <3>1. First(new, u.root) = First(new, new[u.root].ptrs[1])
      BY <1>1, <1>2, <2>2, FirstsAre
    <3> QED BY <1>2, <2>2, <3>1
  <2> QED BY <2>1, <2>2
<1>5. First(new, root) = First(ns, root)
  BY <1>3 DEF StillFirst
<1>6. RootsReach(ns, root, new, u.root)
  BY <1>3, <1>4, <1>5 DEF RootsReach, StillFirst
<1> QED BY <1>6 DEF new

\* Deletion: a root without keys gives way to its first child.
LEMMA DeleteReaches ==
  ASSUME NumericKeys, NEW t, NEW lev, FileView(t, lev), NEW e, LeafOf(t, e) # 0,
         shrinkRoot(del(t, e, LeafOf(t, e))).root # 0, t.root \in 1..Len(t.nodes)
  PROVE  RootsReach(t.nodes, t.root, shrinkRoot(del(t, e, LeafOf(t, e))).nodes,
                    shrinkRoot(del(t, e, LeafOf(t, e))).root)
<1> DEFINE u == del(t, e, LeafOf(t, e))
           w == shrinkRoot(u)
<1>1. /\ \E M : Rooted(u, lev, M)
      /\ Len(u.nodes) = Len(t.nodes) /\ u.root = t.root
      /\ StillFirst(t.nodes, u.nodes, t.root)
  BY DelIs
<1>2. w.root # 0
  OBVIOUS
<1> HIDE DEF u
<1>3. /\ w.nodes = u.nodes
      /\ w.root # 0 => First(u.nodes, w.root) = First(u.nodes, u.root)
  BY <1>1, ShrinkIs
<1> HIDE DEF w
<1>4. First(u.nodes, t.root) = First(t.nodes, t.root)
  BY <1>1 DEF StillFirst
<1>5. RootsReach(t.nodes, t.root, w.nodes, w.root)
  BY <1>1, <1>2, <1>3, <1>4 DEF RootsReach, StillFirst
<1> QED BY <1>5 DEF w, u

\* The file after a call that leaves the view t.
LEMMA NowBecomes ==
  ASSUME IndexInvariant, NEW h \in Handles, Current(h), NEW t, Becomes(h, t)
  PROVE  nodes' = t.nodes /\ Root' = t.root
<1>1. /\ handles \in [Handles -> [open : BOOLEAN, root : 0..Len(nodes), count : Nat]]
      /\ \A f, g \in Handles : handles[f].open /\ handles[g].open => f = g
      /\ handles[h].open
  BY DEF IndexInvariant, Current
<1>2. nodes' = t.nodes /\ handles' = [handles EXCEPT ![h].root = t.root, ![h].count = t.count]
  BY DEF Becomes
<1>3. /\ \A g \in Handles : handles'[g].open = handles[g].open
      /\ handles'[h].root = t.root
  BY <1>1, <1>2
<1>4. (CHOOSE g \in Handles : handles'[g].open) = h
  BY <1>1, <1>3
<1> QED BY <1>1, <1>2, <1>3, <1>4 DEF Root

\* A call that opens or closes a handle leaves the pages and the root as they are.
LEMMA SameRoot ==
  ASSUME IndexInvariant, NEW h \in Handles,
         ((\A g \in Handles : ~handles[g].open) /\ openFile(h)) \/ closeFile(h)
  PROVE  nodes' = nodes /\ Root' = Root
<1>1. /\ handles \in [Handles -> [open : BOOLEAN, root : 0..Len(nodes), count : Nat]]
      /\ \A f, g \in Handles : handles[f].open /\ handles[g].open => f = g
  BY DEF IndexInvariant
<1>2. CASE (\A g \in Handles : ~handles[g].open) /\ openFile(h)
  <2>1. /\ nodes' = nodes
        /\ handles' = [handles EXCEPT
             ![h] = [open |-> TRUE, root |-> hidden, count |-> Len(nodes) + 1]]
    BY <1>2 DEF openFile
  <2>2. /\ handles'[h] = [open |-> TRUE, root |-> hidden, count |-> Len(nodes) + 1]
        /\ \A g \in Handles : handles'[g].open => g = h
    BY <1>1, <1>2, <2>1
  <2>3. Root = hidden
    BY <1>1, <1>2, RootIs
  <2>4. (CHOOSE g \in Handles : handles'[g].open) = h
    BY <2>2
  <2> QED BY <2>1, <2>2, <2>3, <2>4 DEF Root
<1>3. CASE closeFile(h)
  <2>1. /\ nodes' = nodes /\ hidden' = handles[h].root /\ handles[h].open
        /\ handles' = [handles EXCEPT ![h] = Closed]
    BY <1>3 DEF closeFile
  <2>2. \A g \in Handles : ~handles'[g].open
    BY <1>1, <2>1 DEF Closed
  <2>3. Root = handles[h].root
    BY <1>1, <2>1, RootIs
  <2> QED BY <2>1, <2>2, <2>3 DEF Root
<1> QED BY <1>2, <1>3

\* What EarlierRootsReach says of one step.
StepReaches ==
  \A p \in DOMAIN nodes :
    Root # 0 /\ Root' # 0 /\ FirstLeaf(p) = FirstLeaf(Root) => FirstLeaf(p)' = FirstLeaf(Root)'

\* In terms of the pages.
LEMMA StepReachesIs ==
  ASSUME IndexInvariant,
         Root # 0 /\ Root' # 0 => RootsReach(nodes, Root, nodes', Root')
  PROVE  StepReaches
<1>1. DOMAIN nodes = 1..Len(nodes)
  BY DEF IndexInvariant
<1>2. /\ \A p : FirstLeaf(p) = First(nodes, p)
      /\ \A p : FirstLeaf(p)' = First(nodes', p)
      /\ FirstLeaf(Root)' = First(nodes', Root')
  BY DEF FirstLeaf, First, Path
<1> QED BY <1>1, <1>2 DEF StepReaches, RootsReach

\* Every step is one of these.
LEMMA EveryStepReaches ==
  ASSUME NumericKeys, IndexInvariant, [Next]_vars
  PROVE  StepReaches
<1> SUFFICES ASSUME Root # 0, Root' # 0 PROVE RootsReach(nodes, Root, nodes', Root')
  BY StepReachesIs
<1>1. ASSUME nodes' = nodes, Root' = Root PROVE RootsReach(nodes, Root, nodes', Root')
  BY <1>1 DEF RootsReach
<1>2. ASSUME NEW h \in Handles, NEW e \in Entry, insertEntry(h, e)
      PROVE  RootsReach(nodes, Root, nodes', Root')
  <2> DEFINE v == ViewOf(h)
             t == InsertEntry(v, e)
  <2>1. Current(h) /\ Becomes(h, t)
    BY <1>2 DEF insertEntry
  <2>2. PICK lev : FileView(v, lev) /\ v.nodes = nodes
    BY <2>1, NowIs
  <2>3. v.root = Root
    BY <2>1, RootIs DEF IndexInvariant, Current, ViewOf
  <2> HIDE DEF v
  <2>4. PICK lv, M : LargeView(t, lv, M, Len(nodes))
    BY <1>2, <2>2, InsertEntryIs
  <2>5. After(nodes, Root, t)
    BY <1>2, <2>2, <2>3, InsertEntryIs
  <2> HIDE DEF t
  <2>6. FileView(t, lv) /\ Len(nodes) <= Len(t.nodes)
    BY <2>4, GoodIsFile
  <2>7. nodes' = t.nodes /\ Root' = t.root
    BY <2>1, NowBecomes
  <2>8. Leveled(nodes, lev) /\ Root \in 1..Len(nodes)
    <3>1. v.root \in 0..Len(v.nodes) /\ Len(v.nodes) \in Nat
      BY <2>2, RootIn
    <3> QED BY <2>2, <2>3, <3>1 DEF FileView
  <2>9. RootsReach(nodes, Root, t.nodes, t.root)
    BY <2>5, <2>6, <2>7, <2>8, InsertReaches
  <2> QED BY <2>7, <2>9
<1>3. ASSUME NEW h \in Handles, NEW e \in Entry, deleteEntry(h, e)
      PROVE  RootsReach(nodes, Root, nodes', Root')
  <2> DEFINE v == ViewOf(h)
             t == shrinkRoot(del(v, e, LeafOf(v, e)))
  <2>1. Current(h) /\ Becomes(h, t) /\ LeafOf(v, e) # 0
    BY <1>3 DEF deleteEntry
  <2>2. PICK lev : FileView(v, lev) /\ v.nodes = nodes
    BY <2>1, NowIs
  <2>3. v.root = Root
    BY <2>1, RootIs DEF IndexInvariant, Current, ViewOf
  <2> HIDE DEF v
  <2>4. v.root \in 1..Len(v.nodes)
    <3>1. v.root \in 0..Len(v.nodes) /\ Len(v.nodes) \in Nat
      BY <2>2, RootIn
    <3> QED BY <2>3, <3>1
  <2>5. nodes' = t.nodes /\ Root' = t.root
    BY <2>1, NowBecomes
  <2>6. RootsReach(v.nodes, v.root, t.nodes, t.root)
    BY <2>1, <2>2, <2>4, <2>5, DeleteReaches
  <2> QED BY <2>2, <2>3, <2>5, <2>6
<1>4. CASE UNCHANGED vars
  <2>1. nodes' = nodes /\ hidden' = hidden /\ handles' = handles
    BY <1>4 DEF vars
  <2>2. Root' = Root
    BY <2>1 DEF Root
  <2> QED BY <1>1, <2>1, <2>2
<1>5. ASSUME NEW h \in Handles,
             ((\A g \in Handles : ~handles[g].open) /\ openFile(h)) \/ closeFile(h)
      PROVE  RootsReach(nodes, Root, nodes', Root')
  <2>1. nodes' = nodes /\ Root' = Root
    BY <1>5, SameRoot
  <2> QED BY <1>1, <2>1
<1> QED BY <1>2, <1>3, <1>4, <1>5 DEF Next

\* A page from which a scan starts at the first leaf of the tree keeps doing so, whatever
\* becomes of the root: a root number that closeFile has not stored stays good for reading.
THEOREM EarlierRootsStillReach ==
  ASSUME NumericKeys
  PROVE  Spec => EarlierRootsReach
<1>1. IndexInvariant /\ [Next]_vars => [StepReaches]_vars
  BY EveryStepReaches
<1>2. Spec => [][StepReaches]_vars
  BY <1>1, TreeInvariant, PTL DEF Spec
<1> QED BY <1>2 DEF EarlierRootsReach, StepReaches
=============================================================================
