---------------------------- MODULE IndexProofs -----------------------------
(***************************************************************************)
(* The tree, its chain of leaves and its entries.  A picture of the file   *)
(* puts the pages of the tree in rows, one below the other, in which each  *)
(* page stands next to the one its chain or its parent goes on to, and     *)
(* shares the entries of the index out to the leaves.  Clients whose       *)
(* insertions find room next to the page they split change the picture in  *)
(* one place; so the chain of next pointers visits the leaves in the order *)
(* of the tree, and each call adds or removes the entry it was given and   *)
(* no other.                                                               *)
(***************************************************************************)
EXTENDS BTreeProofs, FiniteSetTheorems

-----------------------------------------------------------------------------
(* Rows of pages. *)

\* The sequence s is a followed by b.
Parts(s, a, b) == /\ Len(s) = Len(a) + Len(b)
                  /\ \A i \in 1..Len(a) : s[i] = a[i]
                  /\ \A i \in 1..Len(b) : s[Len(a) + i] = b[i]

\* The sequence v is s with x at a position.
IsInsertion(v, s, at, x) == /\ Len(v) = Len(s) + 1 /\ v[at] = x
                            /\ \A i \in 1..Len(s) + 1 : /\ i < at => v[i] = s[i]
                                                        /\ i > at => v[i] = s[i - 1]

\* The sequence v is s without the element at a position.
IsRemoval(v, s, at) == /\ Len(v) = Len(s) - 1
                       /\ \A i \in 1..Len(s) - 1 : v[i] = IF i < at THEN s[i] ELSE s[i + 1]

\* The page right of the i-th child of page p.
Beside(kids, right, p, i) ==
  IF i < Len(kids[p]) THEN kids[p][i + 1]
  ELSE IF right[p] = 0 THEN 0 ELSE kids[right[p]][1]

\* The pages L of a tree in rows: kids[p] are the children of page p, none for a leaf, and
\* right[p] is the page right of p at its level, or 0.  Page 0 is above the root.
Typed(L, kids) == L \subseteq Nat \ {0} /\ kids \in [L \cup {0} -> Seq(L)]

\* Every page of the tree is a child at exactly one place.
Placed(L, kids) ==
  /\ Typed(L, kids)
  /\ \A q \in L : \E p \in L \cup {0} : \E i \in 1..Len(kids[p]) : kids[p][i] = q
  /\ \A p, q \in L \cup {0} : \A i \in 1..Len(kids[p]), j \in 1..Len(kids[q]) :
        kids[p][i] = kids[q][j] => p = q /\ i = j

\* The page right of a child is the one beside it, and leaves have leaves beside them.
Rows(L, kids, right) ==
  /\ right \in [L \cup {0} -> L \cup {0}] /\ right[0] = 0
  /\ \A p \in L \cup {0} : \A i \in 1..Len(kids[p]) :
        right[kids[p][i]] = Beside(kids, right, p, i)
  /\ \A p \in L : right[p] # 0 => (Len(kids[p]) = 0 <=> Len(kids[right[p]]) = 0)
  /\ \A p, q \in L : right[p] = right[q] /\ right[p] # 0 => p = q

\* A page c split into c, which keeps m children, and x, behind it below its parent P.
SplitRows(L, kids, c, x, P, j, m, new) ==
  /\ c \in L /\ x \in Nat \ {0} /\ x \notin L /\ P \in L \cup {0} /\ P # c
  /\ j \in 1..Len(kids[P]) /\ kids[P][j] = c
  /\ new \in [L \cup {x, 0} -> Seq(L \cup {x})]
  /\ Len(new[c]) = m /\ Parts(kids[c], new[c], new[x]) /\ (Len(new[c]) = 0 <=> Len(new[x]) = 0)
  /\ IsInsertion(new[P], kids[P], j + 1, x)
  /\ \A p \in L \cup {0} : p # c /\ p # P => new[p] = kids[p]

\* The new page stands between the one split and the page right of that.
SplitRight(right, L, c, x) ==
  [p \in L \cup {x, 0} |-> IF p = c THEN x ELSE IF p = x THEN right[c] ELSE right[p]]

\* What a sequence over a set is.
LEMMA SeqFacts ==
  ASSUME NEW S, NEW s \in Seq(S)
  PROVE  Len(s) \in Nat /\ \A i \in 1..Len(s) : s[i] \in S
OBVIOUS

\* Where the child at place i of page p is after the split.
SplitPage(c, x, m, p, i)  == IF p = c /\ i > m THEN x ELSE p
SplitPlace(c, P, m, j, p, i) ==
  IF p = c THEN IF i > m THEN i - m ELSE i ELSE IF p = P /\ i > j THEN i + 1 ELSE i

\* Every place but that of the new page comes from one before.
LEMMA SplitPlaces ==
  ASSUME NEW L, NEW kids, Typed(L, kids), NEW c, NEW x, NEW P, NEW j, NEW m, NEW new,
         SplitRows(L, kids, c, x, P, j, m, new)
  PROVE  /\ \A p \in L \cup {0} : \A i \in 1..Len(kids[p]) :
              /\ SplitPage(c, x, m, p, i) \in L \cup {x, 0}
              /\ SplitPlace(c, P, m, j, p, i) \in 1..Len(new[SplitPage(c, x, m, p, i)])
              /\ new[SplitPage(c, x, m, p, i)][SplitPlace(c, P, m, j, p, i)] = kids[p][i]
         /\ \A p \in L \cup {x, 0} : \A i \in 1..Len(new[p]) :
              \/ p = P /\ i = j + 1 /\ new[p][i] = x
              \/ \E q \in L \cup {0} : \E k \in 1..Len(kids[q]) :
                   /\ kids[q][k] = new[p][i]
                   /\ p = SplitPage(c, x, m, q, k) /\ i = SplitPlace(c, P, m, j, q, k)
<1>1. /\ c \in L /\ x \in Nat \ {0} /\ x \notin L /\ P \in L \cup {0} /\ P # c /\ 0 \notin L
      /\ j \in 1..Len(kids[P]) /\ kids[P][j] = c
      /\ new \in [L \cup {x, 0} -> Seq(L \cup {x})]
      /\ \A p \in L \cup {0} : p # c /\ p # P => new[p] = kids[p]
  BY DEF SplitRows, Placed, Typed
<1>2. /\ \A p \in L \cup {0} : Len(kids[p]) \in Nat
      /\ \A p \in L \cup {x, 0} : Len(new[p]) \in Nat
  BY <1>1, SeqFacts DEF Placed, Typed
<1>3. /\ Len(kids[c]) = m + Len(new[x])
      /\ \A i \in 1..m : kids[c][i] = new[c][i]
      /\ \A i \in 1..Len(new[x]) : kids[c][m + i] = new[x][i]
  BY DEF SplitRows, Parts
<1>4. /\ Len(new[P]) = Len(kids[P]) + 1 /\ new[P][j + 1] = x
      /\ \A i \in 1..Len(kids[P]) + 1 : /\ i < j + 1 => new[P][i] = kids[P][i]
                                        /\ i > j + 1 => new[P][i] = kids[P][i - 1]
  BY DEF SplitRows, IsInsertion
<1>5. m \in Nat /\ Len(new[x]) \in Nat /\ Len(new[P]) \in Nat /\ Len(kids[P]) \in Nat /\ j \in Nat
  BY <1>1, <1>2 DEF SplitRows
<1>6. ASSUME NEW p \in L \cup {0}, NEW i \in 1..Len(kids[p])
      PROVE  /\ SplitPage(c, x, m, p, i) \in L \cup {x, 0}
             /\ SplitPlace(c, P, m, j, p, i) \in 1..Len(new[SplitPage(c, x, m, p, i)])
             /\ new[SplitPage(c, x, m, p, i)][SplitPlace(c, P, m, j, p, i)] = kids[p][i]
  <2>1. CASE p = c /\ i > m
    <3>2. i \in 1..m + Len(new[x])
      BY <1>3, <2>1
    <3>3. i - m \in 1..Len(new[x]) /\ m + (i - m) = i
      BY <1>5, <2>1, <3>2
    <3>1. kids[c][m + (i - m)] = new[x][i - m]
      BY <1>3, <3>3
    <3> QED BY <1>1, <2>1, <3>1, <3>3 DEF SplitPage, SplitPlace
  <2>2. CASE p = c /\ ~(i > m)
    <3>1. i \in 1..m
      BY <1>2, <1>3, <1>5, <1>6, <2>2
    <3>2. i \in 1..Len(new[c])
      BY <3>1 DEF SplitRows
    <3> QED BY <1>1, <1>3, <2>2, <3>1, <3>2 DEF SplitPage, SplitPlace
  <2>3. CASE p = P
    <3>1. i \in 1..Len(kids[P]) /\ (i > j => i + 1 \in 1..Len(kids[P]) + 1 /\ (i + 1) - 1 = i)
      BY <1>5, <1>6, <2>3
    <3> QED BY <1>1, <1>4, <1>5, <2>3, <3>1, SMTT(40) DEF SplitPage, SplitPlace
  <2>4. CASE p # c /\ p # P
    BY <1>1, <1>6, <2>4 DEF SplitPage, SplitPlace
  <2> QED BY <2>1, <2>2, <2>3, <2>4
<1>7. ASSUME NEW p \in L \cup {x, 0}, NEW i \in 1..Len(new[p])
      PROVE  \/ p = P /\ i = j + 1 /\ new[p][i] = x
             \/ \E q \in L \cup {0} : \E k \in 1..Len(kids[q]) :
                  /\ kids[q][k] = new[p][i]
                  /\ p = SplitPage(c, x, m, q, k) /\ i = SplitPlace(c, P, m, j, q, k)
  <2>1. CASE p = x
    <3>1. i \in 1..Len(new[x])
      BY <2>1
    <3>2. m + i \in 1..m + Len(new[x]) /\ m + i > m /\ (m + i) - m = i
      BY <1>5, <3>1
    <3>3. m + i \in 1..Len(kids[c]) /\ kids[c][m + i] = new[x][i]
      BY <1>3, <3>1, <3>2
    <3> QED BY <1>1, <2>1, <3>2, <3>3 DEF SplitPage, SplitPlace
  <2>2. CASE p = c
    <3>2. i \in 1..m
      BY <2>2 DEF SplitRows
    <3>1. i \in 1..m /\ i \in 1..Len(kids[c]) /\ ~(i > m)
      BY <1>3, <1>5, <3>2
    <3> QED BY <1>1, <1>3, <2>2, <3>1 DEF SplitPage, SplitPlace
  <2>3. CASE p = P /\ i <= j
    <3>1. i \in 1..Len(kids[P]) /\ i \in 1..Len(kids[P]) + 1 /\ i < j + 1 /\ ~(i > j)
      BY <1>1, <1>4, <1>5, <1>7, <2>3
    <3> QED BY <1>1, <1>4, <2>3, <3>1 DEF SplitPage, SplitPlace
  <2>4. CASE p = P /\ i > j + 1
    <3>1. i - 1 \in 1..Len(kids[P]) /\ i \in 1..Len(kids[P]) + 1 /\ i - 1 > j /\ (i - 1) + 1 = i
      BY <1>1, <1>4, <1>5, <1>7, <2>4
    <3> QED BY <1>1, <1>4, <2>4, <3>1 DEF SplitPage, SplitPlace
  <2>5. CASE p = P /\ i = j + 1
    BY <1>4, <2>5
  <2>6. CASE p # c /\ p # P /\ p # x
    BY <1>1, <1>7, <2>6 DEF SplitPage, SplitPlace
  <2> QED BY <1>5, <1>7, <2>1, <2>2, <2>3, <2>4, <2>5, <2>6
<1> QED BY <1>6, <1>7

\* Every page still has one place after a split.
LEMMA SplitPlaced ==
  ASSUME NEW L, NEW kids, Placed(L, kids), NEW c, NEW x, NEW P, NEW j, NEW m, NEW new,
         SplitRows(L, kids, c, x, P, j, m, new)
  PROVE  Placed(L \cup {x}, new)
<1> DEFINE pg(p, i) == SplitPage(c, x, m, p, i)
           pl(p, i) == SplitPlace(c, P, m, j, p, i)
<1>1. /\ c \in L /\ x \in Nat \ {0} /\ x \notin L /\ P \in L \cup {0}
      /\ new \in [L \cup {x, 0} -> Seq(L \cup {x})] /\ L \subseteq Nat \ {0}
      /\ (L \cup {x}) \cup {0} = L \cup {x, 0}
  BY DEF SplitRows, Placed, Typed
<1>2. /\ j + 1 \in 1..Len(new[P]) /\ new[P][j + 1] = x
  BY SeqFacts DEF SplitRows, IsInsertion, Placed, Typed
<1>3. \A p \in L \cup {0} : \A i \in 1..Len(kids[p]) :
        /\ pg(p, i) \in L \cup {x, 0} /\ pl(p, i) \in 1..Len(new[pg(p, i)])
        /\ new[pg(p, i)][pl(p, i)] = kids[p][i]
  BY SplitPlaces DEF Placed
<1>4. \A p \in L \cup {x, 0} : \A i \in 1..Len(new[p]) :
         \/ p = P /\ i = j + 1 /\ new[p][i] = x
         \/ \E q \in L \cup {0} : \E k \in 1..Len(kids[q]) :
              kids[q][k] = new[p][i] /\ p = pg(q, k) /\ i = pl(q, k)
  BY SplitPlaces DEF Placed
<1>5. /\ \A q \in L : \E p \in L \cup {0} : \E i \in 1..Len(kids[p]) : kids[p][i] = q
      /\ \A p, q \in L \cup {0} : \A i \in 1..Len(kids[p]), k \in 1..Len(kids[q]) :
            kids[p][i] = kids[q][k] => p = q /\ i = k
      /\ \A p \in L \cup {0} : \A i \in 1..Len(kids[p]) : kids[p][i] \in L
  BY SeqFacts DEF Placed, Typed
<1> HIDE DEF pg, pl
<1>6. ASSUME NEW q \in L \cup {x}
      PROVE  \E p \in L \cup {x, 0} : \E i \in 1..Len(new[p]) : new[p][i] = q
  <2>1. CASE q = x
    BY <1>1, <1>2, <2>1
  <2>2. CASE q \in L
    <3>1. PICK p \in L \cup {0} : \E i \in 1..Len(kids[p]) : kids[p][i] = q
      BY <1>5, <2>2
    <3>2. PICK i \in 1..Len(kids[p]) : kids[p][i] = q
      BY <3>1
    <3>3. /\ pg(p, i) \in L \cup {x, 0} /\ pl(p, i) \in 1..Len(new[pg(p, i)])
          /\ new[pg(p, i)][pl(p, i)] = q
      BY <1>3, <3>2
    <3> QED BY <3>3
  <2> QED BY <2>1, <2>2
<1>7. ASSUME NEW p \in L \cup {x, 0}, NEW q \in L \cup {x, 0},
             NEW i \in 1..Len(new[p]), NEW k \in 1..Len(new[q]), new[p][i] = new[q][k]
      PROVE  p = q /\ i = k
  <2>1. CASE new[p][i] = x
    <3>1. \A a \in L \cup {0} : \A b \in 1..Len(kids[a]) : kids[a][b] # x
      BY <1>1, <1>5
    <3>2. p = P /\ i = j + 1
      BY <1>4, <2>1, <3>1
    <3>3. q = P /\ k = j + 1
      <4>1. new[q][k] = x
        BY <1>7, <2>1
      <4> QED BY <1>4, <3>1, <4>1
    <3> QED BY <3>2, <3>3
  <2>2. CASE new[p][i] # x
    <3>1. PICK a \in L \cup {0} : \E b \in 1..Len(kids[a]) :
            kids[a][b] = new[p][i] /\ p = pg(a, b) /\ i = pl(a, b)
      BY <1>4, <2>2
    <3>2. PICK d \in L \cup {0} : \E f \in 1..Len(kids[d]) :
            kids[d][f] = new[q][k] /\ q = pg(d, f) /\ k = pl(d, f)
      BY <1>4, <1>7, <2>2
    <3>3. PICK b \in 1..Len(kids[a]) : kids[a][b] = new[p][i] /\ p = pg(a, b) /\ i = pl(a, b)
      BY <3>1
    <3>4. PICK f \in 1..Len(kids[d]) : kids[d][f] = new[q][k] /\ q = pg(d, f) /\ k = pl(d, f)
      BY <3>2
    <3>5. a = d /\ b = f
      BY <1>5, <1>7, <3>3, <3>4
    <3> QED BY <3>3, <3>4, <3>5
  <2> QED BY <2>1, <2>2
<1> QED BY <1>1, <1>6, <1>7 DEF Placed, Typed

\* Where the next page stands after the split.
LEMMA SplitRowsKept ==
  ASSUME NEW L, NEW kids, Placed(L, kids), NEW right, Rows(L, kids, right),
         NEW c, NEW x, NEW P, NEW j, NEW m, NEW new,
         SplitRows(L, kids, c, x, P, j, m, new)
  PROVE  Rows(L \cup {x}, new, SplitRight(right, L, c, x))
<1> DEFINE r == SplitRight(right, L, c, x)
<1>1. /\ c \in L /\ x \in Nat \ {0} /\ x \notin L /\ P \in L \cup {0} /\ P # c /\ 0 \notin L
      /\ j \in 1..Len(kids[P]) /\ kids[P][j] = c /\ (Len(new[c]) = 0 <=> Len(new[x]) = 0)
      /\ \A p \in L \cup {0} : p # c /\ p # P => new[p] = kids[p]
      /\ (L \cup {x}) \cup {0} = L \cup {x, 0}
  BY DEF SplitRows, Placed, Typed
<1>2. /\ \A p \in L \cup {0} : Len(kids[p]) \in Nat
      /\ \A p \in L \cup {x, 0} : Len(new[p]) \in Nat
      /\ \A p \in L \cup {0} : \A i \in 1..Len(kids[p]) : kids[p][i] \in L
  BY SeqFacts DEF Placed, Typed, SplitRows
<1>3. /\ Len(new[c]) = m /\ Len(kids[c]) = m + Len(new[x])
      /\ \A i \in 1..m : kids[c][i] = new[c][i]
      /\ \A i \in 1..Len(new[x]) : kids[c][m + i] = new[x][i]
  BY DEF SplitRows, Parts
<1>4. /\ Len(new[P]) = Len(kids[P]) + 1 /\ new[P][j + 1] = x
      /\ \A i \in 1..Len(kids[P]) + 1 : /\ i < j + 1 => new[P][i] = kids[P][i]
                                        /\ i > j + 1 => new[P][i] = kids[P][i - 1]
  BY DEF SplitRows, IsInsertion
<1>5. m \in Nat /\ Len(new[x]) \in Nat /\ Len(new[P]) \in Nat /\ Len(kids[P]) \in Nat /\ j \in Nat
  BY <1>1, <1>2, <1>3
<1>6. /\ right \in [L \cup {0} -> L \cup {0}] /\ right[0] = 0
      /\ \A p \in L \cup {0} : \A i \in 1..Len(kids[p]) :
            right[kids[p][i]] = Beside(kids, right, p, i)
      /\ \A p \in L : right[p] # 0 => (Len(kids[p]) = 0 <=> Len(kids[right[p]]) = 0)
      /\ \A p, q \in L : right[p] = right[q] /\ right[p] # 0 => p = q
  BY DEF Rows
<1>7. /\ r \in [L \cup {x, 0} -> L \cup {x, 0}] /\ r[0] = 0 /\ r[c] = x /\ r[x] = right[c]
      /\ \A p \in L : p # c => r[p] = right[p]
  BY <1>1, <1>6 DEF SplitRight
<1> HIDE DEF r
\* No page but x gets another first child.
<1>8. \A p \in L \cup {0} : /\ Len(kids[p]) = 0 <=> Len(new[p]) = 0
                            /\ Len(kids[p]) # 0 => new[p][1] = kids[p][1]
  <2>1. Len(kids[c]) = 0 <=> Len(new[c]) = 0
    BY <1>1, <1>3, <1>5
  <2>2. Len(kids[c]) # 0 => new[c][1] = kids[c][1]
    <3>1. Len(kids[c]) # 0 => 1 \in 1..m
      BY <1>3, <1>5, <2>1
    <3> QED BY <1>3, <3>1
  <2>3. Len(kids[P]) # 0 /\ Len(new[P]) # 0
    BY <1>1, <1>4, <1>5
  <2>4. new[P][1] = kids[P][1]
    <3>1. 1 \in 1..Len(kids[P]) + 1 /\ 1 < j + 1
      BY <1>1, <1>5
    <3> QED BY <1>4, <3>1
  <2> QED BY <1>1, <2>1, <2>2, <2>3, <2>4
\* The children keep their places in the row.
<1>9. \A p \in L \cup {0} : \A i \in 1..Len(kids[p]) :
         p # P \/ i # j => kids[p][i] # c /\ r[kids[p][i]] = Beside(kids, right, p, i)
  <2> SUFFICES ASSUME NEW p \in L \cup {0}, NEW i \in 1..Len(kids[p]), p # P \/ i # j
               PROVE  kids[p][i] # c /\ r[kids[p][i]] = Beside(kids, right, p, i)
    OBVIOUS
  <2>1. kids[p][i] # c
    BY <1>1 DEF Placed
  <2> QED BY <1>2, <1>6, <1>7, <2>1
<1>10. ASSUME NEW p \in L \cup {x, 0}, NEW i \in 1..Len(new[p])
       PROVE  r[new[p][i]] = Beside(new, r, p, i)
  <2>1. CASE p = x
    <3>1. i \in 1..Len(new[x])
      BY <2>1
    <3>2. m + i \in 1..Len(kids[c]) /\ (m + i < Len(kids[c]) <=> i < Len(new[x]))
      BY <1>3, <1>5, <3>1
    <3>3. new[x][i] = kids[c][m + i] /\ r[new[x][i]] = Beside(kids, right, c, m + i)
      BY <1>1, <1>3, <1>9, <3>1, <3>2
    <3>4. CASE i < Len(new[x])
      <4>1. i + 1 \in 1..Len(new[x]) /\ m + (i + 1) = (m + i) + 1
        BY <1>5, <3>1, <3>4
      <4>2. kids[c][(m + i) + 1] = new[x][i + 1]
        BY <1>3, <4>1
      <4> QED BY <2>1, <3>2, <3>3, <3>4, <4>2 DEF Beside
    <3>5. CASE ~(i < Len(new[x]))
      <4>1. Beside(kids, right, c, m + i) = IF right[c] = 0 THEN 0 ELSE kids[right[c]][1]
        BY <3>2, <3>5 DEF Beside
      <4>2. Beside(new, r, x, i) = IF right[c] = 0 THEN 0 ELSE new[right[c]][1]
        BY <1>7, <3>5 DEF Beside
      <4>3. right[c] # 0 => Len(kids[right[c]]) # 0 /\ right[c] \in L
        <5>1. Len(kids[c]) # 0
          BY <1>3, <1>5, <3>1
        <5> QED BY <1>1, <1>6, <5>1
      <4>4. right[c] # 0 => new[right[c]][1] = kids[right[c]][1]
        BY <1>8, <4>3
      <4>5. Beside(new, r, x, i) = Beside(kids, right, c, m + i)
        BY <4>1, <4>2, <4>4
      <4> QED BY <2>1, <3>3, <4>5
    <3> QED BY <3>4, <3>5
  <2>2. CASE p = c
    <3>1. i \in 1..m /\ i \in 1..Len(kids[c])
      BY <1>3, <1>5, <2>2
    <3>2. new[c][i] = kids[c][i] /\ r[new[c][i]] = Beside(kids, right, c, i)
      BY <1>1, <1>3, <1>9, <3>1
    <3>3. i < Len(kids[c]) /\ i + 1 \in 1..Len(kids[c])
      BY <1>1, <1>3, <1>5, <3>1
    <3>4. Beside(kids, right, c, i) = kids[c][i + 1]
      BY <3>3 DEF Beside
    <3>5. CASE i < m
      <4>1. i + 1 \in 1..m
        BY <1>5, <3>1, <3>5
      <4> QED BY <1>3, <2>2, <3>2, <3>4, <3>5, <4>1 DEF Beside
    <3>6. CASE ~(i < m)
      <4>1. i + 1 = m + 1 /\ 1 \in 1..Len(new[x])
        BY <1>1, <1>3, <1>5, <3>1, <3>6
      <4>2. kids[c][i + 1] = new[x][1]
        BY <1>3, <4>1
      <4> QED BY <1>1, <1>3, <1>7, <2>2, <3>2, <3>4, <3>6, <4>2 DEF Beside
    <3> QED BY <3>5, <3>6
  <2>3. CASE p = P
    <3>1. i \in 1..Len(kids[P]) + 1
      BY <1>4, <2>3
    <3>2. P # x /\ r[P] = right[P]
      BY <1>1, <1>6, <1>7
    \* What is behind place k of the parent was behind place k - 1.
    <3>3. ASSUME NEW k \in j + 1..Len(kids[P]) + 1
          PROVE  Beside(new, r, P, k) = Beside(kids, right, P, k - 1)
      <4>1. k \in Int /\ k <= Len(kids[P]) + 1 /\ k >= j + 1
        BY <1>5
      <4>2. CASE k < Len(kids[P]) + 1
        <5>1. k + 1 \in 1..Len(kids[P]) + 1 /\ k + 1 > j + 1 /\ (k + 1) - 1 = (k - 1) + 1
              /\ k - 1 < Len(kids[P])
          BY <1>1, <1>5, <4>1, <4>2
        <5>2. new[P][k + 1] = kids[P][(k - 1) + 1]
          BY <1>4, <5>1
        <5> QED BY <1>4, <4>2, <5>1, <5>2 DEF Beside
      <4>3. CASE ~(k < Len(kids[P]) + 1)
        <5>1. ~(k - 1 < Len(kids[P])) /\ ~(k < Len(new[P]))
          BY <1>4, <1>5, <4>1, <4>3
        <5>2. right[P] # 0 => right[P] \in L /\ P \in L /\ Len(kids[right[P]]) # 0
          <6>1. Len(kids[P]) # 0
            BY <1>1, <1>5
          <6> QED BY <1>1, <1>6, <6>1
        <5>3. right[P] # 0 => new[right[P]][1] = kids[right[P]][1]
          BY <1>8, <5>2
        <5>4. Beside(new, r, P, k) = IF right[P] = 0 THEN 0 ELSE new[right[P]][1]
          BY <3>2, <5>1 DEF Beside
        <5>5. Beside(kids, right, P, k - 1) = IF right[P] = 0 THEN 0 ELSE kids[right[P]][1]
          BY <5>1 DEF Beside
        <5> QED BY <5>3, <5>4, <5>5
      <4> QED BY <4>2, <4>3
    <3>4. CASE i < j
      <4>1. i \in 1..Len(kids[P]) /\ i + 1 \in 1..Len(kids[P]) + 1 /\ i + 1 < j + 1 /\ i < j + 1
            /\ i < Len(kids[P]) /\ i < Len(new[P]) /\ i # j
        BY <1>1, <1>4, <1>5, <3>1, <3>4
      <4>2. new[P][i] = kids[P][i] /\ new[P][i + 1] = kids[P][i + 1]
        BY <1>4, <3>1, <4>1
      <4>3. r[kids[P][i]] = Beside(kids, right, P, i)
        BY <1>1, <1>9, <4>1
      <4> QED BY <2>3, <4>1, <4>2, <4>3 DEF Beside
    <3>5. CASE i = j
      <4>1. i < j + 1 /\ i < Len(new[P])
        BY <1>1, <1>4, <1>5, <3>5
      <4>2. new[P][i] = c
        BY <1>1, <1>4, <3>1, <3>5, <4>1
      <4> QED BY <1>4, <1>7, <2>3, <3>5, <4>1, <4>2 DEF Beside
    <3>6. CASE i = j + 1
      <4>1. i \in j + 1..Len(kids[P]) + 1 /\ i - 1 = j
        BY <1>1, <1>5, <3>1, <3>6
      <4>2. Beside(new, r, P, i) = Beside(kids, right, P, j)
        BY <3>3, <4>1
      <4>3. right[c] = Beside(kids, right, P, j)
        BY <1>1, <1>6
      <4> QED BY <1>4, <1>7, <2>3, <3>6, <4>2, <4>3
    <3>7. CASE i > j + 1
      <4>1. i \in j + 1..Len(kids[P]) + 1 /\ i - 1 \in 1..Len(kids[P]) /\ i - 1 # j
        BY <1>1, <1>5, <3>1, <3>7
      <4>2. new[P][i] = kids[P][i - 1] /\ r[kids[P][i - 1]] = Beside(kids, right, P, i - 1)
        BY <1>1, <1>4, <1>9, <3>1, <3>7, <4>1
      <4>3. Beside(new, r, P, i) = Beside(kids, right, P, i - 1)
        BY <3>3, <4>1
      <4> QED BY <2>3, <4>2, <4>3
    <3>8. i \in Int /\ j \in Int
      BY <1>5, <3>1
    <3> QED BY <3>4, <3>5, <3>6, <3>7, <3>8
  <2>4. CASE p # c /\ p # P /\ p # x
    <3>1. p \in L \cup {0} /\ new[p] = kids[p] /\ r[p] = right[p]
      BY <1>1, <1>6, <1>7, <2>4
    <3>2. i \in 1..Len(kids[p]) /\ r[new[p][i]] = Beside(kids, right, p, i)
      BY <1>9, <2>4, <3>1
    <3>3. right[p] # 0 => Len(kids[right[p]]) # 0 /\ right[p] \in L
      <4>1. Len(kids[p]) # 0
        BY <1>2, <3>1, <3>2
      <4> QED BY <1>1, <1>6, <3>1, <4>1
    <3>4. right[p] # 0 => new[right[p]][1] = kids[right[p]][1]
      BY <1>8, <3>3
    <3>5. Beside(new, r, p, i) = Beside(kids, right, p, i)
      BY <3>1, <3>4 DEF Beside
    <3> QED BY <3>2, <3>5
  <2> QED BY <2>1, <2>2, <2>3, <2>4
<1>11. ASSUME NEW p \in L \cup {x}, r[p] # 0
       PROVE  Len(new[p]) = 0 <=> Len(new[r[p]]) = 0
  <2>1. Len(new[c]) = 0 <=> Len(kids[c]) = 0
    BY <1>1, <1>8
  <2>2. CASE p = c
    BY <1>1, <1>7, <2>2
  <2>3. CASE p = x
    <3>1. right[c] # 0 /\ right[c] \in L /\ r[p] = right[c]
      BY <1>1, <1>6, <1>7, <1>11, <2>3
    <3>2. Len(kids[c]) = 0 <=> Len(kids[right[c]]) = 0
      BY <1>1, <1>6, <3>1
    <3> QED BY <1>1, <1>8, <2>1, <2>3, <3>1, <3>2
  <2>4. CASE p \in L /\ p # c
    <3>1. right[p] # 0 /\ right[p] \in L /\ r[p] = right[p]
      BY <1>1, <1>6, <1>7, <1>11, <2>4
    <3>2. Len(kids[p]) = 0 <=> Len(kids[right[p]]) = 0
      BY <1>6, <2>4, <3>1
    <3> QED BY <1>8, <2>4, <3>1, <3>2
  <2> QED BY <2>2, <2>3, <2>4
<1>12. ASSUME NEW p \in L \cup {x}, NEW q \in L \cup {x}, r[p] = r[q], r[p] # 0
       PROVE  p = q
  BY <1>1, <1>6, <1>7, <1>12
<1> QED BY <1>1, <1>7, <1>10, <1>11, <1>12 DEF Rows, r

\* The same backwards: c and x merged into c.
LEMMA MergePlaced ==
  ASSUME NEW L, NEW kids, Typed(L, kids), NEW c, NEW x, NEW P, NEW j, NEW m, NEW new,
         SplitRows(L, kids, c, x, P, j, m, new), Placed(L \cup {x}, new)
  PROVE  Placed(L, kids)
<1> DEFINE pg(p, i) == SplitPage(c, x, m, p, i)
           pl(p, i) == SplitPlace(c, P, m, j, p, i)
<1>1. /\ c \in L /\ x \notin L /\ x # 0 /\ P \in L \cup {0} /\ P # c /\ m = Len(new[c])
      /\ (L \cup {x}) \cup {0} = L \cup {x, 0} /\ new \in [L \cup {x, 0} -> Seq(L \cup {x})]
  BY DEF SplitRows
<1>2. \A p \in L \cup {0} : \A i \in 1..Len(kids[p]) :
        /\ pg(p, i) \in L \cup {x, 0} /\ pl(p, i) \in 1..Len(new[pg(p, i)])
        /\ new[pg(p, i)][pl(p, i)] = kids[p][i]
  BY SplitPlaces
<1>3. \A p \in L \cup {x, 0} : \A i \in 1..Len(new[p]) :
         \/ p = P /\ i = j + 1 /\ new[p][i] = x
         \/ \E q \in L \cup {0} : \E k \in 1..Len(kids[q]) :
              kids[q][k] = new[p][i] /\ p = pg(q, k) /\ i = pl(q, k)
  BY SplitPlaces
<1>4. /\ \A q \in L \cup {x} : \E p \in L \cup {x, 0} : \E i \in 1..Len(new[p]) : new[p][i] = q
      /\ \A p, q \in L \cup {x, 0} : \A i \in 1..Len(new[p]), k \in 1..Len(new[q]) :
            new[p][i] = new[q][k] => p = q /\ i = k
  BY <1>1 DEF Placed
<1>5. /\ \A p \in L \cup {0} : \A i \in 1..Len(kids[p]) : i \in Int
      /\ m \in Int /\ j \in Int
  BY <1>1, SeqFacts DEF SplitRows
<1>6. ASSUME NEW p \in L \cup {0}, NEW i \in 1..Len(kids[p]),
             NEW q \in L \cup {0}, NEW k \in 1..Len(kids[q]), pg(p, i) = pg(q, k), pl(p, i) = pl(q, k)
      PROVE  p = q /\ i = k
  <2>1. p # x /\ q # x /\ i \in Int /\ k \in Int
    BY <1>1, <1>5
  <2>2. p = q
    BY <1>1, <1>6, <2>1 DEF SplitPage
  <2>3. CASE p = c
    <3>1. (i > m) <=> (k > m)
      BY <1>1, <1>6, <2>2, <2>3 DEF SplitPage
    <3>2. i > m => i - m = k - m
      BY <1>6, <2>2, <2>3, <3>1 DEF SplitPlace
    <3>3. ~(i > m) => i = k
      BY <1>6, <2>2, <2>3, <3>1 DEF SplitPlace
    <3>4. m \in Int
      BY <1>5
    <3>5. i > m => i = k
      BY <2>1, <3>2, <3>4
    <3> QED BY <2>2, <3>3, <3>5
  <2>4. CASE p # c
    <3>1. (IF p = P /\ i > j THEN i + 1 ELSE i) = (IF p = P /\ k > j THEN k + 1 ELSE k)
      BY <1>6, <2>2, <2>4 DEF SplitPlace
    <3>2. j \in Int
      BY <1>5
    <3> QED BY <2>1, <2>2, <3>1, <3>2
  <2> QED BY <2>2, <2>3, <2>4
<1>7. ASSUME NEW q \in L
      PROVE  \E p \in L \cup {0} : \E i \in 1..Len(kids[p]) : kids[p][i] = q
  <2>1. PICK p \in L \cup {x, 0} : \E i \in 1..Len(new[p]) : new[p][i] = q
    BY <1>4
  <2>2. PICK i \in 1..Len(new[p]) : new[p][i] = q
    BY <2>1
  <2> HIDE DEF pg, pl
  <2>3. q # x
    BY <1>1
  <2>4. \E a \in L \cup {0} : \E k \in 1..Len(kids[a]) : kids[a][k] = new[p][i]
    BY <1>3, <2>2, <2>3
  <2> QED BY <2>2, <2>4
<1>8. ASSUME NEW p \in L \cup {0}, NEW q \in L \cup {0},
             NEW i \in 1..Len(kids[p]), NEW k \in 1..Len(kids[q]), kids[p][i] = kids[q][k]
      PROVE  p = q /\ i = k
  <2> HIDE DEF pg, pl
  <2>2. /\ pg(p, i) \in L \cup {x, 0} /\ pl(p, i) \in 1..Len(new[pg(p, i)])
        /\ pg(q, k) \in L \cup {x, 0} /\ pl(q, k) \in 1..Len(new[pg(q, k)])
        /\ new[pg(p, i)][pl(p, i)] = new[pg(q, k)][pl(q, k)]
    BY <1>2, <1>8
  <2>1. pg(p, i) = pg(q, k) /\ pl(p, i) = pl(q, k)
    BY <1>4, <2>2
  <2> QED BY <1>6, <2>1
<1> QED BY <1>7, <1>8 DEF Placed

\* Page x, right of c, is taken out of its row.
MergeRight(r, L, c, x) == [p \in L \cup {0} |-> IF p = c THEN r[x] ELSE r[p]]

\* The rows after a merge, a split read backwards.
LEMMA MergeRowsKept ==
  ASSUME NEW L, NEW kids, Typed(L, kids), NEW c, NEW x, NEW P, NEW j, NEW m, NEW new,
         SplitRows(L, kids, c, x, P, j, m, new), Placed(L \cup {x}, new),
         NEW r, Rows(L \cup {x}, new, r)
  PROVE  Rows(L, kids, MergeRight(r, L, c, x))
<1> DEFINE right == MergeRight(r, L, c, x)
<1>1. /\ c \in L /\ x \in Nat \ {0} /\ x \notin L /\ P \in L \cup {0} /\ P # c /\ 0 \notin L
      /\ j \in 1..Len(kids[P]) /\ kids[P][j] = c /\ (Len(new[c]) = 0 <=> Len(new[x]) = 0)
      /\ \A p \in L \cup {0} : p # c /\ p # P => new[p] = kids[p]
      /\ (L \cup {x}) \cup {0} = L \cup {x, 0}
  BY DEF SplitRows, Typed
<1>2. /\ \A p \in L \cup {0} : Len(kids[p]) \in Nat
      /\ \A p \in L \cup {x, 0} : Len(new[p]) \in Nat
      /\ \A p \in L \cup {0} : \A i \in 1..Len(kids[p]) : kids[p][i] \in L
  BY SeqFacts DEF Typed, SplitRows
<1>3. /\ Len(new[c]) = m /\ Len(kids[c]) = m + Len(new[x])
      /\ \A i \in 1..m : kids[c][i] = new[c][i]
      /\ \A i \in 1..Len(new[x]) : kids[c][m + i] = new[x][i]
  BY DEF SplitRows, Parts
<1>4. /\ Len(new[P]) = Len(kids[P]) + 1 /\ new[P][j + 1] = x
      /\ \A i \in 1..Len(kids[P]) + 1 : /\ i < j + 1 => new[P][i] = kids[P][i]
                                        /\ i > j + 1 => new[P][i] = kids[P][i - 1]
  BY DEF SplitRows, IsInsertion
<1>5. m \in Nat /\ Len(new[x]) \in Nat /\ Len(new[P]) \in Nat /\ Len(kids[P]) \in Nat /\ j \in Nat
  BY <1>1, <1>2, <1>3
<1>6. /\ r \in [L \cup {x, 0} -> L \cup {x, 0}] /\ r[0] = 0
      /\ \A p \in L \cup {x, 0} : \A i \in 1..Len(new[p]) : r[new[p][i]] = Beside(new, r, p, i)
      /\ \A p \in L \cup {x} : r[p] # 0 => (Len(new[p]) = 0 <=> Len(new[r[p]]) = 0)
      /\ \A p, q \in L \cup {x} : r[p] = r[q] /\ r[p] # 0 => p = q
  BY <1>1 DEF Rows
<1>13. r[c] = x
  <2>1. j \in 1..Len(new[P]) /\ j < Len(new[P]) /\ new[P][j] = c
    <3>1. j \in 1..Len(kids[P]) + 1 /\ j < j + 1 /\ j < Len(kids[P]) + 1
      BY <1>1, <1>5
    <3> QED BY <1>1, <1>4, <3>1
  <2>2. r[c] = Beside(new, r, P, j)
    BY <1>1, <1>6, <2>1
  <2> QED BY <1>4, <2>1, <2>2 DEF Beside
<1>7. /\ right \in [L \cup {0} -> L \cup {0}] /\ right[0] = 0 /\ right[c] = r[x]
      /\ \A p \in L \cup {0} : p # c => right[p] = r[p]
  <2>1. \A p \in L \cup {0} : p # c => r[p] # x
    <3>1. \A p \in L : p # c => r[p] # x
      BY <1>1, <1>6, <1>13
    <3> QED BY <1>1, <1>6, <3>1
  <2>2. r[x] # x
    BY <1>1, <1>6, <1>13
  <2> QED BY <1>1, <1>6, <2>1, <2>2 DEF MergeRight
<1> HIDE DEF right
<1>8. \A p \in L \cup {0} : /\ Len(kids[p]) = 0 <=> Len(new[p]) = 0
                            /\ Len(kids[p]) # 0 => new[p][1] = kids[p][1]
  <2>1. Len(kids[c]) = 0 <=> Len(new[c]) = 0
    BY <1>1, <1>3, <1>5
  <2>2. Len(kids[c]) # 0 => new[c][1] = kids[c][1]
    <3>1. Len(kids[c]) # 0 => 1 \in 1..m
      BY <1>3, <1>5, <2>1
    <3> QED BY <1>3, <3>1
  <2>3. Len(kids[P]) # 0 /\ Len(new[P]) # 0
    BY <1>1, <1>4, <1>5
  <2>4. new[P][1] = kids[P][1]
    <3>1. 1 \in 1..Len(kids[P]) + 1 /\ 1 < j + 1
      BY <1>1, <1>5
    <3> QED BY <1>4, <3>1
  <2> QED BY <1>1, <2>1, <2>2, <2>3, <2>4
\* The child c is the only one with another page beside it.
<1>9. \A p \in L \cup {x, 0} : \A i \in 1..Len(new[p]) :
         new[p][i] # c /\ new[p][i] # x => right[new[p][i]] = Beside(new, r, p, i)
  <2>1. \A p \in L \cup {x, 0} : \A i \in 1..Len(new[p]) : new[p][i] \in L \cup {x}
    BY SeqFacts DEF SplitRows
  <2> QED BY <1>6, <1>7, <2>1
<1>14. \A p \in L \cup {0} : \A i \in 1..Len(kids[p]) : kids[p][i] = c => p = P /\ i = j
  <2>1. Placed(L, kids)
    BY MergePlaced
  <2> QED BY <1>1, <2>1 DEF Placed
<1>15. \A p \in L \cup {0} : right[p] # 0 /\ Len(kids[p]) # 0 =>
          right[p] \in L /\ Len(kids[right[p]]) # 0 /\ new[right[p]][1] = kids[right[p]][1]
  <2> SUFFICES ASSUME NEW p \in L, right[p] # 0, Len(kids[p]) # 0
               PROVE  /\ right[p] \in L /\ Len(kids[right[p]]) # 0
                      /\ new[right[p]][1] = kids[right[p]][1]
    BY <1>7
  <2>1. right[p] \in L
    BY <1>1, <1>7
  <2>2. Len(new[p]) # 0
    BY <1>8
  <2>3. Len(new[right[p]]) # 0
    <3>1. CASE p = c
      <4>1. r[x] # 0 /\ Len(new[x]) # 0 /\ right[p] = r[x]
        BY <1>1, <1>7, <2>2, <3>1
      <4> QED BY <1>6, <4>1
    <3>2. CASE p # c
      BY <1>6, <1>7, <2>2, <3>2
    <3> QED BY <3>1, <3>2
  <2> QED BY <1>8, <2>1, <2>3
<1>10. ASSUME NEW p \in L \cup {0}, NEW i \in 1..Len(kids[p])
       PROVE  right[kids[p][i]] = Beside(kids, right, p, i)
  <2>0. Len(kids[p]) \in Nat /\ Len(kids[p]) # 0 /\ kids[p][i] # x /\ i \in Int
    BY <1>1, <1>2
  \* At the end of a page the next one begins as before.
  <2>5. ~(i < Len(kids[p])) =>
          Beside(kids, right, p, i) = IF right[p] = 0 THEN 0 ELSE new[right[p]][1]
    BY <1>15, <2>0 DEF Beside
  <2>1. CASE p = c /\ i > m
    <3>1. i - m \in 1..Len(new[x]) /\ m + (i - m) = i /\ (i < Len(kids[c]) <=> i - m < Len(new[x]))
      <4>1. i \in 1..m + Len(new[x])
        BY <1>3, <2>1
      <4> QED BY <1>3, <1>5, <2>1, <4>1
    <3>2. new[x][i - m] = kids[c][i]
      <4>1. kids[c][m + (i - m)] = new[x][i - m]
        BY <1>3, <3>1
      <4> QED BY <3>1, <4>1
    <3>3. kids[c][i] # c
      BY <1>1, <1>14, <2>1
    <3>4. right[kids[c][i]] = Beside(new, r, x, i - m)
      BY <1>9, <2>0, <2>1, <3>1, <3>2, <3>3
    <3>5. CASE i < Len(kids[c])
      <4>1. (i - m) + 1 \in 1..Len(new[x]) /\ m + ((i - m) + 1) = i + 1 /\ i - m < Len(new[x])
        BY <1>5, <2>0, <3>1, <3>5, SMTT(40)
      <4>2. kids[c][m + ((i - m) + 1)] = new[x][(i - m) + 1]
        BY <1>3, <4>1
      <4> QED BY <2>1, <3>4, <3>5, <4>1, <4>2 DEF Beside
    <3>6. CASE ~(i < Len(kids[c]))
      <4>1. Beside(new, r, x, i - m) = IF r[x] = 0 THEN 0 ELSE new[r[x]][1]
        BY <3>1, <3>6 DEF Beside
      <4> QED BY <1>7, <2>1, <2>5, <3>4, <3>6, <4>1
    <3> QED BY <3>5, <3>6
  <2>2. CASE p = c /\ ~(i > m)
    <3>1. i \in 1..m /\ i \in 1..Len(new[c])
      BY <1>3, <1>5, <2>0, <2>2
    <3>2. new[c][i] = kids[c][i]
      BY <1>3, <3>1
    <3>3. kids[c][i] # c
      BY <1>1, <1>14, <2>2
    <3>4. right[kids[c][i]] = Beside(new, r, c, i)
      BY <1>1, <1>9, <2>0, <2>2, <3>1, <3>2, <3>3
    <3>7. Len(new[x]) # 0 /\ i < Len(kids[c])
      BY <1>1, <1>3, <1>5, <3>1
    <3>5. CASE i < m
      <4>1. i + 1 \in 1..m
        BY <1>5, <3>1, <3>5
      <4>2. kids[c][i + 1] = new[c][i + 1]
        BY <1>3, <4>1
      <4> QED BY <1>3, <2>2, <3>4, <3>5, <3>7, <4>2 DEF Beside
    <3>6. CASE i = m
      <4>1. 1 \in 1..Len(new[x])
        BY <1>5, <3>7
      <4>2. kids[c][m + 1] = new[x][1]
        BY <1>3, <4>1
      <4>3. Beside(new, r, c, i) = new[x][1]
        BY <1>1, <1>3, <1>13, <3>6, <1>5 DEF Beside
      <4> QED BY <2>2, <3>4, <3>6, <3>7, <4>2, <4>3 DEF Beside
    <3> QED BY <1>5, <3>1, <3>5, <3>6
  <2>3. CASE p = P
    <3>2. P # x /\ right[P] = r[P]
      BY <1>1, <1>7
    \* What is behind place k of the parent was behind place k + 1.
    <3>3. ASSUME NEW k \in j..Len(kids[P])
          PROVE  Beside(new, r, P, k + 1) = Beside(kids, right, P, k)
      <4>1. k \in Int /\ k <= Len(kids[P]) /\ k >= j
        BY <1>5
      <4>2. CASE k < Len(kids[P])
        <5>1. k + 2 \in 1..Len(kids[P]) + 1 /\ k + 2 > j + 1 /\ (k + 2) - 1 = k + 1
              /\ k + 1 < Len(kids[P]) + 1 /\ (k + 1) + 1 = k + 2
          BY <1>1, <1>5, <4>1, <4>2
        <5>2. new[P][k + 2] = kids[P][k + 1]
          BY <1>4, <5>1
        <5> QED BY <1>4, <4>2, <5>1, <5>2 DEF Beside
      <4>3. CASE ~(k < Len(kids[P]))
        <5>1. ~(k + 1 < Len(new[P]))
          BY <1>4, <1>5, <4>1, <4>3
        <5>3. Len(kids[P]) # 0
          BY <1>1, <1>5
        <5>4. Beside(new, r, P, k + 1) = IF right[P] = 0 THEN 0 ELSE new[right[P]][1]
          BY <3>2, <5>1 DEF Beside
        <5>5. Beside(kids, right, P, k) = IF right[P] = 0 THEN 0 ELSE kids[right[P]][1]
          BY <4>3 DEF Beside
        <5> QED BY <1>1, <1>15, <5>3, <5>4, <5>5
      <4> QED BY <4>2, <4>3
    <3>4. CASE i < j
      <4>1. i \in 1..Len(kids[P]) /\ i + 1 \in 1..Len(kids[P]) + 1 /\ i + 1 < j + 1 /\ i < j + 1
            /\ i < Len(kids[P]) /\ i < Len(new[P]) /\ i # j /\ i \in 1..Len(kids[P]) + 1
            /\ i \in 1..Len(new[P])
        BY <1>1, <1>4, <1>5, <2>0, <2>3, <3>4
      <4>2. new[P][i] = kids[P][i] /\ new[P][i + 1] = kids[P][i + 1]
        BY <1>4, <4>1
      <4>3. kids[P][i] # c
        BY <1>1, <1>14, <4>1
      <4>4. right[kids[P][i]] = Beside(new, r, P, i)
        BY <1>1, <1>9, <2>0, <2>3, <4>1, <4>2, <4>3
      <4> QED BY <2>3, <4>1, <4>2, <4>4 DEF Beside
    <3>5. CASE i = j
      <4>1. j + 1 \in 1..Len(new[P]) /\ j \in j..Len(kids[P])
        BY <1>1, <1>4, <1>5
      <4>2. r[x] = Beside(new, r, P, j + 1)
        BY <1>1, <1>4, <1>6, <4>1
      <4>3. Beside(new, r, P, j + 1) = Beside(kids, right, P, j)
        BY <3>3, <4>1
      <4> QED BY <1>1, <1>7, <2>3, <3>5, <4>2, <4>3
    <3>6. CASE i > j
      <4>1. i \in j..Len(kids[P]) /\ i + 1 \in 1..Len(kids[P]) + 1 /\ i + 1 > j + 1
            /\ (i + 1) - 1 = i /\ i + 1 \in 1..Len(new[P]) /\ i # j /\ i \in 1..Len(kids[P])
        BY <1>1, <1>4, <1>5, <2>0, <2>3, <3>6
      <4>2. new[P][i + 1] = kids[P][i]
        BY <1>4, <4>1
      <4>3. kids[P][i] # c
        BY <1>1, <1>14, <4>1
      <4>4. right[kids[P][i]] = Beside(new, r, P, i + 1)
        BY <1>1, <1>9, <2>0, <2>3, <4>1, <4>2, <4>3
      <4>5. Beside(new, r, P, i + 1) = Beside(kids, right, P, i)
        BY <3>3, <4>1
      <4> QED BY <2>3, <4>4, <4>5
    <3> QED BY <1>5, <2>0, <3>4, <3>5, <3>6
  <2>4. CASE p # c /\ p # P
    <3>1. new[p] = kids[p] /\ right[p] = r[p] /\ p # x
      BY <1>1, <1>7, <2>4
    <3>2. kids[p][i] # c
      BY <1>14, <2>4
    <3>3. right[kids[p][i]] = Beside(new, r, p, i)
      <4>1. i \in 1..Len(new[p]) /\ new[p][i] = kids[p][i] /\ p \in L \cup {x, 0}
        BY <3>1
      <4> QED BY <1>9, <2>0, <3>2, <4>1
    <3> QED BY <2>5, <3>1, <3>3 DEF Beside
  <2> QED BY <2>1, <2>2, <2>3, <2>4
<1>11. ASSUME NEW p \in L, right[p] # 0
       PROVE  Len(kids[p]) = 0 <=> Len(kids[right[p]]) = 0
  <2>0. right[p] \in L
    BY <1>1, <1>7, <1>11
  <2>1. Len(new[p]) = 0 <=> Len(new[right[p]]) = 0
    <3>1. CASE p = c
      BY <1>1, <1>6, <1>7, <1>11, <3>1
    <3>2. CASE p # c
      BY <1>1, <1>6, <1>7, <1>11, <3>2
    <3> QED BY <3>1, <3>2
  <2> QED BY <1>8, <2>0, <2>1
<1>12. ASSUME NEW p \in L, NEW q \in L, right[p] = right[q], right[p] # 0
       PROVE  p = q
  BY <1>1, <1>6, <1>7, <1>12
<1> QED BY <1>7, <1>10, <1>11, <1>12 DEF Rows, right

-----------------------------------------------------------------------------
(* What the pages hold. *)

\* The entries H are shared out to the pages L.
Shared(L, held, H) ==
  /\ held \in [L -> SUBSET Entry]
  /\ \A p \in L : held[p] \subseteq H
  /\ \A e \in H : \E p \in L : e \in held[p]
  /\ \A p, q \in L : p # q => held[p] \cap held[q] = {}

\* The pages of C are replaced by those of D, which share G out, where the ones of C had F.
Traded(L, held, H, M, new, C, D, F, G) ==
  /\ new \in [M -> SUBSET Entry] /\ C \subseteq L /\ D \subseteq M /\ L \ C = M \ D
  /\ \A p \in L \ C : new[p] = held[p]
  /\ \A p, q \in D : p # q => new[p] \cap new[q] = {}
  /\ \A e : e \in F <=> \E p \in C : e \in held[p]
  /\ \A e : e \in G <=> \E p \in D : e \in new[p]
  /\ \A e \in G : e \in F \/ e \notin H

\* Pages that trade entries leave the rest shared out as it was.
LEMMA SharedChanged ==
  ASSUME NEW L, NEW held, NEW H, Shared(L, held, H), NEW M, NEW new, NEW C, NEW D, NEW F, NEW G,
         Traded(L, held, H, M, new, C, D, F, G)
  PROVE  Shared(M, new, (H \ F) \cup G)
<1> DEFINE K == (H \ F) \cup G
<1> USE DEF Traded
<1>1. \A p \in M : p \in D \/ (p \in L /\ p \notin C /\ new[p] = held[p])
  OBVIOUS
<1>2. ASSUME NEW p \in M PROVE new[p] \subseteq K
  <2>1. CASE p \in D
    BY <2>1
  <2>2. CASE p \in L /\ p \notin C /\ new[p] = held[p]
    <3>1. \A e \in held[p] : e \in H /\ e \notin F
      <4> SUFFICES ASSUME NEW e \in held[p] PROVE e \in H /\ e \notin F
        OBVIOUS
      <4>1. e \in H
        BY <2>2 DEF Shared
      <4>2. \A q \in C : q # p /\ q \in L
        BY <2>2
      <4>3. \A q \in C : e \notin held[q]
        BY <2>2, <4>2 DEF Shared
      <4> QED BY <4>1, <4>3
    <3> QED BY <2>2, <3>1
  <2> QED BY <1>1, <2>1, <2>2
<1>3. ASSUME NEW e \in K PROVE \E p \in M : e \in new[p]
  <2>1. CASE e \in G
    BY <2>1
  <2>2. CASE e \notin G
    <3>1. e \in H /\ e \notin F
      BY <1>3, <2>2
    <3>2. PICK p \in L : e \in held[p]
      BY <3>1 DEF Shared
    <3>3. p \notin C
      BY <3>1, <3>2
    <3>4. p \in M /\ new[p] = held[p]
      BY <3>2, <3>3
    <3> QED BY <3>2, <3>4
  <2> QED BY <2>1, <2>2
<1>4. ASSUME NEW p \in M, NEW q \in M, p # q PROVE new[p] \cap new[q] = {}
  <2>1. ASSUME NEW a \in D, NEW b \in L, b \notin C, new[b] = held[b]
        PROVE  new[a] \cap new[b] = {}
    <3> SUFFICES ASSUME NEW e, e \in new[a], e \in new[b] PROVE FALSE
      OBVIOUS
    <3>1. e \in G /\ e \in H /\ e \in held[b]
      BY <2>1 DEF Shared
    <3>2. e \in F
      BY <3>1
    <3>3. PICK c \in C : e \in held[c]
      BY <3>2
    <3>4. c \in L /\ c # b
      BY <2>1
    <3> QED BY <3>1, <3>3, <3>4 DEF Shared
  <2>2. CASE p \in D /\ q \in D
    BY <1>4, <2>2
  <2>3. CASE p \in D /\ q \notin D
    BY <1>1, <2>1, <2>3
  <2>4. CASE p \notin D /\ q \in D
    BY <1>1, <2>1, <2>4
  <2>5. CASE p \notin D /\ q \notin D
    <3>1. p \in L /\ q \in L /\ new[p] = held[p] /\ new[q] = held[q]
      BY <1>1, <2>5
    <3> QED BY <1>4, <3>1 DEF Shared
  <2> QED BY <2>2, <2>3, <2>4, <2>5
<1> QED BY <1>2, <1>3, <1>4 DEF Shared

\* The pages L in rows, with the entries H.
Frame(L, kids, right, held, H) == Placed(L, kids) /\ Rows(L, kids, right) /\ Shared(L, held, H)

\* A page split, with an entry or none more.
LEMMA FrameSplit ==
  ASSUME NEW L, NEW kids, NEW right, NEW held, NEW H, Frame(L, kids, right, held, H),
         NEW c, NEW x, NEW P, NEW j, NEW m, NEW new, SplitRows(L, kids, c, x, P, j, m, new),
         NEW nh, nh \in [L \cup {x} -> SUBSET Entry], \A p \in L \ {c} : nh[p] = held[p],
         NEW E, E \cap H = {}, nh[c] \cup nh[x] = held[c] \cup E, nh[c] \cap nh[x] = {}
  PROVE  Frame(L \cup {x}, new, SplitRight(right, L, c, x), nh, H \cup E)
<1>1. Placed(L \cup {x}, new) /\ Rows(L \cup {x}, new, SplitRight(right, L, c, x))
  BY SplitPlaced, SplitRowsKept DEF Frame
<1>2. c \in L /\ x \notin L /\ Shared(L, held, H)
  BY DEF SplitRows, Frame
<1>3. Shared(L \cup {x}, nh, H \cup E)
  <2> DEFINE K == H \cup E
             F == held[c]
             G == held[c] \cup E
  <2>1. held[c] \subseteq H
    BY <1>2 DEF Shared
  <2>2. K = (H \ F) \cup G
    BY <2>1
  <2>3. /\ {c} \subseteq L /\ {c, x} \subseteq L \cup {x} /\ L \ {c} = (L \cup {x}) \ {c, x}
        /\ \A p, q \in {c, x} : p # q => nh[p] \cap nh[q] = {}
    BY <1>2
  <2>4. /\ \A e : e \in F <=> \E p \in {c} : e \in held[p]
        /\ \A e : e \in G <=> \E p \in {c, x} : e \in nh[p]
        /\ \A e \in G : e \in F \/ e \notin H
    OBVIOUS
  <2> HIDE DEF K, F, G
  <2>5. Shared(L \cup {x}, nh, K)
    <3>1. Traded(L, held, H, L \cup {x}, nh, {c}, {c, x}, F, G)
      BY <2>3, <2>4 DEF Traded
    <3> QED BY <1>2, <2>2, <3>1, SharedChanged, Zenon
  <2> QED BY <2>5 DEF K
<1> QED BY <1>1, <1>3 DEF Frame

\* Two pages merged.
LEMMA FrameMerge ==
  ASSUME NEW L, NEW kids, Typed(L, kids), NEW c, NEW x, NEW P, NEW j, NEW m, NEW new,
         SplitRows(L, kids, c, x, P, j, m, new),
         NEW r, NEW held, NEW H, Frame(L \cup {x}, new, r, held, H),
         NEW nh, nh \in [L -> SUBSET Entry], \A p \in L \ {c} : nh[p] = held[p],
         nh[c] = held[c] \cup held[x]
  PROVE  Frame(L, kids, MergeRight(r, L, c, x), nh, H)
<1>1. Placed(L, kids) /\ Rows(L, kids, MergeRight(r, L, c, x))
  BY MergePlaced, MergeRowsKept DEF Frame
<1>2. c \in L /\ x \notin L /\ Shared(L \cup {x}, held, H)
  BY DEF SplitRows, Frame
<1>3. Shared(L, nh, H)
  <2> DEFINE F == held[c] \cup held[x]
  <2>1. held[c] \subseteq H /\ held[x] \subseteq H
    BY <1>2 DEF Shared
  <2>2. H = (H \ F) \cup F
    BY <2>1
  <2>3. /\ {c} \subseteq L /\ {c, x} \subseteq L \cup {x} /\ L \ {c} = (L \cup {x}) \ {c, x}
        /\ \A p, q \in {c} : p # q => nh[p] \cap nh[q] = {}
    BY <1>2
  <2>4. /\ \A e : e \in F <=> \E p \in {c} : e \in nh[p]
        /\ \A e : e \in F <=> \E p \in {c, x} : e \in held[p]
        /\ \A e \in F : e \in F \/ e \notin H
    OBVIOUS
  <2>5. \A p \in (L \cup {x}) \ {c, x} : nh[p] = held[p]
    BY <1>2
  <2> HIDE DEF F
  <2>6. Shared(L, nh, H)
    <3>1. Traded(L \cup {x}, held, H, L, nh, {c, x}, {c}, F, F)
      BY <2>3, <2>4, <2>5 DEF Traded
    <3>2. Shared(L, nh, (H \ F) \cup F)
      BY <1>2, <3>1, SharedChanged, Zenon
    <3> QED BY <2>2, <3>2
  <2> QED BY <2>6
<1> QED BY <1>1, <1>3 DEF Frame

-----------------------------------------------------------------------------
(* The root. *)

\* A new page x above the pages that were at the top.
ToppedKids(L, kids, x) ==
  [p \in L \cup {x, 0} |-> IF p = 0 THEN <<x>> ELSE IF p = x THEN kids[0] ELSE kids[p]]

\* The new root stands alone in its row.
ToppedRight(L, right, x) == [p \in L \cup {x, 0} |-> IF p \in L THEN right[p] ELSE 0]

\* It holds no entries.
ToppedHeld(L, held, x) == [p \in L \cup {x} |-> IF p = x THEN {} ELSE held[p]]

\* Every page has one place below a new root.
LEMMA ToppedPlaces ==
  ASSUME NEW L, NEW kids, Placed(L, kids), NEW x, x \in Nat \ {0}, x \notin L
  PROVE  Placed(L \cup {x}, ToppedKids(L, kids, x))
<1> DEFINE new == ToppedKids(L, kids, x)
           at(p) == IF p = 0 THEN x ELSE p
<1>1. /\ L \subseteq Nat \ {0} /\ kids \in [L \cup {0} -> Seq(L)] /\ 0 \notin L
      /\ (L \cup {x}) \cup {0} = L \cup {x, 0}
  BY DEF Placed, Typed
<1>2. new[0] = <<x>> /\ Len(new[0]) = 1 /\ new[0][1] = x /\ new[0] \in Seq(L \cup {x})
  BY <1>1 DEF ToppedKids
<1>3. /\ \A p \in L \cup {0} : at(p) \in L \cup {x} /\ new[at(p)] = kids[p]
      /\ \A p \in L \cup {x} : \E q \in L \cup {0} : p = at(q)
  BY <1>1 DEF ToppedKids
<1>4. /\ \A p \in L \cup {0} : kids[p] \in Seq(L) /\ Len(kids[p]) \in Nat
      /\ \A p \in L \cup {0} : \A i \in 1..Len(kids[p]) : kids[p][i] \in L
  BY <1>1, SeqFacts
<1>5. new \in [L \cup {x, 0} -> Seq(L \cup {x})]
  <2>1. \A p \in L \cup {x} : new[p] \in Seq(L)
    BY <1>3, <1>4
  <2>2. \A s \in Seq(L) : s \in Seq(L \cup {x})
    OBVIOUS
  <2>3. \A p \in L \cup {x, 0} : new[p] \in Seq(L \cup {x})
    BY <1>2, <2>1, <2>2
  <2> QED BY <2>3 DEF ToppedKids
<1> HIDE DEF new, at
<1>6. \A q \in L \cup {x} : \E p \in L \cup {x, 0} : \E i \in 1..Len(new[p]) : new[p][i] = q
  <2> SUFFICES ASSUME NEW q \in L \cup {x}
               PROVE  \E p \in L \cup {x, 0} : \E i \in 1..Len(new[p]) : new[p][i] = q
    OBVIOUS
  <2>1. CASE q = x
    BY <1>2, <2>1
  <2>2. CASE q \in L
    <3>1. PICK p \in L \cup {0} : \E i \in 1..Len(kids[p]) : kids[p][i] = q
      BY <2>2 DEF Placed
    <3>2. at(p) \in L \cup {x, 0} /\ new[at(p)] = kids[p]
      BY <1>3
    <3> QED BY <3>1, <3>2
  <2> QED BY <2>1, <2>2
<1>7. \A p, q \in L \cup {x, 0} : \A i \in 1..Len(new[p]), j \in 1..Len(new[q]) :
         new[p][i] = new[q][j] => p = q /\ i = j
  <2> SUFFICES ASSUME NEW p \in L \cup {x, 0}, NEW q \in L \cup {x, 0},
                      NEW i \in 1..Len(new[p]), NEW j \in 1..Len(new[q]), new[p][i] = new[q][j]
               PROVE  p = q /\ i = j
    OBVIOUS
  <2>1. \A a \in L \cup {x} : \A k \in 1..Len(new[a]) : new[a][k] # x
    BY <1>3, <1>4
  <2>2. CASE p = 0
    <3>1. new[p][i] = x /\ i = 1
      BY <1>2, <2>2
    <3>2. q = 0
      BY <2>1, <3>1
    <3> QED BY <1>2, <2>2, <3>1, <3>2
  <2>3. CASE q = 0
    <3>1. new[q][j] = x /\ j = 1
      BY <1>2, <2>3
    <3>2. p = 0
      BY <2>1, <3>1
    <3> QED BY <1>2, <2>3, <3>1, <3>2
  <2>4. CASE p # 0 /\ q # 0
    <3>1. PICK a \in L \cup {0} : p = at(a)
      BY <1>3, <2>4
    <3>2. PICK b \in L \cup {0} : q = at(b)
      BY <1>3, <2>4
    <3>3. new[p] = kids[a] /\ new[q] = kids[b]
      BY <1>3, <3>1, <3>2
    <3>4. a = b /\ i = j
      BY <3>3 DEF Placed
    <3> QED BY <3>1, <3>2, <3>4
  <2> QED BY <2>2, <2>3, <2>4
<1>8. L \cup {x} \subseteq Nat \ {0}
  BY <1>1
<1>9. Placed(L \cup {x}, new)
  BY <1>1, <1>5, <1>6, <1>7, <1>8 DEF Placed, Typed
<1> QED BY <1>9 DEF new

\* The rows below it are as they were.
LEMMA ToppedRows ==
  ASSUME NEW L, NEW kids, Placed(L, kids), NEW right, Rows(L, kids, right),
         NEW x, x \in Nat \ {0}, x \notin L
  PROVE  Rows(L \cup {x}, ToppedKids(L, kids, x), ToppedRight(L, right, x))
<1> DEFINE new == ToppedKids(L, kids, x)
           r   == ToppedRight(L, right, x)
<1>1. /\ L \subseteq Nat \ {0} /\ kids \in [L \cup {0} -> Seq(L)] /\ 0 \notin L
      /\ (L \cup {x}) \cup {0} = L \cup {x, 0}
  BY DEF Placed, Typed
<1>2. /\ new[0] = <<x>> /\ Len(new[0]) = 1 /\ new[0][1] = x /\ new[x] = kids[0]
      /\ \A p \in L : new[p] = kids[p]
      /\ r[0] = 0 /\ r[x] = 0 /\ \A p \in L : r[p] = right[p]
  BY <1>1 DEF ToppedKids, ToppedRight
<1>3. /\ right \in [L \cup {0} -> L \cup {0}] /\ right[0] = 0
      /\ \A p \in L \cup {0} : \A i \in 1..Len(kids[p]) :
            right[kids[p][i]] = Beside(kids, right, p, i) /\ kids[p][i] \in L
      /\ \A p \in L : right[p] # 0 => (Len(kids[p]) = 0 <=> Len(kids[right[p]]) = 0)
      /\ \A p, q \in L : right[p] = right[q] /\ right[p] # 0 => p = q
  BY <1>1, SeqFacts DEF Rows
<1>4. r \in [L \cup {x, 0} -> L \cup {x, 0}]
  BY <1>1, <1>3 DEF ToppedRight
<1> HIDE DEF new, r
<1>5. \A p \in L \cup {x, 0} : \A i \in 1..Len(new[p]) : r[new[p][i]] = Beside(new, r, p, i)
  <2> SUFFICES ASSUME NEW p \in L \cup {x, 0}, NEW i \in 1..Len(new[p])
               PROVE  r[new[p][i]] = Beside(new, r, p, i)
    OBVIOUS
  <2>1. CASE p = 0
    BY <1>2, <2>1 DEF Beside
  <2>2. CASE p = x
    <3>1. i \in 1..Len(kids[0]) /\ r[new[p][i]] = right[kids[0][i]]
      BY <1>2, <1>3, <2>2
    <3>2. right[kids[0][i]] = Beside(kids, right, 0, i)
      BY <1>3, <3>1
    <3>3. Beside(new, r, p, i) = Beside(kids, right, 0, i)
      BY <1>2, <1>3, <2>2 DEF Beside
    <3> QED BY <3>1, <3>2, <3>3
  <2>3. CASE p \in L
    <3>1. i \in 1..Len(kids[p]) /\ r[new[p][i]] = right[kids[p][i]]
      BY <1>2, <1>3, <2>3
    <3>2. right[kids[p][i]] = Beside(kids, right, p, i)
      BY <1>3, <2>3, <3>1
    <3>3. right[p] \in L \cup {0}
      BY <1>3, <2>3
    <3>4. Beside(new, r, p, i) = Beside(kids, right, p, i)
      BY <1>2, <2>3, <3>3 DEF Beside
    <3> QED BY <3>1, <3>2, <3>4
  <2> QED BY <2>1, <2>2, <2>3
<1>6. \A p \in L \cup {x} : r[p] # 0 => (Len(new[p]) = 0 <=> Len(new[r[p]]) = 0)
  <2> SUFFICES ASSUME NEW p \in L, right[p] # 0
               PROVE  Len(new[p]) = 0 <=> Len(new[right[p]]) = 0
    BY <1>2
  <2>1. right[p] \in L
    BY <1>3
  <2> QED BY <1>2, <1>3, <2>1
<1>7. \A p, q \in L \cup {x} : r[p] = r[q] /\ r[p] # 0 => p = q
  BY <1>2, <1>3
<1>8. Rows(L \cup {x}, new, r)
  BY <1>1, <1>2, <1>4, <1>5, <1>6, <1>7 DEF Rows
<1> QED BY <1>8 DEF new, r

\* A new root above the old one.
LEMMA FrameTopped ==
  ASSUME NEW L, NEW kids, NEW right, NEW held, NEW H, Frame(L, kids, right, held, H),
         NEW x, x \in Nat \ {0}, x \notin L
  PROVE  Frame(L \cup {x}, ToppedKids(L, kids, x), ToppedRight(L, right, x),
               ToppedHeld(L, held, x), H)
<1> DEFINE nh == ToppedHeld(L, held, x)
<1>1. nh[x] = {} /\ (\A p \in L : nh[p] = held[p]) /\ nh \in [L \cup {x} -> SUBSET Entry]
  BY DEF ToppedHeld, Frame, Shared
<1> HIDE DEF nh
<1>2. Traded(L, held, H, L \cup {x}, nh, {}, {x}, {}, {})
  BY <1>1 DEF Traded
<1>3. Shared(L \cup {x}, nh, (H \ {}) \cup {})
  BY <1>2, SharedChanged, Zenon DEF Frame
<1>4. Shared(L \cup {x}, nh, H)
  BY <1>3
<1> QED BY <1>4, ToppedPlaces, ToppedRows DEF Frame, nh

\* The page r at the top gives way to y, its only child.
ShrunkKids(L, kids, r, y) == [p \in (L \ {r}) \cup {0} |-> IF p = 0 THEN <<y>> ELSE kids[p]]

\* The rows without the row of the root.
ShrunkRight(L, right, r) == [p \in (L \ {r}) \cup {0} |-> right[p]]

\* The entries without those of the root, which has none.
ShrunkHeld(L, held, r) == [p \in L \ {r} |-> held[p]]

\* A page at the top has no other place.
LEMMA TopPlace ==
  ASSUME NEW L, NEW kids, Placed(L, kids), NEW r, kids[0] = <<r>>
  PROVE  \A q \in L \cup {0} : \A i \in 1..Len(kids[q]) : kids[q][i] = r => q = 0 /\ i = 1
<1>1. 1 \in 1..Len(kids[0]) /\ kids[0][1] = r /\ 0 \in L \cup {0}
  OBVIOUS
<1>2. \A p, q \in L \cup {0} : \A i \in 1..Len(kids[p]), k \in 1..Len(kids[q]) :
            kids[p][i] = kids[q][k] => p = q /\ i = k
  BY DEF Placed
<1>3. ASSUME NEW q \in L \cup {0}, NEW i \in 1..Len(kids[q]), kids[q][i] = r
      PROVE  q = 0 /\ i = 1
  <2>1. kids[q][i] = kids[0][1]
    BY <1>1, <1>3
  <2>2. \A k \in 1..Len(kids[0]) : kids[q][i] = kids[0][k] => q = 0 /\ i = k
    BY <1>1, <1>2
  <2> QED BY <1>1, <2>1, <2>2
<1> QED BY <1>3

\* Every page has one place when the root gives way to its only child.
LEMMA ShrunkPlaces ==
  ASSUME NEW L, NEW kids, Placed(L, kids), NEW r, NEW y, kids[0] = <<r>>, r \in L, kids[r] = <<y>>
  PROVE  Placed(L \ {r}, ShrunkKids(L, kids, r, y)) /\ y \in L \ {r}
<1> DEFINE new == ShrunkKids(L, kids, r, y)
           M   == L \ {r}
           at(p) == IF p = 0 THEN r ELSE p
<1>1. L \subseteq Nat \ {0} /\ kids \in [L \cup {0} -> Seq(L)] /\ 0 \notin L
  BY DEF Placed, Typed
<1>2. /\ \A q \in L : \E p \in L \cup {0} : \E i \in 1..Len(kids[p]) : kids[p][i] = q
      /\ \A p, q \in L \cup {0} : \A i \in 1..Len(kids[p]), k \in 1..Len(kids[q]) :
            kids[p][i] = kids[q][k] => p = q /\ i = k
      /\ \A p \in L \cup {0} : \A i \in 1..Len(kids[p]) : kids[p][i] \in L
      /\ \A p \in L \cup {0} : kids[p] \in Seq(L) /\ Len(kids[p]) \in Nat
  BY <1>1, SeqFacts DEF Placed
<1>3. Len(kids[0]) = 1 /\ kids[0][1] = r /\ Len(kids[r]) = 1 /\ kids[r][1] = y /\ 1 \in 1..1
  OBVIOUS
<1>4. y \in M
  <2>1. y \in L
    BY <1>2, <1>3
  <2>2. y # r
    <3> SUFFICES ASSUME y = r PROVE FALSE
      OBVIOUS
    <3>1. 1 \in 1..Len(kids[r]) /\ kids[r][1] = r
      BY <1>3
    <3>2. r = 0
      BY <3>1, TopPlace
    <3> QED BY <1>1, <3>2
  <2> QED BY <2>1, <2>2
<1>5. \A p \in L \cup {0} : p # 0 => \A i \in 1..Len(kids[p]) : kids[p][i] \in M
  BY <1>2, <1>3, ZenonT(60)
<1>6. \A p \in M \cup {0} : at(p) \in L /\ at(p) # 0 /\ new[p] = kids[at(p)]
  BY <1>1 DEF ShrunkKids
<1>7. \A p \in L \cup {0} : p # 0 => \E q \in M \cup {0} : p = at(q)
  OBVIOUS
<1>8. new \in [M \cup {0} -> Seq(M)]
  <2>1. \A p \in M \cup {0} : new[p] \in Seq(M)
    <3> SUFFICES ASSUME NEW p \in M \cup {0} PROVE new[p] \in Seq(M)
      OBVIOUS
    <3>1. at(p) \in L /\ at(p) # 0 /\ new[p] = kids[at(p)]
      BY <1>6
    <3> HIDE DEF new, at, M
    <3>2. kids[at(p)] \in Seq(L) /\ \A i \in 1..Len(kids[at(p)]) : kids[at(p)][i] \in M
      BY <1>2, <1>5, <3>1
    <3> QED BY <3>1, <3>2
  <2> QED BY <2>1 DEF ShrunkKids
<1> HIDE DEF new, at, M
<1>9. \A q \in M : \E p \in M \cup {0} : \E i \in 1..Len(new[p]) : new[p][i] = q
  <2> SUFFICES ASSUME NEW q \in M
               PROVE  \E p \in M \cup {0} : \E i \in 1..Len(new[p]) : new[p][i] = q
    OBVIOUS
  <2>0. q \in L /\ q # r
    BY DEF M
  <2>1. PICK p \in L \cup {0} : \E i \in 1..Len(kids[p]) : kids[p][i] = q
    BY <1>2, <2>0
  <2>2. p # 0
    BY <1>3, <2>0, <2>1
  <2>3. PICK a \in M \cup {0} : p = at(a)
    BY <1>7, <2>1, <2>2
  <2>4. new[a] = kids[p]
    BY <1>6, <2>3
  <2> QED BY <2>1, <2>4
<1>10. \A p, q \in M \cup {0} : \A i \in 1..Len(new[p]), k \in 1..Len(new[q]) :
         new[p][i] = new[q][k] => p = q /\ i = k
  <2> SUFFICES ASSUME NEW p \in M \cup {0}, NEW q \in M \cup {0},
                      NEW i \in 1..Len(new[p]), NEW k \in 1..Len(new[q]), new[p][i] = new[q][k]
               PROVE  p = q /\ i = k
    OBVIOUS
  <2>1. /\ at(p) \in L /\ at(q) \in L /\ new[p] = kids[at(p)] /\ new[q] = kids[at(q)]
    BY <1>6
  <2>2. at(p) = at(q) /\ i = k
    BY <1>2, <2>1
  <2>3. p = q
    BY <2>2, <1>1 DEF at, M
  <2> QED BY <2>2, <2>3
<1>11. M \subseteq Nat \ {0}
  BY <1>1 DEF M
<1>12. Placed(M, new)
  BY <1>8, <1>9, <1>10, <1>11 DEF Placed, Typed
<1> QED BY <1>4, <1>12 DEF new, M

\* The rows below are as they were.
LEMMA ShrunkRows ==
  ASSUME NEW L, NEW kids, Placed(L, kids), NEW right, Rows(L, kids, right),
         NEW r, NEW y, kids[0] = <<r>>, r \in L, kids[r] = <<y>>
  PROVE  Rows(L \ {r}, ShrunkKids(L, kids, r, y), ShrunkRight(L, right, r))
<1> DEFINE new == ShrunkKids(L, kids, r, y)
           M   == L \ {r}
           b   == ShrunkRight(L, right, r)
<1>1. L \subseteq Nat \ {0} /\ kids \in [L \cup {0} -> Seq(L)] /\ 0 \notin L
  BY DEF Placed, Typed
<1>2. /\ \A q \in L : \E p \in L \cup {0} : \E i \in 1..Len(kids[p]) : kids[p][i] = q
      /\ \A p, q \in L \cup {0} : \A i \in 1..Len(kids[p]), k \in 1..Len(kids[q]) :
            kids[p][i] = kids[q][k] => p = q /\ i = k
      /\ \A p \in L \cup {0} : \A i \in 1..Len(kids[p]) : kids[p][i] \in L
      /\ \A p \in L \cup {0} : kids[p] \in Seq(L) /\ Len(kids[p]) \in Nat
  BY <1>1, SeqFacts DEF Placed
<1>3. Len(kids[0]) = 1 /\ kids[0][1] = r /\ Len(kids[r]) = 1 /\ kids[r][1] = y /\ 1 \in 1..1
  OBVIOUS
<1>4. /\ right \in [L \cup {0} -> L \cup {0}] /\ right[0] = 0
      /\ \A p \in L \cup {0} : \A i \in 1..Len(kids[p]) :
            right[kids[p][i]] = Beside(kids, right, p, i)
      /\ \A p \in L : right[p] # 0 => (Len(kids[p]) = 0 <=> Len(kids[right[p]]) = 0)
      /\ \A p, q \in L : right[p] = right[q] /\ right[p] # 0 => p = q
  BY DEF Rows
<1>5. right[r] = 0
  BY <1>3, <1>4 DEF Beside
<1>6. /\ \A p \in M \cup {0} : b[p] = right[p] /\ (p # 0 => new[p] = kids[p] /\ p \in L)
      /\ new[0] = kids[r] /\ y \in M
  BY ShrunkPlaces DEF ShrunkRight, ShrunkKids
<1>7. \A p \in L : right[p] # r
  <2> SUFFICES ASSUME NEW p \in L, right[p] = r PROVE FALSE
    OBVIOUS
  <2>1. PICK q \in L \cup {0} : \E i \in 1..Len(kids[q]) : kids[q][i] = p
    BY <1>2
  <2>2. PICK i \in 1..Len(kids[q]) : kids[q][i] = p
    BY <2>1
  <2>3. Beside(kids, right, q, i) = r
    BY <1>4, <2>2
  <2>4. CASE i < Len(kids[q])
    <3>1. i + 1 \in 1..Len(kids[q]) /\ kids[q][i + 1] = r
      BY <1>2, <2>3, <2>4 DEF Beside
    <3>2. i + 1 = 1
      BY <3>1, TopPlace
    <3> QED BY <3>2
  <2>5. CASE ~(i < Len(kids[q]))
    <3>1. right[q] # 0 /\ kids[right[q]][1] = r
      BY <1>1, <2>3, <2>5 DEF Beside
    <3>2. q # 0 /\ q \in L
      BY <1>4, <3>1
    <3>3. Len(kids[q]) # 0 /\ right[q] \in L
      BY <1>2, <1>4, <3>1, <3>2, <2>2
    <3>4. 1 \in 1..Len(kids[right[q]])
      BY <1>2, <1>4, <3>1, <3>2, <3>3
    <3>5. right[q] = 0
      BY <3>1, <3>3, <3>4, TopPlace
    <3> QED BY <3>1, <3>5
  <2> QED BY <2>4, <2>5
<1>8. b \in [M \cup {0} -> M \cup {0}]
  BY <1>4, <1>7 DEF ShrunkRight
<1> HIDE DEF new, b, M
<1>9. \A p \in M \cup {0} : \A i \in 1..Len(new[p]) : b[new[p][i]] = Beside(new, b, p, i)
  <2> SUFFICES ASSUME NEW p \in M \cup {0}, NEW i \in 1..Len(new[p])
               PROVE  b[new[p][i]] = Beside(new, b, p, i)
    OBVIOUS
  <2>1. CASE p = 0
    <3>0. new[p] = kids[r]
      BY <1>6, <2>1
    <3>1. i = 1 /\ new[p][i] = y /\ Len(new[p]) = 1
      BY <1>3, <3>0
    <3>2. b[y] = right[kids[r][1]]
      BY <1>3, <1>6
    <3>3. right[kids[r][1]] = 0
      BY <1>3, <1>4, <1>5 DEF Beside
    <3>4. Beside(new, b, p, i) = 0
      BY <1>4, <1>6, <2>1, <3>1 DEF Beside
    <3> QED BY <3>1, <3>2, <3>3, <3>4
  <2>2. CASE p # 0
    <3>1. p \in L /\ p \in M /\ new[p] = kids[p] /\ b[p] = right[p] /\ right[p] \in L \cup {0}
      BY <1>4, <1>6, <2>2
    <3>2. kids[p][i] \in L /\ kids[p][i] # r
      <4>1. kids[p][i] \in L /\ i \in 1..Len(kids[p])
        BY <1>2, <3>1
      <4>2. kids[p][i] # r
        BY <2>2, <3>1, <4>1, TopPlace
      <4> QED BY <4>1, <4>2
    <3>3. b[kids[p][i]] = right[kids[p][i]]
      BY <1>6, <3>2 DEF M
    <3>4. right[kids[p][i]] = Beside(kids, right, p, i)
      BY <1>4, <3>1
    <3>5. right[p] # 0 => new[right[p]] = kids[right[p]]
      BY <1>6, <1>7, <3>1 DEF M
    <3>6. Beside(new, b, p, i) = Beside(kids, right, p, i)
      BY <3>1, <3>5 DEF Beside
    <3> QED BY <3>1, <3>3, <3>4, <3>6
  <2> QED BY <2>1, <2>2
<1>10. \A p \in M : b[p] # 0 => (Len(new[p]) = 0 <=> Len(new[b[p]]) = 0)
  <2> SUFFICES ASSUME NEW p \in M, b[p] # 0
               PROVE  Len(new[p]) = 0 <=> Len(new[b[p]]) = 0
    OBVIOUS
  <2>0. p # 0 /\ p \in L
    BY <1>1 DEF M
  <2>1. b[p] \in M /\ b[p] = right[p] /\ b[p] # 0 /\ new[p] = kids[p]
    BY <1>6, <1>8, <2>0
  <2>2. new[b[p]] = kids[right[p]]
    BY <1>6, <2>1
  <2> QED BY <1>4, <2>0, <2>1, <2>2
<1>11. \A p, q \in M : b[p] = b[q] /\ b[p] # 0 => p = q
  BY <1>4, <1>6 DEF M
<1>12. b[0] = 0
  BY <1>4, <1>6
<1>13. Rows(M, new, b)
  BY <1>8, <1>9, <1>10, <1>11, <1>12 DEF Rows
<1> QED BY <1>13 DEF new, M, b

\* A root without keys is taken off.
LEMMA FrameShrunk ==
  ASSUME NEW L, NEW kids, NEW right, NEW held, NEW H, Frame(L, kids, right, held, H),
         NEW r, NEW y, kids[0] = <<r>>, r \in L, kids[r] = <<y>>, held[r] = {}
  PROVE  Frame(L \ {r}, ShrunkKids(L, kids, r, y), ShrunkRight(L, right, r),
               ShrunkHeld(L, held, r), H) /\ y \in L \ {r}
<1> DEFINE nh == ShrunkHeld(L, held, r)
<1>1. (\A p \in L \ {r} : nh[p] = held[p]) /\ nh \in [L \ {r} -> SUBSET Entry]
  BY DEF ShrunkHeld, Frame, Shared
<1> HIDE DEF nh
<1>2. Traded(L, held, H, L \ {r}, nh, {r}, {}, {}, {})
  BY <1>1 DEF Traded
<1>3. Shared(L \ {r}, nh, (H \ {}) \cup {})
  BY <1>2, SharedChanged, Zenon DEF Frame
<1>4. Shared(L \ {r}, nh, H)
  BY <1>3
<1> QED BY <1>4, ShrunkPlaces, ShrunkRows DEF Frame, nh

-----------------------------------------------------------------------------
(* Pictures of the pages of a file. *)

\* InsertAt inserts.
LEMMA InsertionIs ==
  \A S : \A s \in Seq(S), x \in S : \A at \in 1..Len(s) + 1 :
     InsertAt(s, at, x) \in Seq(S) /\ IsInsertion(InsertAt(s, at, x), s, at, x)
BY InsertAtIs DEF IsInsertion

\* A sequence with all its elements in a set is one over the set.
LEMMA SeqIn ==
  \A S, T : \A s \in Seq(S) : (\A i \in 1..Len(s) : s[i] \in T) => s \in Seq(T)
OBVIOUS

\* A page behind the others.
LEMMA NextPage ==
  ASSUME NEW n \in Nat, NEW L, L \subseteq 1..n
  PROVE  n + 1 \in Nat \ {0} /\ n + 1 \notin L /\ L \cup {n + 1} \subseteq 1..n + 1
OBVIOUS

\* A place in the second part of a sequence.
LEMMA Offset ==
  \A m, n \in Nat : \A i \in 1..m + n : i \notin 1..m => i - m \in 1..n /\ m + (i - m) = i
OBVIOUS

\* The parts of a sequence have what it has.
LEMMA PartsIn ==
  ASSUME NEW S, NEW z \in Seq(S), NEW R, NEW a \in Seq(R), NEW b \in Seq(R), Parts(z, a, b)
  PROVE  a \in Seq(S) /\ b \in Seq(S)
<1>1. Len(a) \in Nat /\ Len(b) \in Nat /\ Len(z) = Len(a) + Len(b)
  BY DEF Parts
<1>2. \A i \in 1..Len(z) : z[i] \in S
  BY SeqFacts
<1>3. ASSUME NEW i \in 1..Len(a) PROVE a[i] \in S
  <2>1. i \in 1..Len(z)
    BY <1>1
  <2> QED BY <1>2, <2>1 DEF Parts
<1>4. ASSUME NEW i \in 1..Len(b) PROVE b[i] \in S
  <2>1. Len(a) + i \in 1..Len(z)
    BY <1>1
  <2> QED BY <1>2, <2>1 DEF Parts
<1> QED BY <1>3, <1>4, SeqIn

\* The children after the split of c into c, with the children a, and x, with b.
SplitKids(L, kids, c, x, P, j, a, b) ==
  [p \in L \cup {x, 0} |-> IF p = c THEN a ELSE IF p = x THEN b
                           ELSE IF p = P THEN InsertAt(kids[P], j + 1, x) ELSE kids[p]]

\* They are the rows of a split.
LEMMA SplitMade ==
  ASSUME NEW L, NEW kids, Placed(L, kids), NEW c \in L, NEW x \in Nat \ {0}, x \notin L,
         NEW P \in L \cup {0}, P # c, NEW j \in 1..Len(kids[P]), kids[P][j] = c,
         NEW a \in Seq(L), NEW b \in Seq(L), Parts(kids[c], a, b), Len(a) = 0 <=> Len(b) = 0
  PROVE  SplitRows(L, kids, c, x, P, j, Len(a), SplitKids(L, kids, c, x, P, j, a, b))
<1> DEFINE new == SplitKids(L, kids, c, x, P, j, a, b)
<1>1. L \subseteq Nat \ {0} /\ kids \in [L \cup {0} -> Seq(L)] /\ 0 \notin L
  BY DEF Placed, Typed
<1>2. \A s \in Seq(L) : s \in Seq(L \cup {x})
  OBVIOUS
<1>3. /\ InsertAt(kids[P], j + 1, x) \in Seq(L \cup {x})
      /\ IsInsertion(InsertAt(kids[P], j + 1, x), kids[P], j + 1, x)
  <2>1. kids[P] \in Seq(L \cup {x}) /\ j + 1 \in 1..Len(kids[P]) + 1 /\ x \in L \cup {x}
    BY <1>1, <1>2
  <2> QED BY <2>1, InsertionIs, Zenon
<1>4. /\ new[c] = a /\ new[x] = b /\ new[P] = InsertAt(kids[P], j + 1, x)
      /\ \A p \in L \cup {0} : p # c /\ p # P => new[p] = kids[p]
  BY <1>1 DEF SplitKids
<1>5. new \in [L \cup {x, 0} -> Seq(L \cup {x})]
  <2>1. \A p \in L \cup {x, 0} : new[p] \in Seq(L \cup {x})
    BY <1>1, <1>2, <1>3, <1>4
  <2> QED BY <2>1 DEF SplitKids
<1> HIDE DEF new
<1>6. SplitRows(L, kids, c, x, P, j, Len(a), new)
  BY <1>3, <1>4, <1>5 DEF SplitRows
<1> QED BY <1>6 DEF new

\* Page p is as in the picture.
Shows(ns, kids, right, held, p) ==
  IF ns[p].leaf THEN /\ kids[p] = << >> /\ right[p] = ns[p].next
                     /\ held[p] = InSeq(ns[p].entries) /\ Distinct(ns[p].entries)
  ELSE kids[p] = ns[p].ptrs /\ held[p] = {}

\* The pages L of the file, below root, in rows, with the entries H.
Picture(ns, root, L, H) ==
  /\ L \subseteq 1..Len(ns) /\ root \in L
  /\ \E kids, right, held : /\ Frame(L, kids, right, held, H) /\ kids[0] = <<root>>
                            /\ \A p \in L : Shows(ns, kids, right, held, p)

\* The pointers of P, or to the root.
Above(ns, root, P) == IF P = 0 THEN <<root>> ELSE ns[P].ptrs

\* The same after a split that page P, or the top, is still to be told of: the new page x
\* belongs behind the child j of P.
Untold(ns, root, L, H, P, j, x) ==
  /\ L \subseteq 1..Len(ns) /\ root \in L /\ P \in L \cup {0} /\ x \in L
  /\ j \in 1..Len(Above(ns, root, P)) /\ (P # 0 => ~ns[P].leaf)
  /\ Above(ns, root, P) \in Seq(L)
  /\ \E kids, right, held :
       /\ Frame(L, kids, right, held, H)
       /\ kids[P] = InsertAt(Above(ns, root, P), j + 1, x)
       /\ P # 0 => kids[0] = <<root>> /\ held[P] = {}
       /\ \A p \in L : p # P => Shows(ns, kids, right, held, p)

\* The page c is child j of page P, or of the top.
ChildOf(ns, root, L, P, j, c) ==
  /\ P \in L \cup {0} /\ P # c /\ c \in L /\ (P # 0 => ~ns[P].leaf)
  /\ j \in 1..Len(Above(ns, root, P)) /\ Above(ns, root, P)[j] = c

\* The file new is ns with one page more, with only page c changed.
Grew(ns, new, c) ==
  /\ Len(ns) \in Nat /\ Len(new) = Len(ns) + 1
  /\ \A q \in 1..Len(ns) : q # c => new[q] = ns[q]

\* Page c, a leaf, split.
LEMMA LeafSplitPicture ==
  ASSUME NEW ns, NEW root, NEW L, NEW H, Picture(ns, root, L, H), NEW P, NEW j, NEW c,
         ChildOf(ns, root, L, P, j, c), NEW new, Grew(ns, new, c), NEW x, x = Len(ns) + 1,
         ns[c].leaf, new[c].leaf, new[x].leaf, new[c].next = x, new[x].next = ns[c].next,
         Distinct(new[c].entries), Distinct(new[x].entries),
         NEW a, a = InSeq(new[c].entries), NEW b, b = InSeq(new[x].entries),
         a \cap b = {}, a \subseteq Entry, b \subseteq Entry,
         NEW E, E \cap H = {}, a \cup b = InSeq(ns[c].entries) \cup E
  PROVE  Untold(new, root, L \cup {x}, H \cup E, P, j, x)
<1>1. PICK kids, right, held : /\ Frame(L, kids, right, held, H) /\ kids[0] = <<root>>
                               /\ \A p \in L : Shows(ns, kids, right, held, p)
  BY DEF Picture
<1>2. Placed(L, kids) /\ L \subseteq 1..Len(ns) /\ root \in L /\ kids \in [L \cup {0} -> Seq(L)]
  BY <1>1 DEF Picture, Frame, Placed, Typed
<1>3. x \in Nat \ {0} /\ x \notin L /\ 0 \notin L /\ Len(new) = x
  BY <1>2 DEF Grew
<1>4. kids[P] = Above(ns, root, P) /\ Above(new, root, P) = Above(ns, root, P)
      /\ (P # 0 => ~new[P].leaf)
  BY <1>1, <1>2, <1>3 DEF ChildOf, Above, Shows, Grew
<1>5. c \in L /\ P \in L \cup {0} /\ P # c /\ j \in 1..Len(kids[P]) /\ kids[P][j] = c
  BY <1>4 DEF ChildOf
<1>6. kids[c] = << >> /\ held[c] = InSeq(ns[c].entries) /\ right[c] = ns[c].next
  BY <1>1, <1>5 DEF Shows
<1> DEFINE nk == SplitKids(L, kids, c, x, P, j, << >>, << >>)
           nr == SplitRight(right, L, c, x)
           nh == [p \in L \cup {x} |-> IF p = c THEN a ELSE IF p = x THEN b ELSE held[p]]
<1>7. SplitRows(L, kids, c, x, P, j, 0, nk)
  <2>1. << >> \in Seq(L) /\ Parts(kids[c], << >>, << >>) /\ Len(<< >>) = 0
    BY <1>6 DEF Parts
  <2>2. SplitRows(L, kids, c, x, P, j, Len(<< >>), nk)
    BY <1>2, <1>3, <1>5, <2>1, SplitMade
  <2> QED BY <2>1, <2>2
<1>8. nh[c] = a /\ nh[x] = b /\ \A p \in L \ {c} : nh[p] = held[p]
  BY <1>3, <1>5
<1>9. nh \in [L \cup {x} -> SUBSET Entry]
  BY <1>1 DEF Frame, Shared
<1> HIDE DEF nh
<1>10. Frame(L \cup {x}, nk, nr, nh, H \cup E)
  <2>1. nh[c] \cup nh[x] = held[c] \cup E /\ nh[c] \cap nh[x] = {} /\ E \cap H = {}
    BY <1>6, <1>8
  <2> HIDE DEF nk
  <2> QED BY <1>1, <1>7, <1>8, <1>9, <2>1, FrameSplit, ZenonT(60)
<1>11. /\ nk[c] = << >> /\ nk[x] = << >> /\ nk[P] = InsertAt(Above(new, root, P), j + 1, x)
       /\ \A p \in L \cup {0} : p # c /\ p # P => nk[p] = kids[p]
  BY <1>3, <1>4, <1>5 DEF SplitKids
<1>12. nr[c] = x /\ nr[x] = right[c] /\ \A p \in L : p # c => nr[p] = right[p]
  BY <1>3, <1>5 DEF SplitRight
<1> HIDE DEF nk, nr
<1>13. ASSUME NEW p \in L \cup {x}, p # P PROVE Shows(new, nk, nr, nh, p)
  <2>1. CASE p = c
    BY <1>5, <1>8, <1>11, <1>12, <2>1 DEF Shows
  <2>2. CASE p = x
    BY <1>6, <1>8, <1>11, <1>12, <2>2 DEF Shows
  <2>3. CASE p # c /\ p # x
    <3>1. p \in L /\ new[p] = ns[p] /\ Shows(ns, kids, right, held, p)
      BY <1>1, <1>2, <1>13, <2>3 DEF Grew
    <3>2. nk[p] = kids[p] /\ nr[p] = right[p] /\ nh[p] = held[p]
      BY <1>8, <1>11, <1>12, <1>13, <2>3, <3>1
    <3> QED BY <3>1, <3>2 DEF Shows
  <2> QED BY <2>1, <2>2, <2>3
<1>14. P # 0 => nk[0] = <<root>> /\ nh[P] = {}
  <2> SUFFICES ASSUME P # 0 PROVE nk[0] = <<root>> /\ nh[P] = {}
    OBVIOUS
  <2>1. P \in L /\ P \in L \ {c} /\ 0 # c /\ 0 # P /\ 0 \in L \cup {0}
    BY <1>3, <1>5
  <2>2. held[P] = {}
    BY <1>1, <2>1 DEF ChildOf, Shows
  <2> QED BY <1>1, <1>8, <1>11, <2>1, <2>2
<1>15. L \cup {x} \subseteq 1..Len(new)
  BY <1>2, <1>3
<1>16. Above(new, root, P) \in Seq(L \cup {x})
  <2>1. kids[P] \in Seq(L)
    BY <1>2, <1>5
  <2> QED BY <1>4, <2>1
<1>17. j \in 1..Len(Above(new, root, P))
  BY <1>4, <1>5
<1>18. \E k, r, h :
       /\ Frame(L \cup {x}, k, r, h, H \cup E)
       /\ k[P] = InsertAt(Above(new, root, P), j + 1, x)
       /\ P # 0 => k[0] = <<root>> /\ h[P] = {}
       /\ \A p \in L \cup {x} : p # P => Shows(new, k, r, h, p)
  BY <1>10, <1>11, <1>13, <1>14, Zenon
<1> QED BY <1>2, <1>4, <1>5, <1>15, <1>16, <1>17, <1>18 DEF Untold

\* A split told to page P, which has room for it.
LEMMA InternalRoomPicture ==
  ASSUME NEW ns, NEW root, NEW L, NEW H, NEW P, NEW j, NEW x, Untold(ns, root, L, H, P, j, x),
         P # 0, NEW new, Len(new) = Len(ns), \A q \in 1..Len(ns) : q # P => new[q] = ns[q],
         ~new[P].leaf, new[P].ptrs = InsertAt(ns[P].ptrs, j + 1, x)
  PROVE  Picture(new, root, L, H)
<1>1. PICK kids, right, held :
       /\ Frame(L, kids, right, held, H)
       /\ kids[P] = InsertAt(Above(ns, root, P), j + 1, x)
       /\ P # 0 => kids[0] = <<root>> /\ held[P] = {}
       /\ \A p \in L : p # P => Shows(ns, kids, right, held, p)
  BY DEF Untold
<1>2. /\ L \subseteq 1..Len(new) /\ root \in L /\ P \in L
      /\ \A p \in L : p # P => new[p] = ns[p]
  BY DEF Untold
<1>3. ASSUME NEW p \in L PROVE Shows(new, kids, right, held, p)
  <2>1. CASE p = P
    BY <1>1, <2>1 DEF Shows, Above
  <2>2. CASE p # P
    BY <1>1, <1>2, <2>2 DEF Shows
  <2> QED BY <2>1, <2>2
<1> QED BY <1>1, <1>2, <1>3 DEF Picture

\* A split told to page P, which is split in its turn.
LEMMA InternalSplitPicture ==
  ASSUME NEW ns, NEW root, NEW L, NEW H, NEW P, NEW j, NEW x, Untold(ns, root, L, H, P, j, x),
         NEW G, NEW g, ChildOf(ns, root, L, G, g, P), NEW new, Grew(ns, new, P),
         NEW y, y = Len(ns) + 1, P # 0, ~new[P].leaf, ~new[y].leaf,
         new[P].ptrs \in Seq(Nat), new[y].ptrs \in Seq(Nat),
         Parts(InsertAt(ns[P].ptrs, j + 1, x), new[P].ptrs, new[y].ptrs),
         Len(new[P].ptrs) > 0, Len(new[y].ptrs) > 0
  PROVE  Untold(new, root, L \cup {y}, H, G, g, y)
<1>1. PICK kids, right, held :
       /\ Frame(L, kids, right, held, H)
       /\ kids[P] = InsertAt(ns[P].ptrs, j + 1, x)
       /\ kids[0] = <<root>> /\ held[P] = {}
       /\ \A p \in L : p # P => Shows(ns, kids, right, held, p)
  BY DEF Untold, Above
<1>2. /\ Placed(L, kids) /\ L \subseteq 1..Len(ns) /\ root \in L /\ P \in L
      /\ kids \in [L \cup {0} -> Seq(L)] /\ 0 \notin L
  BY <1>1 DEF Untold, Frame, Placed, Typed
<1>3. y \in Nat \ {0} /\ y \notin L /\ Len(new) = y
  BY <1>2 DEF Grew
<1>4. kids[G] = Above(ns, root, G) /\ Above(new, root, G) = Above(ns, root, G)
      /\ (G # 0 => ~new[G].leaf)
  BY <1>1, <1>2, <1>3 DEF ChildOf, Above, Shows, Grew
<1>5. G \in L \cup {0} /\ G # P /\ g \in 1..Len(kids[G]) /\ kids[G][g] = P
  BY <1>4 DEF ChildOf
<1> DEFINE a  == new[P].ptrs
           b  == new[y].ptrs
           nk == SplitKids(L, kids, P, y, G, g, a, b)
           nr == SplitRight(right, L, P, y)
           nh == [p \in L \cup {y} |-> IF p = y THEN {} ELSE held[p]]
<1>6. a \in Seq(L) /\ b \in Seq(L)
  <2>1. kids[P] \in Seq(L)
    BY <1>2
  <2>2. Parts(kids[P], a, b) /\ a \in Seq(Nat) /\ b \in Seq(Nat)
    BY <1>1
  <2> HIDE DEF a, b
  <2> QED BY <2>1, <2>2, PartsIn
<1>7. SplitRows(L, kids, P, y, G, g, Len(a), nk)
  <2>1. Parts(kids[P], a, b) /\ (Len(a) = 0 <=> Len(b) = 0)
    BY <1>1
  <2> HIDE DEF a, b
  <2> QED BY <1>2, <1>3, <1>5, <1>6, <2>1, SplitMade
<1>8. nh[y] = {} /\ nh[P] = {} /\ \A p \in L : nh[p] = held[p]
  BY <1>1, <1>2, <1>3
<1>9. nh \in [L \cup {y} -> SUBSET Entry]
  BY <1>1 DEF Frame, Shared
<1> HIDE DEF nh
<1>10. Frame(L \cup {y}, nk, nr, nh, H)
  <2>1. /\ \A p \in L \ {P} : nh[p] = held[p]
        /\ nh[P] \cup nh[y] = held[P] \cup {} /\ nh[P] \cap nh[y] = {} /\ {} \cap H = {}
    BY <1>1, <1>8
  <2> HIDE DEF nk
  <2>2. Frame(L \cup {y}, nk, nr, nh, H \cup {})
    BY <1>1, <1>7, <1>9, <2>1, FrameSplit, Zenon
  <2> QED BY <2>2
<1>11. /\ nk[P] = a /\ nk[y] = b /\ nk[G] = InsertAt(Above(new, root, G), g + 1, y)
       /\ \A p \in L \cup {0} : p # P /\ p # G => nk[p] = kids[p]
  BY <1>2, <1>3, <1>4, <1>5 DEF SplitKids
<1>12. \A p \in L : p # P => nr[p] = right[p]
  BY <1>3, <1>5 DEF SplitRight
<1> HIDE DEF nk, nr
<1>13. ASSUME NEW p \in L \cup {y}, p # G PROVE Shows(new, nk, nr, nh, p)
  <2>1. CASE p = P
    BY <1>5, <1>8, <1>11, <2>1 DEF Shows
  <2>2. CASE p = y
    BY <1>8, <1>11, <2>2 DEF Shows
  <2>3. CASE p # P /\ p # y
    <3>1. p \in L /\ new[p] = ns[p] /\ Shows(ns, kids, right, held, p)
      BY <1>1, <1>2, <1>13, <2>3 DEF Grew
    <3>2. nk[p] = kids[p] /\ nr[p] = right[p] /\ nh[p] = held[p]
      BY <1>8, <1>11, <1>12, <1>13, <2>3, <3>1
    <3> QED BY <3>1, <3>2 DEF Shows
  <2> QED BY <2>1, <2>2, <2>3
<1>14. G # 0 => nk[0] = <<root>> /\ nh[G] = {}
  <2> SUFFICES ASSUME G # 0 PROVE nk[0] = <<root>> /\ nh[G] = {}
    OBVIOUS
  <2>1. G \in L /\ G # P /\ 0 # P /\ 0 # G /\ 0 \in L \cup {0}
    BY <1>2, <1>5
  <2>2. held[G] = {}
    BY <1>1, <2>1 DEF ChildOf, Shows
  <2> QED BY <1>1, <1>8, <1>11, <2>1, <2>2
<1>15. L \cup {y} \subseteq 1..Len(new)
  BY <1>2, NextPage DEF Grew
<1>16. Above(new, root, G) \in Seq(L \cup {y})
  <2>1. kids[G] \in Seq(L)
    BY <1>2, <1>5
  <2> QED BY <1>4, <2>1
<1>17. g \in 1..Len(Above(new, root, G))
  BY <1>4, <1>5
<1>18. \E k, r, h :
       /\ Frame(L \cup {y}, k, r, h, H)
       /\ k[G] = InsertAt(Above(new, root, G), g + 1, y)
       /\ G # 0 => k[0] = <<root>> /\ h[G] = {}
       /\ \A p \in L \cup {y} : p # G => Shows(new, k, r, h, p)
  BY <1>10, <1>11, <1>13, <1>14, Zenon
<1> QED BY <1>2, <1>4, <1>5, <1>15, <1>16, <1>17, <1>18 DEF Untold

\* A split told at the top: a new root.
LEMMA RootPicture ==
  ASSUME NEW ns, NEW root, NEW L, NEW H, NEW x, Untold(ns, root, L, H, 0, 1, x),
         NEW new, Len(ns) \in Nat, Len(new) = Len(ns) + 1, \A q \in 1..Len(ns) : new[q] = ns[q],
         NEW y, y = Len(ns) + 1, ~new[y].leaf, new[y].ptrs = <<root, x>>
  PROVE  Picture(new, y, L \cup {y}, H)
<1>1. PICK kids, right, held :
       /\ Frame(L, kids, right, held, H)
       /\ kids[0] = InsertAt(<<root>>, 1 + 1, x)
       /\ \A p \in L : p # 0 => Shows(ns, kids, right, held, p)
  BY DEF Untold, Above
<1>2. L \subseteq 1..Len(ns) /\ root \in L /\ x \in L /\ 0 \notin L
  BY DEF Untold
<1>3. y \in Nat \ {0} /\ y \notin L /\ L \cup {y} \subseteq 1..Len(new)
  BY <1>2, NextPage
<1>4. kids[0] = <<root, x>>
  <2> DEFINE s == InsertAt(<<root>>, 1 + 1, x)
  <2>1. <<root>> \in Seq(L) /\ 1 + 1 \in 1..Len(<<root>>) + 1
    BY <1>2
  <2>2. s \in Seq(L) /\ IsInsertion(s, <<root>>, 1 + 1, x)
    BY <1>2, <2>1, InsertionIs, Zenon
  <2> HIDE DEF s
  <2>3. Len(s) = 2 /\ s[1] = root /\ s[2] = x
    BY <2>2 DEF IsInsertion
  <2>4. s = <<root, x>>
    BY <2>2, <2>3
  <2> QED BY <1>1, <2>4 DEF s
<1> DEFINE nk == ToppedKids(L, kids, y)
           nr == ToppedRight(L, right, y)
           nh == ToppedHeld(L, held, y)
<1>5. Frame(L \cup {y}, nk, nr, nh, H)
  BY <1>1, <1>3, FrameTopped
<1>6. /\ nk[0] = <<y>> /\ nk[y] = <<root, x>> /\ nh[y] = {}
      /\ \A p \in L : nk[p] = kids[p] /\ nr[p] = right[p] /\ nh[p] = held[p] /\ new[p] = ns[p]
  BY <1>2, <1>3, <1>4 DEF ToppedKids, ToppedRight, ToppedHeld
<1> HIDE DEF nk, nr, nh
<1>7. ASSUME NEW p \in L \cup {y} PROVE Shows(new, nk, nr, nh, p)
  <2>1. CASE p = y
    BY <1>6, <2>1 DEF Shows
  <2>2. CASE p \in L
    <3>1. Shows(ns, kids, right, held, p)
      BY <1>1, <1>2, <2>2
    <3> QED BY <1>6, <2>2, <3>1 DEF Shows
  <2> QED BY <2>1, <2>2
<1> QED BY <1>3, <1>5, <1>6, <1>7 DEF Picture

\* The leaves C get other entries, and other pages no other pointers.
Reheld(ns, new, L, C) ==
  /\ C \subseteq L /\ Len(new) = Len(ns)
  /\ \A q \in C : /\ ns[q].leaf /\ new[q].leaf /\ new[q].next = ns[q].next
                  /\ Distinct(new[q].entries) /\ InSeq(new[q].entries) \subseteq Entry
  /\ \A q \in L \ C : \/ new[q] = ns[q]
                      \/ ~ns[q].leaf /\ ~new[q].leaf /\ new[q].ptrs = ns[q].ptrs
  /\ \A p, q \in C : p # q => InSeq(new[p].entries) \cap InSeq(new[q].entries) = {}

\* The entries of the leaves C.
HeldBy(ns, C) == UNION {InSeq(ns[q].entries) : q \in C}

\* Leaves that trade entries, gain some or lose some change what the picture holds.
LEMMA EntriesChanged ==
  ASSUME NEW ns, NEW root, NEW L, NEW H, Picture(ns, root, L, H), NEW new, NEW C,
         Reheld(ns, new, L, C), \A e \in HeldBy(new, C) : e \in HeldBy(ns, C) \/ e \notin H
  PROVE  Picture(new, root, L, (H \ HeldBy(ns, C)) \cup HeldBy(new, C))
<1>1. PICK kids, right, held : /\ Frame(L, kids, right, held, H) /\ kids[0] = <<root>>
                               /\ \A p \in L : Shows(ns, kids, right, held, p)
  BY DEF Picture
<1> DEFINE nh == [p \in L |-> IF p \in C THEN InSeq(new[p].entries) ELSE held[p]]
           F  == HeldBy(ns, C)
           G  == HeldBy(new, C)
<1>2. /\ \A p \in C : nh[p] = InSeq(new[p].entries) /\ held[p] = InSeq(ns[p].entries)
      /\ \A p \in L \ C : nh[p] = held[p]
  BY <1>1 DEF Reheld, Shows
<1>3. nh \in [L -> SUBSET Entry]
  <2>1. held \in [L -> SUBSET Entry]
    BY <1>1 DEF Frame, Shared
  <2>2. \A p \in L : (IF p \in C THEN InSeq(new[p].entries) ELSE held[p]) \in SUBSET Entry
    BY <2>1 DEF Reheld
  <2> QED BY <2>2
<1> HIDE DEF nh
<1>4. /\ \A e : e \in F <=> \E p \in C : e \in held[p]
      /\ \A e : e \in G <=> \E p \in C : e \in nh[p]
  <2>1. /\ \A e : e \in F <=> \E p \in C : e \in InSeq(ns[p].entries)
        /\ \A e : e \in G <=> \E p \in C : e \in InSeq(new[p].entries)
    BY DEF HeldBy
  <2> HIDE DEF F, G
  <2> QED BY <1>2, <2>1
<1>5. Traded(L, held, H, L, nh, C, C, F, G)
  <2> HIDE DEF F, G
  <2>1. C \subseteq L /\ \A p, q \in C : p # q => nh[p] \cap nh[q] = {}
    BY <1>2 DEF Reheld
  <2>2. \A e \in G : e \in F \/ e \notin H
    BY DEF F, G
  <2> QED BY <1>2, <1>3, <1>4, <2>1, <2>2 DEF Traded
<1>6. Frame(L, kids, right, nh, (H \ F) \cup G)
  <2>1. Shared(L, held, H)
    BY <1>1 DEF Frame
  <2>2. Shared(L, nh, (H \ F) \cup G)
    BY <1>5, <2>1, SharedChanged, Zenon
  <2> QED BY <1>1, <2>2 DEF Frame
<1>7. ASSUME NEW p \in L PROVE Shows(new, kids, right, nh, p)
  <2>1. Shows(ns, kids, right, held, p)
    BY <1>1
  <2>2. CASE p \in C
    BY <1>2, <2>1, <2>2 DEF Shows, Reheld
  <2>3. CASE p \notin C
    BY <1>2, <2>1, <2>3 DEF Shows, Reheld
  <2> QED BY <2>2, <2>3
<1>8. L \subseteq 1..Len(new) /\ root \in L
  BY DEF Picture, Reheld
<1> HIDE DEF F, G
<1>9. Picture(new, root, L, (H \ F) \cup G)
  BY <1>1, <1>6, <1>7, <1>8 DEF Picture
<1> QED BY <1>9 DEF F, G

\* The children after page x, behind c below P, is joined to c, with the children a; b are
\* those left to P.
JoinKids(L, kids, c, x, P, a, b) ==
  [p \in (L \ {x}) \cup {0} |-> IF p = c THEN a ELSE IF p = P THEN b ELSE kids[p]]

\* The pages c and x are side by side below P.
SideBySide(L, kids, P, at, c, x) ==
  /\ P \in L \cup {0} /\ at \in Nat \ {0} /\ at + 1 \in 1..Len(kids[P])
  /\ kids[P][at] = c /\ kids[P][at + 1] = x /\ P # c /\ P # x
  /\ (Len(kids[c]) = 0 <=> Len(kids[x]) = 0)

\* They are the rows that a split of c into c and x would turn into the ones before.
Joins(L, kids, c, x, P, at, a, b) ==
  /\ Typed(L \ {x}, JoinKids(L, kids, c, x, P, a, b))
  /\ SplitRows(L \ {x}, JoinKids(L, kids, c, x, P, a, b), c, x, P, at, Len(kids[c]), kids)
  /\ c \in L /\ x \in L /\ c # x /\ (L \ {x}) \cup {x} = L /\ (L \ {x}) \cup {x, 0} = L \cup {0}

\* Two pages side by side can be joined.
LEMMA JoinMade ==
  ASSUME NEW L, NEW kids, Placed(L, kids), NEW P, NEW at, NEW c, NEW x,
         SideBySide(L, kids, P, at, c, x),
         NEW a \in Seq(Nat), Parts(a, kids[c], kids[x]),
         NEW b \in Seq(Nat), IsRemoval(b, kids[P], at + 1)
  PROVE  Joins(L, kids, c, x, P, at, a, b)
<1> DEFINE nk == JoinKids(L, kids, c, x, P, a, b)
           M  == L \ {x}
<1>1. L \subseteq Nat \ {0} /\ kids \in [L \cup {0} -> Seq(L)] /\ 0 \notin L
  BY DEF Placed, Typed
<1>2. /\ \A p, q \in L \cup {0} : \A i \in 1..Len(kids[p]), k \in 1..Len(kids[q]) :
            kids[p][i] = kids[q][k] => p = q /\ i = k
      /\ \A p \in L \cup {0} : \A i \in 1..Len(kids[p]) : kids[p][i] \in L
      /\ \A p \in L \cup {0} : kids[p] \in Seq(L) /\ Len(kids[p]) \in Nat
  BY <1>1, SeqFacts DEF Placed
<1>3. /\ P \in L \cup {0} /\ at \in 1..Len(kids[P]) /\ at + 1 \in 1..Len(kids[P])
      /\ kids[P][at] = c /\ kids[P][at + 1] = x /\ P # c /\ P # x
  BY <1>2 DEF SideBySide
<1>4. c \in L /\ x \in L /\ c # x
  <2>1. c \in L /\ x \in L
    BY <1>2, <1>3
  <2>2. c = x => at = at + 1
    BY <1>2, <1>3
  <2> QED BY <1>3, <2>1, <2>2
<1>5. \A p \in L \cup {0} : \A i \in 1..Len(kids[p]) :
         kids[p][i] \in M \/ (p = P /\ i = at + 1)
  BY <1>2, <1>3
<1>6. (L \ {x}) \cup {x} = L /\ (L \ {x}) \cup {x, 0} = L \cup {0} /\ c \in M /\ x \notin M
  BY <1>4
<1>7. nk[c] = a /\ nk[P] = b /\ \A p \in M \cup {0} : p # c /\ p # P => nk[p] = kids[p]
  BY <1>3, <1>4 DEF JoinKids
<1>8. a \in Seq(M)
  <2>1. \A i \in 1..Len(kids[c]) : kids[c][i] \in M
    BY <1>3, <1>4, <1>5
  <2>2. \A i \in 1..Len(kids[x]) : kids[x][i] \in M
    BY <1>3, <1>4, <1>5
  <2>3. \A i \in 1..Len(a) : a[i] \in M
    <3> SUFFICES ASSUME NEW i \in 1..Len(a) PROVE a[i] \in M
      OBVIOUS
    <3>1. Len(a) = Len(kids[c]) + Len(kids[x]) /\ Len(kids[c]) \in Nat /\ Len(kids[x]) \in Nat
      BY <1>2, <1>4 DEF Parts
    <3>2. CASE i \in 1..Len(kids[c])
      BY <2>1, <3>2 DEF Parts
    <3>3. CASE i \notin 1..Len(kids[c])
      <4>1. i - Len(kids[c]) \in 1..Len(kids[x]) /\ Len(kids[c]) + (i - Len(kids[c])) = i
        <5>1. i \in 1..Len(kids[c]) + Len(kids[x])
          BY <3>1
        <5> QED BY <3>1, <3>3, <5>1, Offset
      <4>2. a[Len(kids[c]) + (i - Len(kids[c]))] = kids[x][i - Len(kids[c])]
        BY <4>1 DEF Parts
      <4> QED BY <2>2, <4>1, <4>2
    <3> QED BY <3>2, <3>3
  <2> QED BY <2>3, SeqIn
<1>9. b \in Seq(M)
  <2>1. \A i \in 1..Len(b) : b[i] \in M
    <3> SUFFICES ASSUME NEW i \in 1..Len(b) PROVE b[i] \in M
      OBVIOUS
    <3>1. /\ Len(b) = Len(kids[P]) - 1 /\ Len(kids[P]) \in Nat /\ i \in 1..Len(kids[P]) - 1
          /\ b[i] = IF i < at + 1 THEN kids[P][i] ELSE kids[P][i + 1]
      BY <1>2, <1>3 DEF IsRemoval
    <3>2. CASE i < at + 1
      <4>1. i \in 1..Len(kids[P]) /\ i # at + 1
        BY <1>3, <3>1, <3>2
      <4> QED BY <1>3, <1>5, <3>1, <3>2, <4>1
    <3>3. CASE ~(i < at + 1)
      <4>1. i + 1 \in 1..Len(kids[P]) /\ i + 1 # at + 1
        BY <1>3, <3>1, <3>3
      <4> QED BY <1>3, <1>5, <3>1, <3>3, <4>1
    <3> QED BY <3>2, <3>3
  <2> QED BY <2>1, SeqIn
<1>10. nk \in [M \cup {0} -> Seq(M)]
  <2>1. \A p \in M \cup {0} : p # P => kids[p] \in Seq(M)
    <3> SUFFICES ASSUME NEW p \in M \cup {0}, p # P PROVE kids[p] \in Seq(M)
      OBVIOUS
    <3>1. kids[p] \in Seq(L) /\ \A i \in 1..Len(kids[p]) : kids[p][i] \in M
      BY <1>2, <1>5
    <3> QED BY <3>1, SeqIn
  <2>2. \A p \in M \cup {0} : (IF p = c THEN a ELSE IF p = P THEN b ELSE kids[p]) \in Seq(M)
    BY <1>8, <1>9, <2>1
  <2> QED BY <2>2 DEF JoinKids
<1> HIDE DEF nk, M
<1>11. IsInsertion(kids[P], b, at + 1, x)
  <2>1. /\ Len(b) = Len(kids[P]) - 1 /\ Len(kids[P]) \in Nat /\ at \in Nat
        /\ \A i \in 1..Len(kids[P]) - 1 : b[i] = IF i < at + 1 THEN kids[P][i] ELSE kids[P][i + 1]
    BY <1>2, <1>3 DEF IsRemoval
  <2>2. ASSUME NEW i \in 1..Len(b) + 1
        PROVE  /\ i < at + 1 => kids[P][i] = b[i]
               /\ i > at + 1 => kids[P][i] = b[i - 1]
    <3>1. ASSUME i < at + 1 PROVE kids[P][i] = b[i]
      <4>1. i \in 1..Len(kids[P]) - 1
        BY <1>3, <2>1, <3>1
      <4> QED BY <2>1, <3>1, <4>1
    <3>2. ASSUME i > at + 1 PROVE kids[P][i] = b[i - 1]
      <4>1. i - 1 \in 1..Len(kids[P]) - 1 /\ ~(i - 1 < at + 1) /\ (i - 1) + 1 = i
        BY <1>3, <2>1, <3>2
      <4> QED BY <2>1, <4>1
    <3> QED BY <3>1, <3>2
  <2>3. Len(kids[P]) = Len(b) + 1
    BY <2>1
  <2>4. kids[P][at + 1] = x
    BY <1>3
  <2> QED BY <2>2, <2>3, <2>4, Zenon DEF IsInsertion
<1>12. at \in 1..Len(b) /\ b[at] = c
  <2>1. /\ Len(b) = Len(kids[P]) - 1 /\ Len(kids[P]) \in Nat /\ at \in Nat
        /\ \A i \in 1..Len(kids[P]) - 1 : b[i] = IF i < at + 1 THEN kids[P][i] ELSE kids[P][i + 1]
    BY <1>2, <1>3 DEF IsRemoval
  <2>2. at \in 1..Len(kids[P]) - 1 /\ at < at + 1
    BY <1>3, <2>1
  <2> QED BY <1>3, <2>1, <2>2
<1>13. Typed(M, nk)
  BY <1>1, <1>10 DEF Typed, M
<1>14. SplitRows(M, nk, c, x, P, at, Len(kids[c]), kids)
  <2>1. P \in M \cup {0} /\ x \in Nat \ {0} /\ M \cup {x, 0} = L \cup {0} /\ M \cup {x} = L
    BY <1>1, <1>3, <1>4, <1>6 DEF M
  <2>2. Parts(nk[c], kids[c], kids[x]) /\ IsInsertion(kids[P], nk[P], at + 1, x)
    BY <1>7, <1>11
  <2>3. \A p \in M \cup {0} : p # c /\ p # P => kids[p] = nk[p]
    BY <1>7
  <2>4. at \in 1..Len(nk[P]) /\ nk[P][at] = c
    BY <1>7, <1>12
  <2> QED BY <1>1, <1>3, <1>6, <2>1, <2>2, <2>3, <2>4 DEF SplitRows, SideBySide
<1> QED BY <1>4, <1>6, <1>13, <1>14 DEF nk, M, Joins

\* RemoveAt removes.
LEMMA RemovalIs ==
  \A S : \A s \in Seq(S) : \A at \in 1..Len(s) :
     RemoveAt(s, at) \in Seq(S) /\ IsRemoval(RemoveAt(s, at), s, at)
BY RemoveAtIs DEF IsRemoval

\* An insertion has one outcome.
LEMMA SameInsertion ==
  ASSUME NEW S, NEW s \in Seq(S), NEW u \in Seq(S), NEW v \in Seq(S), NEW at \in Nat, NEW x,
         IsInsertion(u, s, at, x), IsInsertion(v, s, at, x)
  PROVE  u = v
<1>1. /\ Len(u) = Len(s) + 1 /\ Len(v) = Len(s) + 1 /\ u[at] = x /\ v[at] = x
      /\ \A i \in 1..Len(s) + 1 : /\ i < at => u[i] = s[i] /\ v[i] = s[i]
                                  /\ i > at => u[i] = s[i - 1] /\ v[i] = s[i - 1]
  BY DEF IsInsertion
<1>2. ASSUME NEW i \in 1..Len(s) + 1 PROVE u[i] = v[i]
  <2>1. CASE i = at
    BY <1>1, <2>1
  <2>2. CASE i < at
    BY <1>1, <2>2
  <2>3. CASE i > at
    BY <1>1, <2>3
  <2> QED BY <2>1, <2>2, <2>3
<1> QED BY <1>1, <1>2

\* The pages c and x joined.
LEMMA FrameJoined ==
  ASSUME NEW L, NEW kids, NEW right, NEW held, NEW H, Frame(L, kids, right, held, H),
         NEW P, NEW at, NEW c, NEW x, SideBySide(L, kids, P, at, c, x),
         NEW a \in Seq(Nat), Parts(a, kids[c], kids[x]),
         NEW b \in Seq(Nat), IsRemoval(b, kids[P], at + 1),
         NEW nh, nh = [p \in L \ {x} |-> IF p = c THEN held[c] \cup held[x] ELSE held[p]]
  PROVE  Frame(L \ {x}, JoinKids(L, kids, c, x, P, a, b), MergeRight(right, L \ {x}, c, x), nh, H)
<1> DEFINE nk == JoinKids(L, kids, c, x, P, a, b)
           M  == L \ {x}
<1>1. Placed(L, kids)
  BY DEF Frame
<1>2. /\ Typed(M, nk) /\ SplitRows(M, nk, c, x, P, at, Len(kids[c]), kids)
      /\ c \in L /\ x \in L /\ c # x /\ M \cup {x} = L
  <2>1. Joins(L, kids, c, x, P, at, a, b)
    BY <1>1, JoinMade, Zenon
  <2> QED BY <2>1 DEF Joins
<1>3. nh \in [M -> SUBSET Entry] /\ nh[c] = held[c] \cup held[x] /\ \A p \in M \ {c} : nh[p] = held[p]
  <2>1. held \in [L -> SUBSET Entry]
    BY DEF Frame, Shared
  <2> QED BY <1>2, <2>1
<1> HIDE DEF nk, M
<1>4. Frame(M \cup {x}, kids, right, held, H)
  BY <1>2
<1>5. Frame(M, nk, MergeRight(right, M, c, x), nh, H)
  BY <1>2, <1>3, <1>4, FrameMerge, Zenon
<1> QED BY <1>5 DEF nk, M

\* Children moved between the pages c and x, side by side.
ShiftKids(L, kids, c, x, a, b) ==
  [p \in L \cup {0} |-> IF p = c THEN a ELSE IF p = x THEN b ELSE kids[p]]

\* Children that move between neighbours: a merge, and a split at another place.
LEMMA FrameShifted ==
  ASSUME NEW L, NEW kids, NEW right, NEW held, NEW H, Frame(L, kids, right, held, H),
         NEW P, NEW at, NEW c, NEW x, SideBySide(L, kids, P, at, c, x),
         NEW z \in Seq(Nat), Parts(z, kids[c], kids[x]),
         NEW a \in Seq(L \ {x}), NEW b \in Seq(L \ {x}), Parts(z, a, b), Len(a) = 0 <=> Len(b) = 0
  PROVE  Frame(L, ShiftKids(L, kids, c, x, a, b), right, held, H)
<1> DEFINE M  == L \ {x}
           b0 == RemoveAt(kids[P], at + 1)
           mk == JoinKids(L, kids, c, x, P, z, b0)
           mr == MergeRight(right, M, c, x)
           mh == [p \in M |-> IF p = c THEN held[c] \cup held[x] ELSE held[p]]
<1>1. /\ L \subseteq Nat \ {0} /\ kids \in [L \cup {0} -> Seq(L)] /\ 0 \notin L /\ Placed(L, kids)
      /\ \A s \in Seq(L) : s \in Seq(Nat)
  <2>1. L \subseteq Nat \ {0} /\ kids \in [L \cup {0} -> Seq(L)] /\ Placed(L, kids)
    BY DEF Frame, Placed, Typed
  <2>2. \A s \in Seq(L) : \A i \in 1..Len(s) : s[i] \in Nat
    BY <2>1, SeqFacts
  <2> QED BY <2>1, <2>2, SeqIn
<1>2. /\ P \in L \cup {0} /\ at \in Nat \ {0} /\ at + 1 \in 1..Len(kids[P])
      /\ kids[P][at] = c /\ kids[P][at + 1] = x /\ P # c /\ P # x
  BY DEF SideBySide
<1>3. b0 \in Seq(Nat) /\ IsRemoval(b0, kids[P], at + 1)
  <2>1. kids[P] \in Seq(Nat)
    BY <1>1, <1>2
  <2> QED BY <1>2, <2>1, RemovalIs
<1> HIDE DEF b0
<1>4. /\ SplitRows(M, mk, c, x, P, at, Len(kids[c]), kids)
      /\ c \in L /\ x \in L /\ c # x /\ M \cup {x} = L /\ M \cup {x, 0} = L \cup {0}
  <2>1. Joins(L, kids, c, x, P, at, z, b0)
    BY <1>1, <1>3, JoinMade, Zenon
  <2> QED BY <2>1 DEF Joins
<1>5. Frame(M, mk, mr, mh, H)
  BY <1>3, FrameJoined
<1>6. /\ mk[c] = z /\ mk[P] = b0 /\ \A p \in M \cup {0} : p # c /\ p # P => mk[p] = kids[p]
  BY <1>2, <1>4 DEF JoinKids
<1>7. /\ mr[c] = right[x] /\ \A p \in M \cup {0} : p # c => mr[p] = right[p]
  BY <1>1, <1>4 DEF MergeRight
<1>8. mh[c] = held[c] \cup held[x] /\ \A p \in M \ {c} : mh[p] = held[p]
  BY <1>4
<1>9. /\ at \in 1..Len(mk[P]) /\ mk[P][at] = c /\ P \in M \cup {0} /\ c \in M /\ x \notin M
      /\ IsInsertion(kids[P], b0, at + 1, x) /\ x \in Nat \ {0}
  BY <1>1, <1>2, <1>4, <1>6 DEF SplitRows
<1> DEFINE nk == SplitKids(M, mk, c, x, P, at, a, b)
           nr == SplitRight(mr, M, c, x)
<1> HIDE DEF mk, mr, mh, M
<1>10. SplitRows(M, mk, c, x, P, at, Len(a), nk)
  <2>1. Placed(M, mk) /\ Parts(mk[c], a, b) /\ (Len(a) = 0 <=> Len(b) = 0)
    BY <1>5, <1>6 DEF Frame
  <2>2. a \in Seq(M) /\ b \in Seq(M) /\ P # c
    BY <1>2 DEF M
  <2> QED BY <1>9, <2>1, <2>2, SplitMade
<1>11. Shared(L, held, H)
  BY DEF Frame
<1>12. Frame(M \cup {x}, nk, nr, held, H \cup {})
  <2>1. /\ held \in [M \cup {x} -> SUBSET Entry] /\ \A p \in M \ {c} : held[p] = mh[p]
        /\ {} \cap H = {} /\ held[c] \cup held[x] = mh[c] \cup {} /\ held[c] \cap held[x] = {}
    BY <1>4, <1>8, <1>11 DEF Shared
  <2> HIDE DEF nk, nr
  <2>2. Frame(M \cup {x}, nk, SplitRight(mr, M, c, x), held, H \cup {})
    BY <1>5, <1>10, <2>1, FrameSplit, Zenon
  <2> QED BY <2>2 DEF nr
<1>13. nr = right
  <2>1. right \in [L \cup {0} -> L \cup {0}]
    BY DEF Frame, Rows
  <2>2. right[c] = x
    <3>1. at \in 1..Len(kids[P]) /\ at < Len(kids[P])
      <4>1. Len(kids[P]) \in Nat
        BY <1>1, <1>2, SeqFacts
      <4> QED BY <1>2, <4>1
    <3>2. right[kids[P][at]] = Beside(kids, right, P, at)
      BY <1>2, <3>1 DEF Frame, Rows
    <3> QED BY <1>2, <3>1, <3>2 DEF Beside
  <2>3. nr = [p \in L \cup {0} |-> IF p = c THEN x ELSE IF p = x THEN mr[c] ELSE mr[p]]
    BY <1>4 DEF SplitRight
  <2>4. \A p \in L \cup {0} : (IF p = c THEN x ELSE IF p = x THEN mr[c] ELSE mr[p]) = right[p]
    BY <1>7, <2>2 DEF M
  <2> HIDE DEF nr
  <2> QED BY <2>1, <2>3, <2>4
<1>14. nk = ShiftKids(L, kids, c, x, a, b)
  <2>1. InsertAt(b0, at + 1, x) = kids[P]
    <3>4. at \in 1..Len(b0)
      BY <1>6, <1>9
    <3>5. at + 1 \in 1..Len(b0) + 1
      BY <1>3, <3>4
    <3>1. /\ b0 \in Seq(Nat) /\ kids[P] \in Seq(Nat) /\ at + 1 \in 1..Len(b0) + 1 /\ x \in Nat
      BY <1>1, <1>2, <1>3, <1>9, <3>5
    <3>2. InsertAt(b0, at + 1, x) \in Seq(Nat) /\ IsInsertion(InsertAt(b0, at + 1, x), b0, at + 1, x)
      BY <3>1, InsertionIs, Zenon
    <3>3. at + 1 \in Nat
      BY <1>2
    <3>6. IsInsertion(kids[P], b0, at + 1, x)
      BY <1>9
    <3> DEFINE u == InsertAt(b0, at + 1, x)
               v == kids[P]
               i == at + 1
    <3>7. u \in Seq(Nat) /\ v \in Seq(Nat) /\ i \in Nat /\ IsInsertion(u, b0, i, x) /\ IsInsertion(v, b0, i, x)
      BY <3>1, <3>2, <3>3, <3>6
    <3> HIDE DEF u, v, i
    <3>8. u = v
      BY <3>1, <3>7, SameInsertion
    <3> QED BY <3>8 DEF u, v
  <2>2. nk = [p \in L \cup {0} |-> IF p = c THEN a ELSE IF p = x THEN b
                                   ELSE IF p = P THEN InsertAt(mk[P], at + 1, x) ELSE mk[p]]
    BY <1>4 DEF SplitKids
  <2>3. \A p \in L \cup {0} : p # c /\ p # x =>
           (IF p = P THEN InsertAt(mk[P], at + 1, x) ELSE mk[p]) = kids[p]
    BY <1>6, <2>1 DEF M
  <2> HIDE DEF nk
  <2> QED BY <2>2, <2>3 DEF ShiftKids
<1>15. H \cup {} = H
  OBVIOUS
<1> HIDE DEF nk, nr
<1> QED BY <1>4, <1>12, <1>13, <1>14, <1>15

\* The pages c and x, both leaves or both internal, joined to one.
JoinedPage(m, a, b) ==
  IF a.leaf THEN /\ b.leaf /\ m.leaf /\ m.next = b.next /\ Distinct(m.entries)
                 /\ InSeq(m.entries) = InSeq(a.entries) \cup InSeq(b.entries)
  ELSE /\ ~b.leaf /\ ~m.leaf /\ m.ptrs \in Seq(Nat) /\ Parts(m.ptrs, a.ptrs, b.ptrs)
       /\ Len(a.ptrs) > 0 /\ Len(b.ptrs) > 0

\* What stands side by side below an internal page does so in the rows.
Kindred(ns, c, x) ==
  \/ ns[c].leaf /\ ns[x].leaf
  \/ ~ns[c].leaf /\ ~ns[x].leaf /\ Len(ns[c].ptrs) > 0 /\ Len(ns[x].ptrs) > 0

\* The pages c and x are children at and at + 1 of P, both leaves or both internal.
Neighbours(ns, root, L, P, at, c, x) ==
  /\ P # 0 /\ at \in Nat \ {0} /\ Kindred(ns, c, x)
  /\ ChildOf(ns, root, L, P, at, c) /\ ChildOf(ns, root, L, P, at + 1, x)

\* Neighbours stand side by side in a picture of the pages.
LEMMA BesideBelow ==
  ASSUME NEW ns, NEW root, NEW L, NEW P, NEW at, NEW c, NEW x, Neighbours(ns, root, L, P, at, c, x),
         NEW kids, NEW right, NEW held, \A p \in L : Shows(ns, kids, right, held, p)
  PROVE  SideBySide(L, kids, P, at, c, x) /\ kids[P] = ns[P].ptrs
<1> USE DEF Neighbours
<1>0. /\ Shows(ns, kids, right, held, P) /\ Shows(ns, kids, right, held, c)
      /\ Shows(ns, kids, right, held, x)
  BY DEF ChildOf
<1>1. /\ P \in L \cup {0} /\ P # c /\ P # x /\ ~ns[P].leaf
      /\ at \in 1..Len(ns[P].ptrs) /\ ns[P].ptrs[at] = c
      /\ at + 1 \in 1..Len(ns[P].ptrs) /\ ns[P].ptrs[at + 1] = x
  BY DEF ChildOf, Above
<1>2. kids[P] = ns[P].ptrs
  BY <1>0, <1>1 DEF Shows
<1>3. Len(kids[c]) = 0 <=> Len(kids[x]) = 0
  <2>1. CASE ns[c].leaf /\ ns[x].leaf
    BY <1>0, <2>1 DEF Shows
  <2>2. CASE ~ns[c].leaf /\ ~ns[x].leaf /\ Len(ns[c].ptrs) > 0 /\ Len(ns[x].ptrs) > 0
    <3>1. kids[c] = ns[c].ptrs /\ kids[x] = ns[x].ptrs
      BY <1>0, <2>2 DEF Shows
    <3>2. Len(kids[c]) # 0 /\ Len(kids[x]) # 0
      BY <2>2, <3>1
    <3> QED BY <3>2
  <2> QED BY <2>1, <2>2 DEF Kindred
<1> QED BY <1>1, <1>2, <1>3 DEF SideBySide

\* A merge of neighbours: page x leaves the picture, and c holds what both did.
LEMMA MergedPicture ==
  ASSUME NEW ns, NEW root, NEW L, NEW H, Picture(ns, root, L, H), NEW P, P # 0,
         NEW at, at \in Nat \ {0}, NEW c, NEW x,
         ChildOf(ns, root, L, P, at, c), ChildOf(ns, root, L, P, at + 1, x),
         NEW new, Len(new) = Len(ns),
         \A q \in 1..Len(ns) : q # c /\ q # x /\ q # P => new[q] = ns[q],
         JoinedPage(new[c], ns[c], ns[x]),
         ~new[P].leaf, new[P].ptrs \in Seq(Nat), IsRemoval(new[P].ptrs, ns[P].ptrs, at + 1)
  PROVE  Picture(new, root, L \ {x}, H)
<1>1. PICK kids, right, held : /\ Frame(L, kids, right, held, H) /\ kids[0] = <<root>>
                               /\ \A p \in L : Shows(ns, kids, right, held, p)
  BY DEF Picture
<1>2. /\ P \in L /\ c \in L /\ x \in L /\ P # c /\ P # x /\ 0 \notin L /\ ~ns[P].leaf
      /\ L \subseteq 1..Len(ns) /\ root \in L /\ Placed(L, kids)
  BY <1>1 DEF ChildOf, Picture, Frame, Placed, Typed
<1>3. SideBySide(L, kids, P, at, c, x) /\ kids[P] = ns[P].ptrs
  <2>1. Kindred(ns, c, x)
    BY DEF JoinedPage, Kindred
  <2>2. Neighbours(ns, root, L, P, at, c, x)
    BY <2>1 DEF Neighbours
  <2>3. \A p \in L : Shows(ns, kids, right, held, p)
    BY <1>1
  <2>4. SideBySide(L, kids, P, at, c, x)
    BY <2>2, <2>3, BesideBelow, Zenon
  <2>5. kids[P] = ns[P].ptrs
    BY <1>2, <2>3 DEF Shows
  <2> QED BY <2>4, <2>5
<1> DEFINE a  == IF ns[c].leaf THEN << >> ELSE new[c].ptrs
           b  == new[P].ptrs
           nk == JoinKids(L, kids, c, x, P, a, b)
           nr == MergeRight(right, L \ {x}, c, x)
           nh == [p \in L \ {x} |-> IF p = c THEN held[c] \cup held[x] ELSE held[p]]
<1>4. a \in Seq(Nat) /\ Parts(a, kids[c], kids[x])
  <2>1. Shows(ns, kids, right, held, c) /\ Shows(ns, kids, right, held, x)
    BY <1>1, <1>2
  <2>2. CASE ns[c].leaf
    <3>1. kids[c] = << >> /\ kids[x] = << >> /\ a = << >>
      BY <2>1, <2>2 DEF Shows, JoinedPage
    <3>2. Parts(<< >>, << >>, << >>) /\ << >> \in Seq(Nat)
      BY DEF Parts
    <3> QED BY <3>1, <3>2
  <2>3. CASE ~ns[c].leaf
    BY <2>1, <2>3 DEF Shows, JoinedPage
  <2> QED BY <2>2, <2>3
<1>5. b \in Seq(Nat) /\ IsRemoval(b, kids[P], at + 1)
  BY <1>3
<1> HIDE DEF a, b
<1>6. Frame(L \ {x}, nk, nr, nh, H)
  BY <1>1, <1>3, <1>4, <1>5, FrameJoined
<1>7. c # x /\ x # root
  <2>1. Joins(L, kids, c, x, P, at, a, b)
    BY <1>2, <1>3, <1>4, <1>5, JoinMade, Zenon
  <2>2. P \in L \cup {0} /\ at + 1 \in 1..Len(kids[P]) /\ kids[P][at + 1] = x
    BY <1>3 DEF SideBySide
  <2>3. x = root => P = 0
    BY <1>1, <1>2, <2>2, TopPlace
  <2> QED BY <2>1, <2>3 DEF Joins
<1>8. /\ nk[c] = a /\ nk[P] = b /\ nk[0] = <<root>>
      /\ \A p \in L \ {x} : p # c /\ p # P => nk[p] = kids[p]
  BY <1>1, <1>2, <1>7 DEF JoinKids
<1>9. nr[c] = right[x] /\ \A p \in L \ {x} : p # c => nr[p] = right[p]
  BY <1>2, <1>7 DEF MergeRight
<1>10. nh[c] = held[c] \cup held[x] /\ \A p \in L \ {x} : p # c => nh[p] = held[p]
  BY <1>2, <1>7
<1> HIDE DEF nk, nr, nh
<1>11. ASSUME NEW p \in L \ {x} PROVE Shows(new, nk, nr, nh, p)
  <2>1. CASE p = c
    <3>1. Shows(ns, kids, right, held, c) /\ Shows(ns, kids, right, held, x)
      BY <1>1, <1>2
    <3>2. CASE ns[c].leaf
      BY <1>8, <1>9, <1>10, <2>1, <3>1, <3>2 DEF Shows, JoinedPage, a
    <3>3. CASE ~ns[c].leaf
      <4>1. held[c] = {} /\ held[x] = {} /\ ~new[c].leaf
        BY <3>1, <3>3 DEF Shows, JoinedPage
      <4> QED BY <1>8, <1>10, <2>1, <3>3, <4>1 DEF Shows, a
    <3> QED BY <3>2, <3>3
  <2>2. CASE p = P
    <3>1. held[P] = {}
      BY <1>1, <1>2 DEF Shows
    <3> QED BY <1>2, <1>8, <1>10, <1>11, <2>2, <3>1 DEF Shows, b
  <2>3. CASE p # c /\ p # P
    <3>1. p # x /\ p \in L /\ new[p] = ns[p] /\ Shows(ns, kids, right, held, p)
      BY <1>1, <1>2, <1>11, <2>3
    <3>2. nk[p] = kids[p] /\ nr[p] = right[p] /\ nh[p] = held[p]
      BY <1>8, <1>9, <1>10, <1>11, <2>3
    <3> QED BY <3>1, <3>2 DEF Shows
  <2> QED BY <2>1, <2>2, <2>3
<1>12. L \ {x} \subseteq 1..Len(new) /\ root \in L \ {x}
  BY <1>2, <1>7
<1>13. \E k, r, h : /\ Frame(L \ {x}, k, r, h, H) /\ k[0] = <<root>>
                    /\ \A p \in L \ {x} : Shows(new, k, r, h, p)
  BY <1>6, <1>8, <1>11, Zenon
<1> QED BY <1>12, <1>13 DEF Picture

\* Pointers moved between two internal pages.
LEMMA ShiftedPicture ==
  ASSUME NEW ns, NEW root, NEW L, NEW H, Picture(ns, root, L, H), NEW P, P # 0,
         NEW at, at \in Nat \ {0}, NEW c, NEW x,
         ChildOf(ns, root, L, P, at, c), ChildOf(ns, root, L, P, at + 1, x),
         NEW new, Len(new) = Len(ns),
         \A q \in 1..Len(ns) : q # c /\ q # x /\ q # P => new[q] = ns[q],
         ~ns[c].leaf, ~ns[x].leaf, ~new[c].leaf, ~new[x].leaf,
         Len(ns[c].ptrs) > 0, Len(ns[x].ptrs) > 0, Len(new[c].ptrs) > 0, Len(new[x].ptrs) > 0,
         new[c].ptrs \in Seq(Nat), new[x].ptrs \in Seq(Nat),
         NEW z \in Seq(Nat), Parts(z, ns[c].ptrs, ns[x].ptrs), Parts(z, new[c].ptrs, new[x].ptrs),
         ~new[P].leaf, new[P].ptrs = ns[P].ptrs
  PROVE  Picture(new, root, L, H)
<1>1. PICK kids, right, held : /\ Frame(L, kids, right, held, H) /\ kids[0] = <<root>>
                               /\ \A p \in L : Shows(ns, kids, right, held, p)
  BY DEF Picture
<1>2. /\ P \in L /\ c \in L /\ x \in L /\ P # c /\ P # x /\ 0 \notin L /\ ~ns[P].leaf
      /\ L \subseteq 1..Len(ns) /\ root \in L /\ Placed(L, kids)
  BY <1>1 DEF ChildOf, Picture, Frame, Placed, Typed
<1>3. SideBySide(L, kids, P, at, c, x) /\ kids[P] = ns[P].ptrs
  <2>1. Kindred(ns, c, x)
    BY DEF Kindred
  <2>2. Neighbours(ns, root, L, P, at, c, x)
    BY <2>1 DEF Neighbours
  <2>3. \A p \in L : Shows(ns, kids, right, held, p)
    BY <1>1
  <2>4. SideBySide(L, kids, P, at, c, x)
    BY <2>2, <2>3, BesideBelow, Zenon
  <2>5. kids[P] = ns[P].ptrs
    BY <1>2, <2>3 DEF Shows
  <2> QED BY <2>4, <2>5
<1>4. kids[c] = ns[c].ptrs /\ kids[x] = ns[x].ptrs /\ held[c] = {} /\ held[x] = {} /\ held[P] = {}
  BY <1>1, <1>2 DEF Shows
<1> DEFINE a  == new[c].ptrs
           b  == new[x].ptrs
           b0 == RemoveAt(kids[P], at + 1)
           nk == ShiftKids(L, kids, c, x, a, b)
<1>5. Joins(L, kids, c, x, P, at, z, b0)
  <2>1. kids[P] \in Seq(Nat) /\ at + 1 \in 1..Len(kids[P])
    <3>1. kids[P] \in Seq(L) /\ L \subseteq Nat
      BY <1>2 DEF Placed, Typed
    <3>2. \A i \in 1..Len(kids[P]) : kids[P][i] \in Nat
      BY <3>1, SeqFacts
    <3> QED BY <1>3, <3>1, <3>2, SeqIn DEF SideBySide
  <2>2. b0 \in Seq(Nat) /\ IsRemoval(b0, kids[P], at + 1)
    BY <2>1, RemovalIs
  <2>3. Parts(z, kids[c], kids[x])
    BY <1>4
  <2> HIDE DEF b0
  <2> QED BY <1>2, <1>3, <2>2, <2>3, JoinMade, Zenon
<1>6. a \in Seq(L \ {x}) /\ b \in Seq(L \ {x})
  <2>1. Typed(L \ {x}, JoinKids(L, kids, c, x, P, z, b0)) /\ c # x
    BY <1>5 DEF Joins
  <2>2. z \in Seq(L \ {x})
    <3>1. JoinKids(L, kids, c, x, P, z, b0)[c] = z /\ c \in (L \ {x}) \cup {0}
      BY <1>2, <2>1 DEF JoinKids
    <3> QED BY <2>1, <3>1 DEF Typed
  <2> HIDE DEF a, b
  <2>3. a \in Seq(Nat) /\ b \in Seq(Nat) /\ Parts(z, a, b)
    BY DEF a, b
  <2> QED BY <2>2, <2>3, PartsIn
<1>7. Frame(L, nk, right, held, H)
  <2>1. Parts(z, kids[c], kids[x]) /\ Parts(z, a, b) /\ (Len(a) = 0 <=> Len(b) = 0)
    BY <1>4
  <2> HIDE DEF a, b
  <2> QED BY <1>1, <1>3, <1>6, <2>1, FrameShifted
<1>8. c # x
  BY <1>5 DEF Joins
<1>9. /\ nk[c] = a /\ nk[x] = b /\ nk[0] = <<root>>
      /\ \A p \in L : p # c /\ p # x => nk[p] = kids[p]
  BY <1>1, <1>2, <1>8 DEF ShiftKids
<1> HIDE DEF nk
<1>10. ASSUME NEW p \in L PROVE Shows(new, nk, right, held, p)
  <2>1. CASE p = c
    BY <1>4, <1>9, <2>1 DEF Shows
  <2>2. CASE p = x
    BY <1>4, <1>9, <2>2 DEF Shows
  <2>3. CASE p = P
    BY <1>2, <1>3, <1>4, <1>9, <2>3 DEF Shows
  <2>4. CASE p # c /\ p # x /\ p # P
    <3>1. new[p] = ns[p] /\ Shows(ns, kids, right, held, p) /\ nk[p] = kids[p]
      BY <1>1, <1>2, <1>9, <1>10, <2>4
    <3> QED BY <3>1 DEF Shows
  <2> QED BY <2>1, <2>2, <2>3, <2>4
<1> QED BY <1>2, <1>7, <1>9, <1>10 DEF Picture

-----------------------------------------------------------------------------
(* Insertion, in pictures. *)

\* What a picture says of a leaf of it.
LEMMA LeafHeld ==
  ASSUME NEW ns, NEW root, NEW L, NEW H, Picture(ns, root, L, H), NEW p \in L, ns[p].leaf
  PROVE  Distinct(ns[p].entries) /\ InSeq(ns[p].entries) \subseteq H
<1>1. PICK kids, right, held : /\ Frame(L, kids, right, held, H) /\ kids[0] = <<root>>
                               /\ \A q \in L : Shows(ns, kids, right, held, q)
  BY DEF Picture
<1>2. Shared(L, held, H) /\ Shows(ns, kids, right, held, p)
  BY <1>1 DEF Frame
<1> QED BY <1>2 DEF Shared, Shows

\* What an insertion has made of the picture of the pages, the split of a child j of page P
\* still to be told to P.
Drawn(d, L, root, H, P, j) ==
  \E M : /\ L \subseteq M
         /\ IF d.split = NoSplit THEN Picture(d.tree.nodes, root, M, H)
            ELSE Untold(d.tree.nodes, root, M, H, P, j, d.split.page)

\* The entries of a leaf with one more, and its halves.
MoreLeftPart(n, e) == SubSeq(More(n, e), 1, MoreLeft(n, e))

\* They hold the entries of the leaf and the new one, the halves between them.
LEMMA MoreHolds ==
  ASSUME NEW n, LeafFits(n), NEW e \in Entry, Distinct(n.entries), e \notin InSeq(n.entries)
  PROVE  /\ Distinct(More(n, e)) /\ InSeq(More(n, e)) = InSeq(n.entries) \cup {e}
         /\ Distinct(MoreLeftPart(n, e)) /\ Distinct(MoreRight(n, e))
         /\ InSeq(MoreLeftPart(n, e)) \cap InSeq(MoreRight(n, e)) = {}
         /\ InSeq(MoreLeftPart(n, e)) \cup InSeq(MoreRight(n, e)) = InSeq(n.entries) \cup {e}
         /\ InSeq(n.entries) \subseteq Entry
<1> DEFINE all  == More(n, e)
           left == MoreLeft(n, e)
<1>1. n.entries \in Seq(Entry) /\ Len(n.entries) \in Nat
  BY DEF LeafFits
<1>2. findInsertPos(KeysOf(n.entries), e.key) \in 1..Len(n.entries) + 1
  BY <1>1, KeysOfIs, PositionIs
<1>3. Distinct(all) /\ InSeq(all) = InSeq(n.entries) \cup {e}
  BY <1>1, <1>2, InsertedIs DEF More
<1>4. all \in Seq(Entry) /\ Len(all) = Len(n.entries) + 1
  BY MoreIs
<1>5. left \in 0..Len(all)
  <2>1. Len(all) \in Nat
    BY <1>1, <1>4
  <2>2. left \in Nat /\ 2 * left <= Len(all)
    BY <2>1, HalfIs DEF MoreLeft
  <2> HIDE DEF left, all
  <2> QED BY <2>1, <2>2
<1> HIDE DEF left, all
<1>6. LET a == SubSeq(all, 1, left)
          b == SubSeq(all, left + 1, Len(all))
      IN  /\ Distinct(a) /\ Distinct(b) /\ InSeq(a) \cup InSeq(b) = InSeq(all)
          /\ InSeq(a) \cap InSeq(b) = {}
  BY <1>3, <1>4, <1>5, CutIs
<1>7. InSeq(n.entries) \subseteq Entry
  BY <1>1 DEF InSeq
<1>8. MoreLeftPart(n, e) = SubSeq(all, 1, left) /\ MoreRight(n, e) = SubSeq(all, left + 1, Len(all))
  BY DEF MoreLeftPart, MoreRight, all, left
<1> QED BY <1>3, <1>6, <1>7, <1>8 DEF all

\* What an insertion into a leaf does to the pages.
LEMMA LeafInsertIs ==
  ASSUME NumericKeys, NEW t \in View, t.count = Len(t.nodes) + 1,
         NEW p \in 1..Len(t.nodes), LeafFits(t.nodes[p]), NEW e \in Entry
  PROVE  LET d == insertIntoLeaf(t, p, e)
             n == t.nodes[p]
             b == Leaf(MoreRight(n, e), n.next)
         IN  \/ d.split = NoSplit /\ d.tree.nodes = [t.nodes EXCEPT ![p] = Leaf(More(n, e), n.next)]
             \/ /\ d.split = [key |-> MoreRight(n, e)[1].key, page |-> t.count]
                /\ d.split.page = t.count /\ d.split # NoSplit
                /\ b \in Node
                /\ d.tree.nodes = [Append(t.nodes, b) EXCEPT
                                     ![p] = Leaf(MoreLeftPart(n, e), t.count)]
<1> DEFINE n     == t.nodes[p]
           d     == insertIntoLeaf(t, p, e)
           whole == Leaf(More(n, e), n.next)
           a     == Leaf(MoreLeftPart(n, e), t.count)
           b     == Leaf(MoreRight(n, e), n.next)
           s     == [key |-> MoreRight(n, e)[1].key, page |-> t.count]
<1>1. d = IF KeyLen[e.key] + Fso(n) + RID_SIZE <= PAGE_SIZE
          THEN [tree |-> WriteNode(t, p, whole), split |-> NoSplit]
          ELSE [tree |-> WriteNode(AppendNode(t, b), p, a), split |-> s]
  BY DEF insertIntoLeaf, More, MoreLeft, MoreRight, MoreLeftPart
<1>2. b \in Node
  <2>1. MoreRight(n, e) \in Seq(Entry) /\ n.next \in Nat
    BY MoreIs, LeafPage
  <2> QED BY <2>1 DEF Node, Leaf
<1>3. /\ s # NoSplit /\ s.page = t.count
      /\ s = [key |-> MoreRight(n, e)[1].key, page |-> t.count]
  <2>1. t.count # 0
    BY DEF View
  <2> QED BY <2>1 DEF NoSplit
<1>4. WriteNode(t, p, whole).nodes = [t.nodes EXCEPT ![p] = whole]
  BY Written
<1>5. WriteNode(AppendNode(t, b), p, a).nodes = [Append(t.nodes, b) EXCEPT ![p] = a]
  <2> DEFINE u == AppendNode(t, b)
  <2>1. u \in View /\ u.nodes = Append(t.nodes, b)
    BY <1>2, AppendedTo
  <2> HIDE DEF u
  <2> HIDE DEF a
  <2>2. WriteNode(u, p, a).nodes = [u.nodes EXCEPT ![p] = a]
    BY <2>1 DEF WriteNode, View
  <2>3. WriteNode(u, p, a).nodes = [Append(t.nodes, b) EXCEPT ![p] = a]
    BY <2>1, <2>2
  <2> QED BY <2>3 DEF u
<1> HIDE DEF d, whole, a, b, s
<1>6. \/ d.split = NoSplit /\ d.tree.nodes = [t.nodes EXCEPT ![p] = whole]
      \/ d.split = s /\ d.tree.nodes = [Append(t.nodes, b) EXCEPT ![p] = a]
  BY <1>1, <1>4, <1>5
<1> QED BY <1>2, <1>3, <1>6 DEF d, whole, a, b

\* An entry inserted into a leaf, drawn.
LEMMA LeafDrawn ==
  ASSUME NumericKeys, NEW t \in View, t.count = Len(t.nodes) + 1, NEW root, NEW L, NEW H,
         Picture(t.nodes, root, L, H), NEW p, LeafFits(t.nodes[p]),
         NEW P, NEW j, ChildOf(t.nodes, root, L, P, j, p),
         NEW e \in Entry, e \notin H
  PROVE  Drawn(insertIntoLeaf(t, p, e), L, root, H \cup {e}, P, j)
<1> DEFINE ns    == t.nodes
           n     == ns[p]
           d     == insertIntoLeaf(t, p, e)
           whole == Leaf(More(n, e), n.next)
           a     == Leaf(MoreLeftPart(n, e), t.count)
           b     == Leaf(MoreRight(n, e), n.next)
<1>1. p \in L /\ L \subseteq 1..Len(ns) /\ p \in 1..Len(ns)
  BY DEF ChildOf, Picture
<1>2. ns \in Seq(Node) /\ Len(ns) \in Nat /\ DOMAIN ns = 1..Len(ns)
  BY DEF View
<1>3. n.leaf /\ Kids(n) = {}
  BY LeafPage
<1>4. Distinct(n.entries) /\ InSeq(n.entries) \subseteq H
  BY <1>1, <1>3, LeafHeld
<1>5. /\ Distinct(More(n, e)) /\ InSeq(More(n, e)) = InSeq(n.entries) \cup {e}
      /\ Distinct(MoreLeftPart(n, e)) /\ Distinct(MoreRight(n, e))
      /\ InSeq(MoreLeftPart(n, e)) \cap InSeq(MoreRight(n, e)) = {}
      /\ InSeq(MoreLeftPart(n, e)) \cup InSeq(MoreRight(n, e)) = InSeq(n.entries) \cup {e}
      /\ InSeq(n.entries) \subseteq Entry
  BY <1>4, MoreHolds
<1>6. \/ d.split = NoSplit /\ d.tree.nodes = [ns EXCEPT ![p] = whole]
      \/ /\ d.split.page = t.count /\ d.split # NoSplit /\ b \in Node
         /\ d.tree.nodes = [Append(ns, b) EXCEPT ![p] = a]
  BY <1>1, LeafInsertIs, ZenonT(60)
<1>7. CASE d.split = NoSplit /\ d.tree.nodes = [ns EXCEPT ![p] = whole]
  <2> DEFINE new == [ns EXCEPT ![p] = whole]
             C   == {p}
  <2>1. /\ whole.leaf /\ whole.entries = More(n, e) /\ whole.next = n.next
    BY DEF Leaf
  <2> HIDE DEF whole
  <2>2. new[p] = whole /\ Len(new) = Len(ns) /\ \A q \in 1..Len(ns) : q # p => new[q] = ns[q]
    BY <1>1, <1>2
  <2> HIDE DEF new
  <2>3. HeldBy(ns, C) = InSeq(n.entries) /\ HeldBy(new, C) = InSeq(n.entries) \cup {e}
    BY <1>5, <2>1, <2>2 DEF HeldBy
  <2>4. Reheld(ns, new, L, C)
    <3>1. InSeq(More(n, e)) \subseteq Entry
      BY <1>5
    <3> QED BY <1>1, <1>3, <1>5, <2>1, <2>2, <3>1 DEF Reheld
  <2> HIDE DEF C
  <2>5. \A x \in HeldBy(new, C) : x \in HeldBy(ns, C) \/ x \notin H
    BY <2>3
  <2>6. Picture(new, root, L, (H \ HeldBy(ns, C)) \cup HeldBy(new, C))
    BY <2>4, <2>5, EntriesChanged
  <2>7. (H \ HeldBy(ns, C)) \cup HeldBy(new, C) = H \cup {e}
    BY <1>4, <2>3
  <2> QED BY <1>7, <2>6, <2>7 DEF Drawn, new
<1>8. CASE /\ d.split.page = t.count /\ d.split # NoSplit /\ b \in Node
           /\ d.tree.nodes = [Append(ns, b) EXCEPT ![p] = a]
  <2> DEFINE new == [Append(ns, b) EXCEPT ![p] = a]
             x   == Len(ns) + 1
             E   == {e}
             A   == InSeq(MoreLeftPart(n, e))
             B   == InSeq(MoreRight(n, e))
  <2>1. /\ a.leaf /\ a.entries = MoreLeftPart(n, e) /\ a.next = t.count
        /\ b.leaf /\ b.entries = MoreRight(n, e) /\ b.next = n.next
    BY DEF Leaf
  <2> HIDE DEF a, b
  <2>2. /\ new[p] = a /\ new[x] = b /\ Len(new) = Len(ns) + 1
        /\ \A q \in 1..Len(ns) : q # p => new[q] = ns[q]
    <3> DEFINE mid == Append(ns, b)
    <3>1. /\ DOMAIN mid = 1..x /\ Len(mid) = Len(ns) + 1 /\ mid[x] = b
          /\ \A q \in 1..Len(ns) : mid[q] = ns[q]
      BY <1>2, <1>8
    <3>2. mid \in Seq(Node)
      BY <1>2, <1>8
    <3>3. p \in 1..x /\ x \in 1..x /\ x # p /\ \A q \in 1..Len(ns) : q \in 1..x /\ q # x
      BY <1>1, <1>2
    <3>5. new = [mid EXCEPT ![p] = a]
      OBVIOUS
    <3> HIDE DEF mid, x, new
    <3>4. Len(new) = Len(mid)
      BY <3>2, <3>5
    <3> QED BY <3>1, <3>3, <3>4, <3>5
  <2> HIDE DEF new, x
  <2>3. Grew(ns, new, p) /\ x = Len(ns) + 1
    BY <1>2, <2>2 DEF Grew, x
  <2>4. new[p].leaf /\ new[x].leaf /\ new[p].next = x /\ new[x].next = ns[p].next
    BY <2>1, <2>2, <2>3
  <2>5. /\ Distinct(new[p].entries) /\ Distinct(new[x].entries)
        /\ A = InSeq(new[p].entries) /\ B = InSeq(new[x].entries)
    BY <1>5, <2>1, <2>2
  <2>6. A \cap B = {} /\ A \subseteq Entry /\ B \subseteq Entry /\ E \cap H = {}
        /\ A \cup B = InSeq(ns[p].entries) \cup E
    BY <1>5
  <2> HIDE DEF A, B, E, ns, n
  <2>7. Untold(new, root, L \cup {x}, H \cup E, P, j, x)
    <3>1. Picture(ns, root, L, H) /\ ChildOf(ns, root, L, P, j, p)
      BY DEF ns
    <3>2. ns[p].leaf
      BY <1>3 DEF n
    <3> QED BY <2>3, <2>4, <2>5, <2>6, <3>1, <3>2, LeafSplitPicture, ZenonT(60)
  <2>8. d.split.page = x /\ L \subseteq L \cup {x} /\ d.tree.nodes = new /\ E = {e}
    BY <1>8, <2>3 DEF new, ns, E
  <2>9. Untold(d.tree.nodes, root, L \cup {x}, H \cup {e}, P, j, d.split.page)
    BY <2>7, <2>8
  <2> QED BY <1>8, <2>8, <2>9 DEF Drawn
<1> QED BY <1>6, <1>7, <1>8

\* The pointers of an internal page with one more, halved.
LEMMA HalvesApart ==
  ASSUME NEW keys \in Seq(Keys), NEW ptrs \in Seq(Nat), Len(ptrs) = Len(keys) + 1, Len(keys) >= 3
  PROVE  LET a == LeftHalf(keys, ptrs)
             b == RightHalf(keys, ptrs)
         IN  /\ a.leaf = FALSE /\ b.leaf = FALSE
             /\ a.ptrs \in Seq(Nat) /\ b.ptrs \in Seq(Nat) /\ Len(a.ptrs) > 0 /\ Len(b.ptrs) > 0
             /\ Parts(ptrs, a.ptrs, b.ptrs) /\ b.keys \in Seq(Keys)
<1> DEFINE h == Len(keys) \div 2
           u == SubSeq(ptrs, 1, h + 1)
           v == SubSeq(ptrs, h + 2, Len(ptrs))
           w == SubSeq(keys, h + 2, Len(keys))
<1>1. Len(keys) \in Nat
  OBVIOUS
<1>2. h \in Nat /\ 2 * h <= Len(keys) /\ Len(keys) <= 2 * h + 1
  BY <1>1, HalfIs
<1> DEFINE a == LeftHalf(keys, ptrs)
           b == RightHalf(keys, ptrs)
<1>3. a.leaf = FALSE /\ b.leaf = FALSE /\ a.ptrs = u /\ b.ptrs = v /\ b.keys = w
  BY DEF LeftHalf, RightHalf, Internal
<1> HIDE DEF h, a, b
<1>4. /\ 1 \in 1..Len(ptrs) + 1 /\ h + 1 \in 0..Len(ptrs) /\ 1 <= (h + 1) + 1
      /\ h + 2 \in 1..Len(ptrs) + 1 /\ Len(ptrs) \in 0..Len(ptrs) /\ h + 2 <= Len(ptrs) + 1
      /\ h + 2 \in 1..Len(keys) + 1 /\ Len(keys) \in 0..Len(keys) /\ h + 2 <= Len(keys) + 1
  BY <1>1, <1>2
<1>5. u \in Seq(Nat) /\ Len(u) = (h + 1) - 1 + 1 /\ \A i \in 1..(h + 1) - 1 + 1 : u[i] = ptrs[1 + i - 1]
  BY <1>4, SubSeqIs
<1>6. /\ v \in Seq(Nat) /\ Len(v) = Len(ptrs) - (h + 2) + 1
      /\ \A i \in 1..Len(ptrs) - (h + 2) + 1 : v[i] = ptrs[(h + 2) + i - 1]
  BY <1>4, SubSeqIs
<1>7. w \in Seq(Keys)
  BY <1>4, SubSeqIs
<1> HIDE DEF u, v, w
<1>8. Len(u) = h + 1 /\ \A i \in 1..Len(u) : ptrs[i] = u[i]
  <2>1. Len(u) = h + 1
    BY <1>2, <1>5
  <2>2. \A i \in 1..h + 1 : 1 + i - 1 = i /\ i \in 1..(h + 1) - 1 + 1
    BY <1>2
  <2> QED BY <1>5, <2>1, <2>2
<1>9. /\ Len(v) = Len(keys) - h
      /\ \A i \in 1..Len(v) : ptrs[Len(u) + i] = v[i]
  <2>1. Len(v) = Len(keys) - h
    BY <1>1, <1>2, <1>6
  <2>2. \A i \in 1..Len(keys) - h :
          (h + 2) + i - 1 = (h + 1) + i /\ i \in 1..Len(ptrs) - (h + 2) + 1
    BY <1>1, <1>2
  <2> QED BY <1>6, <1>8, <2>1, <2>2
<1>10. Parts(ptrs, u, v)
  <2>1. Len(ptrs) = Len(u) + Len(v)
    BY <1>1, <1>2, <1>8, <1>9
  <2> QED BY <1>8, <1>9, <2>1 DEF Parts
<1>11. Len(u) > 0 /\ Len(v) > 0
  BY <1>1, <1>2, <1>8, <1>9
<1> QED BY <1>3, <1>5, <1>6, <1>7, <1>10, <1>11 DEF a, b

\* What a split told to an internal page does to the pages.
LEMMA InternalInsertIs ==
  ASSUME NumericKeys, NEW t \in View, t.count = Len(t.nodes) + 1,
         NEW p \in 1..Len(t.nodes), InternalFits(t.nodes[p]),
         NEW s, s.key \in Keys, s.page \in Nat, s.page \notin Kids(t.nodes[p])
  PROVE  LET d == insertIntoInternal(t, p, s, 4)
             n == t.nodes[p]
             a == LeftHalf(MoreKeys(n, s), MorePtrs(n, s))
             b == RightHalf(MoreKeys(n, s), MorePtrs(n, s))
         IN  \/ /\ d.split = NoSplit
                /\ d.tree.nodes = [t.nodes EXCEPT ![p] = Internal(MoreKeys(n, s), MorePtrs(n, s))]
             \/ /\ Len(MoreKeys(n, s)) >= 3
                /\ d.split = [key  |-> MoreKeys(n, s)[Len(MoreKeys(n, s)) \div 2 + 1],
                              page |-> t.count]
                /\ d.split.page = t.count /\ d.split # NoSplit /\ b \in Node
                /\ Parts(MorePtrs(n, s), a.ptrs, b.ptrs) /\ a.leaf = FALSE /\ b.leaf = FALSE
                /\ a.ptrs \in Seq(Nat) /\ b.ptrs \in Seq(Nat) /\ Len(a.ptrs) > 0 /\ Len(b.ptrs) > 0
                /\ d.tree.nodes = [Append(t.nodes, b) EXCEPT ![p] = a]
<1> DEFINE n     == t.nodes[p]
           d     == insertIntoInternal(t, p, s, 4)
           keys  == MoreKeys(n, s)
           ptrs  == MorePtrs(n, s)
           whole == Internal(keys, ptrs)
           a     == LeftHalf(keys, ptrs)
           b     == RightHalf(keys, ptrs)
           y     == [key |-> keys[Len(keys) \div 2 + 1], page |-> t.count]
<1>1. d = IF 4 + Fso(n) + PTR_SIZE <= PAGE_SIZE
          THEN [tree |-> WriteNode(t, p, whole), split |-> NoSplit]
          ELSE [tree |-> WriteNode(AppendNode(t, b), p, a), split |-> y]
  BY DEF insertIntoInternal, MoreKeys, MorePtrs, LeftHalf, RightHalf
<1>2. /\ keys \in Seq(Keys) /\ Len(keys) = Len(n.keys) + 1
      /\ ptrs \in Seq(Nat) /\ Len(ptrs) = Len(n.keys) + 2
  BY MoreKeysAre
<1>3. /\ Fso(n) = 20 + 8 * Len(n.keys) /\ PTR_SIZE = 4 /\ Len(n.keys) \in Nat
      /\ PAGE_SIZE \in Nat /\ PAGE_SIZE >= 40
  <2>1. Fso(n) = 20 + 8 * Len(n.keys)
    BY FsoIs
  <2>2. Len(n.keys) \in Nat
    BY InternalPage
  <2> QED BY <2>1, <2>2, BTreeAssumption DEF NumericKeys, PTR_SIZE
<1>4. /\ y # NoSplit /\ y.page = t.count
      /\ y = [key |-> keys[Len(keys) \div 2 + 1], page |-> t.count]
  <2>1. t.count # 0
    BY DEF View
  <2> QED BY <2>1 DEF NoSplit
<1>5. WriteNode(t, p, whole).nodes = [t.nodes EXCEPT ![p] = whole]
  BY Written
<1> HIDE DEF d, whole, y, keys, ptrs
<1>6. CASE 4 + Fso(n) + PTR_SIZE <= PAGE_SIZE
  <2>1. d.split = NoSplit /\ d.tree.nodes = [t.nodes EXCEPT ![p] = whole]
    BY <1>1, <1>5, <1>6
  <2> QED BY <2>1 DEF d, whole, keys, ptrs
<1>7. CASE ~(4 + Fso(n) + PTR_SIZE <= PAGE_SIZE)
  <2>1. Len(keys) >= 3 /\ Len(ptrs) = Len(keys) + 1
    BY <1>2, <1>3, <1>7
  <2>2. /\ a.leaf = FALSE /\ b.leaf = FALSE
        /\ a.ptrs \in Seq(Nat) /\ b.ptrs \in Seq(Nat) /\ Len(a.ptrs) > 0 /\ Len(b.ptrs) > 0
        /\ Parts(ptrs, a.ptrs, b.ptrs) /\ b.keys \in Seq(Keys)
    BY <1>2, <2>1, HalvesApart
  <2>3. b \in Node
    <3>1. b = [leaf |-> FALSE, keys |-> b.keys, ptrs |-> b.ptrs]
      BY DEF RightHalf, Internal
    <3> HIDE DEF b
    <3> QED BY <2>2, <3>1 DEF Node
  <2> HIDE DEF a, b
  <2>4. WriteNode(AppendNode(t, b), p, a).nodes = [Append(t.nodes, b) EXCEPT ![p] = a]
    <3> DEFINE u == AppendNode(t, b)
    <3>1. u \in View /\ u.nodes = Append(t.nodes, b)
      BY <2>3, AppendedTo
    <3> HIDE DEF u
    <3>2. WriteNode(u, p, a).nodes = [u.nodes EXCEPT ![p] = a]
      BY <3>1 DEF WriteNode, View
    <3>3. WriteNode(u, p, a).nodes = [Append(t.nodes, b) EXCEPT ![p] = a]
      BY <3>1, <3>2
    <3> QED BY <3>3 DEF u
  <2>5. d = [tree |-> WriteNode(AppendNode(t, b), p, a), split |-> y]
    BY <1>1, <1>7
  <2>6. d.split = y /\ d.tree.nodes = [Append(t.nodes, b) EXCEPT ![p] = a]
    BY <2>4, <2>5
  <2> QED BY <1>4, <2>1, <2>2, <2>3, <2>6 DEF d, a, b, keys, ptrs
<1> QED BY <1>6, <1>7

\* A split told to an internal page, drawn.
LEMMA InternalDrawn ==
  ASSUME NumericKeys, NEW t \in View, t.count = Len(t.nodes) + 1,
         NEW s, s.key \in Keys, s.page \in Nat,
         NEW P, P # 0, InternalFits(t.nodes[P]), s.page \notin Kids(t.nodes[P]),
         NEW root, NEW M, NEW H, NEW j, Untold(t.nodes, root, M, H, P, j, s.page),
         findInsertPos(t.nodes[P].keys, s.key) = j,
         NEW L, L \subseteq M, NEW G, NEW g, ChildOf(t.nodes, root, L, G, g, P)
  PROVE  Drawn(insertIntoInternal(t, P, s, 4), L, root, H, G, g)
<1> DEFINE ns    == t.nodes
           n     == ns[P]
           d     == insertIntoInternal(t, P, s, 4)
           keys  == MoreKeys(n, s)
           ptrs  == MorePtrs(n, s)
           whole == Internal(keys, ptrs)
           a     == LeftHalf(keys, ptrs)
           b     == RightHalf(keys, ptrs)
<1>1. P \in M /\ M \subseteq 1..Len(ns) /\ P \in 1..Len(ns)
  BY DEF Untold
<1>2. ns \in Seq(Node) /\ Len(ns) \in Nat /\ DOMAIN ns = 1..Len(ns)
  BY DEF View
<1>3. ptrs = InsertAt(n.ptrs, j + 1, s.page)
  BY DEF MorePtrs
<1>4. ChildOf(ns, root, M, G, g, P)
  BY DEF ChildOf
<1>6. \/ d.split = NoSplit /\ d.tree.nodes = [ns EXCEPT ![P] = whole]
      \/ /\ Len(keys) >= 3
         /\ d.split = [key |-> keys[Len(keys) \div 2 + 1], page |-> t.count]
         /\ d.split.page = t.count /\ d.split # NoSplit /\ b \in Node
         /\ Parts(ptrs, a.ptrs, b.ptrs) /\ a.leaf = FALSE /\ b.leaf = FALSE
         /\ a.ptrs \in Seq(Nat) /\ b.ptrs \in Seq(Nat) /\ Len(a.ptrs) > 0 /\ Len(b.ptrs) > 0
         /\ d.tree.nodes = [Append(ns, b) EXCEPT ![P] = a]
  BY <1>1, InternalInsertIs, ZenonT(60)
<1>5. whole.leaf = FALSE /\ whole.ptrs = ptrs
  BY DEF Internal
<1> HIDE DEF d, whole, a, b, ptrs
<1>7. CASE d.split = NoSplit /\ d.tree.nodes = [ns EXCEPT ![P] = whole]
  <2> DEFINE new == [ns EXCEPT ![P] = whole]
  <2>2. new[P] = whole /\ Len(new) = Len(ns) /\ \A q \in 1..Len(ns) : q # P => new[q] = ns[q]
    BY <1>1, <1>2
  <2> HIDE DEF new
  <2>3. ~new[P].leaf /\ new[P].ptrs = InsertAt(ns[P].ptrs, j + 1, s.page)
    BY <1>3, <1>5, <2>2
  <2>4. Untold(ns, root, M, H, P, j, s.page)
    OBVIOUS
  <2> HIDE DEF ns, n
  <2>6. Picture(new, root, M, H)
    BY <2>2, <2>3, <2>4, InternalRoomPicture, ZenonT(60)
  <2> QED BY <1>7, <2>6 DEF Drawn, new, ns, d
<1>8. CASE /\ d.split.page = t.count /\ d.split # NoSplit /\ b \in Node
           /\ Parts(ptrs, a.ptrs, b.ptrs) /\ a.leaf = FALSE /\ b.leaf = FALSE
           /\ a.ptrs \in Seq(Nat) /\ b.ptrs \in Seq(Nat) /\ Len(a.ptrs) > 0 /\ Len(b.ptrs) > 0
           /\ d.tree.nodes = [Append(ns, b) EXCEPT ![P] = a]
  <2> DEFINE new == [Append(ns, b) EXCEPT ![P] = a]
             x   == Len(ns) + 1
  <2>2. /\ new[P] = a /\ new[x] = b /\ Len(new) = Len(ns) + 1
        /\ \A q \in 1..Len(ns) : q # P => new[q] = ns[q]
    <3> DEFINE mid == Append(ns, b)
    <3>1. /\ DOMAIN mid = 1..x /\ Len(mid) = Len(ns) + 1 /\ mid[x] = b
          /\ \A q \in 1..Len(ns) : mid[q] = ns[q]
      BY <1>2, <1>8
    <3>2. mid \in Seq(Node)
      BY <1>2, <1>8
    <3>3. P \in 1..x /\ x \in 1..x /\ x # P /\ \A q \in 1..Len(ns) : q \in 1..x /\ q # x
      BY <1>1, <1>2
    <3>5. new = [mid EXCEPT ![P] = a]
      OBVIOUS
    <3> HIDE DEF mid, x, new
    <3>4. Len(new) = Len(mid)
      BY <3>2, <3>5
    <3> QED BY <3>1, <3>3, <3>4, <3>5
  <2> HIDE DEF new, x
  <2>3. Grew(ns, new, P) /\ x = Len(ns) + 1
    BY <1>2, <2>2 DEF Grew, x
  <2>4. /\ ~new[P].leaf /\ ~new[x].leaf /\ new[P].ptrs \in Seq(Nat) /\ new[x].ptrs \in Seq(Nat)
        /\ Len(new[P].ptrs) > 0 /\ Len(new[x].ptrs) > 0
        /\ Parts(InsertAt(ns[P].ptrs, j + 1, s.page), new[P].ptrs, new[x].ptrs)
    BY <1>3, <1>8, <2>2
  <2>5. Untold(ns, root, M, H, P, j, s.page) /\ ChildOf(ns, root, M, G, g, P)
    BY <1>4
  <2> HIDE DEF ns, n
  <2>7. Untold(new, root, M \cup {x}, H, G, g, x)
    <3> DEFINE y == s.page
    <3> HIDE DEF y
    <3>1. /\ Untold(ns, root, M, H, P, j, y)
          /\ Parts(InsertAt(ns[P].ptrs, j + 1, y), new[P].ptrs, new[x].ptrs)
      BY <2>4, <2>5 DEF y
    <3> QED BY <2>3, <2>4, <2>5, <3>1, InternalSplitPicture, ZenonT(60)
  <2>8. d.split.page = x /\ L \subseteq M \cup {x} /\ d.tree.nodes = new
    BY <1>8, <2>3 DEF new, ns
  <2>9. Untold(d.tree.nodes, root, M \cup {x}, H, G, g, d.split.page)
    BY <2>7, <2>8
  <2> QED BY <1>8, <2>8, <2>9 DEF Drawn, d
<1> QED BY <1>6, <1>7, <1>8

\* The pointers of an internal page of a picture lead to pages of it.
LEMMA PictureKids ==
  ASSUME NEW ns, NEW root, NEW L, NEW H, Picture(ns, root, L, H)
  PROVE  /\ L \subseteq 1..Len(ns) /\ root \in L /\ 0 \notin L
         /\ \A p \in L : ~ns[p].leaf => \A i \in 1..Len(ns[p].ptrs) : ns[p].ptrs[i] \in L
<1>1. PICK kids, right, held : /\ Frame(L, kids, right, held, H) /\ kids[0] = <<root>>
                               /\ \A p \in L : Shows(ns, kids, right, held, p)
  BY DEF Picture
<1>2. Typed(L, kids)
  BY <1>1 DEF Frame, Placed
<1>3. ASSUME NEW p \in L, ~ns[p].leaf, NEW i \in 1..Len(ns[p].ptrs) PROVE ns[p].ptrs[i] \in L
  <2>1. kids[p] = ns[p].ptrs
    BY <1>1, <1>3 DEF Shows
  <2>2. kids[p] \in Seq(L)
    BY <1>2 DEF Typed
  <2>3. ns[p].ptrs \in Seq(L)
    BY <2>1, <2>2
  <2> QED BY <2>3, <1>3
<1> QED BY <1>2, <1>3 DEF Picture, Typed

\* So does a walk from the root.
LEMMA WalkDrawn ==
  ASSUME NEW ns, NEW lev, Leveled(ns, lev), NEW pick, Picks(ns, pick),
         NEW root, NEW L, NEW H, Picture(ns, root, L, H),
         NEW w, Walk(ns, lev, pick, root, w)
  PROVE  /\ \A i \in 1..lev[root] + 1 : w[i] \in L
         /\ \A i \in 1..lev[root] : ChildOf(ns, root, L, w[i], pick[w[i]], w[i + 1])
         /\ ChildOf(ns, root, L, 0, 1, root)
         /\ \A i \in 1..lev[root] : ~ns[w[i]].leaf
<1> DEFINE n == lev[root]
<1>1. L \subseteq 1..Len(ns) /\ root \in L /\ 0 \notin L /\ n \in Nat
  BY PictureKids DEF Leveled
<1>2. /\ \A i \in 1..n + 1 : w[i] \in 1..Len(ns) /\ lev[w[i]] = n + 1 - i
      /\ \A i \in 1..n : w[i + 1] = ns[w[i]].ptrs[pick[w[i]]]
      /\ w[1] = root
  BY DEF Walk
<1> HIDE DEF n
<1>3. ASSUME NEW i \in 1..n
      PROVE  ~ns[w[i]].leaf /\ pick[w[i]] \in 1..Len(ns[w[i]].ptrs) /\ w[i] # w[i + 1]
  <2>1. i \in 1..n + 1 /\ i + 1 \in 1..n + 1 /\ n + 1 - i # 0 /\ n + 1 - i # n + 1 - (i + 1)
    BY <1>1
  <2>2. w[i] \in 1..Len(ns) /\ lev[w[i]] # 0 /\ lev[w[i]] # lev[w[i + 1]]
    BY <1>2, <2>1
  <2>3. ~ns[w[i]].leaf
    BY <2>2, PageIs
  <2> QED BY <2>2, <2>3 DEF Picks
<1> DEFINE Good == {i \in Nat : i + 1 \in 1..n + 1 => w[i + 1] \in L}
<1>4. 0 \in Good
  BY <1>1, <1>2
<1>5. ASSUME NEW i \in Nat, i \in Good PROVE i + 1 \in Good
  <2> SUFFICES ASSUME (i + 1) + 1 \in 1..n + 1 PROVE w[(i + 1) + 1] \in L
    OBVIOUS
  <2>1. i + 1 \in 1..n
    BY <1>1
  <2>2. i + 1 \in 1..n + 1
    BY <1>1, <2>1
  <2>3. w[i + 1] \in L
    BY <1>5, <2>2
  <2>4. ~ns[w[i + 1]].leaf /\ pick[w[i + 1]] \in 1..Len(ns[w[i + 1]].ptrs)
    BY <1>3, <2>1
  <2>5. ns[w[i + 1]].ptrs[pick[w[i + 1]]] \in L
    BY <2>3, <2>4, PictureKids
  <2> QED BY <1>2, <2>1, <2>5
<1>6. Nat \subseteq Good
  <2> HIDE DEF Good
  <2> QED BY <1>4, <1>5, Induct
<1>7. ASSUME NEW i \in 1..n + 1 PROVE w[i] \in L
  <2>1. i - 1 \in Nat /\ (i - 1) + 1 = i
    BY <1>1
  <2>2. i - 1 \in Good
    BY <1>6, <2>1
  <2> QED BY <2>1, <2>2
<1>8. ASSUME NEW i \in 1..n PROVE ChildOf(ns, root, L, w[i], pick[w[i]], w[i + 1])
  <2>1. i \in 1..n + 1 /\ i + 1 \in 1..n + 1
    BY <1>1
  <2>2. w[i] \in L /\ w[i + 1] \in L /\ w[i] # 0
    BY <1>1, <1>7, <2>1
  <2> QED BY <1>2, <1>3, <2>2 DEF ChildOf, Above
<1>9. ChildOf(ns, root, L, 0, 1, root)
  BY <1>1 DEF ChildOf, Above
<1> QED BY <1>3, <1>7, <1>8, <1>9 DEF n

\* What a page is told of by an insertion that has split a page below it.
Told(c, ns, lev, k, p) ==
  /\ c.tree \in View /\ c.tree.count = Len(c.tree.nodes) + 1
  /\ c.split.key \in Keys /\ c.split.page \in Nat
  /\ InternalFits(c.tree.nodes[p]) /\ c.split.page \notin Kids(c.tree.nodes[p])
  /\ \A q \in 1..Len(ns) : lev[q] > k - 1 => c.tree.nodes[q] = ns[q]

\* A split at level k - 1 is told to page p above it.
LEMMA ToldOf ==
  ASSUME NEW ns, NEW lev, NEW L, NEW root, NEW k \in Nat, k > 0,
         Leveled(ns, lev), L \subseteq 1..Len(ns), root \in L,
         NEW c, Grown(c, ns, lev, L, root, k - 1), c.split # NoSplit,
         NEW p \in L, lev[p] = k
  PROVE  Told(c, ns, lev, k, p)
<1> DEFINE mid == c.tree.nodes
           s   == c.split
<1>1. PICK lv, M : GrownTo(c, ns, lev, L, root, k - 1, lv, M)
  BY DEF Grown
<1>2. /\ c.tree \in View /\ s \in Split /\ c.tree.root = root /\ c.tree.count = Len(mid) + 1
      /\ Len(ns) <= Len(mid) /\ \A q \in 1..Len(ns) : lev[q] > k - 1 => mid[q] = ns[q]
  BY DEF Grown
<1>3. /\ Leveled(mid, lv) /\ \A q \in 1..Len(ns) : lv[q] = lev[q]
      /\ L \subseteq M /\ Tree(mid, M, {root, s.page}) /\ s.key \in Keys
  BY <1>1 DEF GrownTo
<1> HIDE DEF mid, s
<1>4. M \subseteq 1..Len(mid) /\ s.page \in M /\ p \in M /\ s.page \notin Kids(mid[p])
  BY <1>3 DEF Tree
<1>5. p \in 1..Len(mid) /\ s.page \in Nat
  <2>1. mid \in Seq(Node)
    BY <1>3 DEF Leveled
  <2>2. Len(mid) \in Nat
    BY <2>1
  <2>3. s.page \in 1..Len(mid) /\ p \in 1..Len(mid)
    BY <1>4
  <2>4. \A x \in 1..Len(mid) : x \in Nat
    BY <2>2
  <2> QED BY <2>3, <2>4
<1>6. p \in 1..Len(ns) /\ lv[p] # 0
  BY <1>3
<1>7. InternalFits(mid[p])
  BY <1>3, <1>5, <1>6, InternalPageIs
<1> QED BY <1>2, <1>3, <1>4, <1>5, <1>7 DEF mid, s, Told

\* The page above the one at level k of a walk from level n, and its place there.
Up(path, n, k)       == IF k = n THEN 0 ELSE path[n - k]
At(path, pick, n, k) == IF k = n THEN 1 ELSE pick[path[n - k]]

\* The pages of a walk are in the picture, each below the one before.
LEMMA UpIs ==
  ASSUME NEW ns, NEW lev, Leveled(ns, lev), NEW pick, Picks(ns, pick),
         NEW root, NEW L, NEW H, Picture(ns, root, L, H), NEW w, Walk(ns, lev, pick, root, w)
  PROVE  \A k \in 0..lev[root] :
           /\ w[lev[root] + 1 - k] \in L /\ lev[w[lev[root] + 1 - k]] = k
           /\ ChildOf(ns, root, L, Up(w, lev[root], k), At(w, pick, lev[root], k),
                      w[lev[root] + 1 - k])
           /\ Up(w, lev[root], k) # 0 => /\ Up(w, lev[root], k) \in 1..Len(ns)
                                         /\ lev[Up(w, lev[root], k)] = k + 1
           /\ k > 0 => /\ Up(w, lev[root], k - 1) = w[lev[root] + 1 - k]
                       /\ At(w, pick, lev[root], k - 1) = pick[w[lev[root] + 1 - k]]
<1> DEFINE n == lev[root]
<1>1. L \subseteq 1..Len(ns) /\ root \in L /\ 0 \notin L /\ n \in Nat
  BY PictureKids DEF Leveled
<1>2. /\ \A i \in 1..n + 1 : w[i] \in 1..Len(ns) /\ lev[w[i]] = n + 1 - i
      /\ w[1] = root
  BY DEF Walk
<1>3. /\ \A i \in 1..n + 1 : w[i] \in L
      /\ \A i \in 1..n : ChildOf(ns, root, L, w[i], pick[w[i]], w[i + 1])
      /\ ChildOf(ns, root, L, 0, 1, root)
  BY WalkDrawn
<1> HIDE DEF n
<1>4. ASSUME NEW k \in 0..n
      PROVE  /\ w[n + 1 - k] \in L /\ lev[w[n + 1 - k]] = k
             /\ ChildOf(ns, root, L, Up(w, n, k), At(w, pick, n, k), w[n + 1 - k])
             /\ Up(w, n, k) # 0 => Up(w, n, k) \in 1..Len(ns) /\ lev[Up(w, n, k)] = k + 1
             /\ k > 0 => /\ Up(w, n, k - 1) = w[n + 1 - k]
                         /\ At(w, pick, n, k - 1) = pick[w[n + 1 - k]]
  <2>1. n + 1 - k \in 1..n + 1 /\ n + 1 - (n + 1 - k) = k
    BY <1>1
  <2>2. w[n + 1 - k] \in L /\ lev[w[n + 1 - k]] = k
    BY <1>2, <1>3, <2>1
  <2>3. k > 0 => n - (k - 1) = n + 1 - k /\ k - 1 # n
    BY <1>1
  <2>4. CASE k = n
    <3>1. n + 1 - k = 1
      BY <1>1, <2>4
    <3> QED BY <1>2, <1>3, <2>2, <2>3, <2>4, <3>1 DEF Up, At
  <2>5. CASE k # n
    <3>1. n - k \in 1..n /\ n - k \in 1..n + 1 /\ (n - k) + 1 = n + 1 - k /\ n + 1 - (n - k) = k + 1
      BY <1>1, <2>5
    <3>2. /\ ChildOf(ns, root, L, w[n - k], pick[w[n - k]], w[n + 1 - k])
          /\ w[n - k] \in 1..Len(ns) /\ lev[w[n - k]] = k + 1
      BY <1>2, <1>3, <3>1
    <3> QED BY <2>2, <2>3, <2>5, <3>2 DEF Up, At
  <2> QED BY <2>4, <2>5
<1> QED BY <1>4 DEF n

\* The climb of insertEntry, drawn, unless it misplaces a page.
LEMMA ClimbDrawn ==
  ASSUME NumericKeys, NEW t, NEW lev, NEW L0, GoodView(t, lev, L0), NEW e \in Entry,
         NEW pick, Picks(t.nodes, pick), NEW path, Walk(t.nodes, lev, pick, t.root, path),
         NEW L, NEW H, Picture(t.nodes, t.root, L, H), e \notin H,
         NEW f, IsClimb(t, e, path, f),
         \A k \in 1..Len(path) - 1 : f[k - 1].split # NoSplit =>
            findInsertPos(t.nodes[path[Len(path) - k]].keys, f[k - 1].split.key)
              = pick[path[Len(path) - k]]
  PROVE  Drawn(f[Len(path) - 1], L, t.root, H \cup {e}, 0, 1)
<1> DEFINE ns   == t.nodes
           root == t.root
           n    == lev[root]
           HE   == H \cup {e}
           Views == [tree : View, split : Split]
           Stage(k, d) == Drawn(d, L, root, HE, Up(path, n, k), At(path, pick, n, k))
           Good == [k \in 0..n |-> {d \in Views : Stage(k, d)}]
<1>1. /\ Leveled(ns, lev) /\ Tree(ns, L0, {root}) /\ root \in L0 /\ n \in Nat
      /\ L0 \subseteq 1..Len(ns) /\ t \in View /\ t.count = Len(ns) + 1
  <2>1. Leveled(ns, lev) /\ Tree(ns, L0, {root}) /\ t \in View /\ t.count = Len(ns) + 1
    BY DEF GoodView
  <2>2. root \in L0 /\ L0 \subseteq 1..Len(ns)
    BY <2>1 DEF Tree
  <2>3. n \in Nat
    BY <2>1, <2>2 DEF Leveled
  <2> QED BY <2>1, <2>2, <2>3
<1>2. /\ Len(path) = n + 1
      /\ \A i \in 1..n + 1 : path[i] \in L0 /\ lev[path[i]] = n + 1 - i
  <2>1. \A i \in 1..n + 1 : path[i] \in L0
    BY <1>1, WalkStays
  <2> QED BY <2>1 DEF Walk
<1>3. \A k \in 0..n :
           /\ path[n + 1 - k] \in L /\ lev[path[n + 1 - k]] = k
           /\ ChildOf(ns, root, L, Up(path, n, k), At(path, pick, n, k), path[n + 1 - k])
           /\ Up(path, n, k) # 0 => Up(path, n, k) \in 1..Len(ns) /\ lev[Up(path, n, k)] = k + 1
           /\ k > 0 => /\ Up(path, n, k - 1) = path[n + 1 - k]
                       /\ At(path, pick, n, k - 1) = pick[path[n + 1 - k]]
  BY <1>1, UpIs
<1>4. \A k \in 0..n : Grown(f[k], ns, lev, L0, root, k)
  BY ClimbIs
<1>5. KeyLen[e.key] = 4
  BY DEF NumericKeys, Entry
<1> HIDE DEF ns, root, n, HE
<1>6. /\ f[0] = insertIntoLeaf(t, Last(path), e)
      /\ \A k \in 1..n : f[k] = IF f[k - 1].split = NoSplit THEN f[k - 1]
                                ELSE insertIntoInternal(f[k - 1].tree, path[n + 1 - k],
                                                        f[k - 1].split, 4)
      /\ \A k \in 1..n : f[k - 1].split # NoSplit =>
            findInsertPos(ns[path[n + 1 - k]].keys, f[k - 1].split.key) = pick[path[n + 1 - k]]
  <2>1. Len(path) - 1 = n /\ \A k \in 1..n : Len(path) - k = n + 1 - k
    BY <1>1, <1>2
  <2>2. 0 \in 0..n /\ \A k \in 1..n : k \in 0..n /\ k # 0
    BY <1>1
  <2>3. f[0] = insertIntoLeaf(t, Last(path), e)
    BY <2>1, <2>2 DEF IsClimb
  <2>4. ASSUME NEW k \in 1..n
        PROVE  f[k] = IF f[k - 1].split = NoSplit THEN f[k - 1]
                      ELSE insertIntoInternal(f[k - 1].tree, path[n + 1 - k], f[k - 1].split, 4)
    BY <1>5, <2>1, <2>2 DEF IsClimb
  <2>5. ASSUME NEW k \in 1..n, f[k - 1].split # NoSplit
        PROVE  findInsertPos(ns[path[n + 1 - k]].keys, f[k - 1].split.key) = pick[path[n + 1 - k]]
    BY <2>1, <2>5 DEF ns
  <2> QED BY <2>3, <2>4, <2>5
<1>7. \A k \in 0..n : f[k] \in Views
  BY <1>4 DEF Grown
<1>8. Stage(0, f[0])
  <2>1. 0 \in 0..n /\ n + 1 - 0 = n + 1 /\ n + 1 \in 1..n + 1
    BY <1>1
  <2>2. Last(path) = path[n + 1]
    BY <1>2 DEF Last
  <2>3. lev[Last(path)] = 0 /\ ChildOf(ns, root, L, Up(path, n, 0), At(path, pick, n, 0), Last(path))
        /\ Last(path) \in 1..Len(ns)
    <3>1. /\ path[n + 1 - 0] \in L /\ lev[path[n + 1 - 0]] = 0
          /\ ChildOf(ns, root, L, Up(path, n, 0), At(path, pick, n, 0), path[n + 1 - 0])
      BY <1>3, <2>1
    <3>2. path[n + 1 - 0] = Last(path)
      BY <2>1, <2>2
    <3>3. Last(path) \in L0
      BY <1>2, <2>1, <2>2
    <3> QED BY <1>1, <3>1, <3>2, <3>3
  <2>4. LeafFits(ns[Last(path)])
    BY <1>1, <2>3, LeafPageIs
  <2>5. Drawn(insertIntoLeaf(t, Last(path), e), L, root, H \cup {e}, Up(path, n, 0), At(path, pick, n, 0))
    <3>1. Picture(t.nodes, root, L, H)
      BY DEF root
    <3>2. LeafFits(t.nodes[Last(path)]) /\ t.count = Len(t.nodes) + 1
          /\ ChildOf(t.nodes, root, L, Up(path, n, 0), At(path, pick, n, 0), Last(path))
      BY <1>1, <2>3, <2>4 DEF ns
    <3> QED BY <1>1, <3>1, <3>2, LeafDrawn
  <2> QED BY <1>6, <2>5 DEF HE
<1>9. ASSUME NEW k \in 1..n, Stage(k - 1, f[k - 1]) PROVE Stage(k, f[k])
  <2>1. k \in Nat /\ k > 0 /\ k - 1 \in 0..n /\ k \in 0..n
    BY <1>1
  <2> DEFINE d == f[k - 1]
             P == path[n + 1 - k]
             j == pick[P]
             G == Up(path, n, k)
             g == At(path, pick, n, k)
  <2>2. /\ P \in L /\ lev[P] = k /\ ChildOf(ns, root, L, G, g, P)
        /\ G # 0 => G \in 1..Len(ns) /\ lev[G] = k + 1
        /\ Up(path, n, k - 1) = P /\ At(path, pick, n, k - 1) = j
    BY <1>3, <2>1
  <2>3. Drawn(d, L, root, HE, P, j)
    BY <1>9, <2>2
  <2>4. P \in L0
    <3>1. n + 1 - k \in 1..n + 1
      BY <1>1
    <3> QED BY <1>2, <3>1
  <2> HIDE DEF P, j, G, g
  <2>5. CASE d.split = NoSplit
    <3>1. f[k] = d
      BY <1>6, <2>5
    <3>2. Drawn(d, L, root, HE, G, g)
      BY <2>3, <2>5 DEF Drawn
    <3> QED BY <3>1, <3>2 DEF G, g
  <2>6. CASE d.split # NoSplit
    <3>1. f[k] = insertIntoInternal(d.tree, P, d.split, 4)
          /\ findInsertPos(ns[P].keys, d.split.key) = j
      BY <1>6, <2>6 DEF P, j
    <3>2. Grown(d, ns, lev, L0, root, k - 1)
      BY <1>4, <2>1
    <3> HIDE DEF d
    <3>3. /\ d.tree \in View /\ d.tree.count = Len(d.tree.nodes) + 1
          /\ d.split.key \in Keys /\ d.split.page \in Nat
          /\ InternalFits(d.tree.nodes[P]) /\ d.split.page \notin Kids(d.tree.nodes[P])
          /\ \A q \in 1..Len(ns) : lev[q] > k - 1 => d.tree.nodes[q] = ns[q]
      <4>1. Told(d, ns, lev, k, P)
        BY <1>1, <2>1, <2>2, <2>4, <2>6, <3>2, ToldOf, ZenonT(60)
      <4> QED BY <4>1 DEF Told
    <3>4. PICK M : L \subseteq M /\ Untold(d.tree.nodes, root, M, HE, P, j, d.split.page)
      BY <2>3, <2>6 DEF Drawn
    <3>5. P # 0 /\ P \in 1..Len(ns)
      BY <1>1, <2>4
    <3>6. ChildOf(d.tree.nodes, root, L, G, g, P)
      <4>1. G # 0 => d.tree.nodes[G] = ns[G]
        <5>1. k + 1 > k - 1
          BY <2>1
        <5> QED BY <2>2, <3>3, <5>1
      <4> QED BY <2>2, <4>1 DEF ChildOf, Above
    <3>7. findInsertPos(d.tree.nodes[P].keys, d.split.key) = j
      <4>1. d.tree.nodes[P] = ns[P]
        <5>1. k > k - 1
          BY <2>1
        <5> QED BY <2>2, <3>3, <3>5, <5>1
      <4> QED BY <3>1, <4>1
    <3>8. Drawn(insertIntoInternal(d.tree, P, d.split, 4), L, root, HE, G, g)
      BY <3>3, <3>4, <3>5, <3>6, <3>7, InternalDrawn, ZenonT(60)
    <3> QED BY <3>1, <3>8 DEF G, g
  <2> QED BY <2>5, <2>6
<1> HIDE DEF Views, Stage
<1>10. \A k \in 0..n : f[k] \in Good[k]
  <2>1. f[0] \in Good[0]
    <3>1. 0 \in 0..n
      BY <1>1
    <3> QED BY <1>7, <1>8, <3>1
  <2>2. ASSUME NEW k \in 1..n, f[k - 1] \in Good[k - 1] PROVE f[k] \in Good[k]
    <3>1. k - 1 \in 0..n /\ k \in 0..n
      BY <1>1
    <3>2. Stage(k - 1, f[k - 1])
      BY <2>2, <3>1
    <3> QED BY <1>7, <1>9, <3>1, <3>2
  <2> HIDE DEF Good
  <2> QED BY <1>1, <2>1, <2>2, Climbing
<1>11. Stage(n, f[n])
  <2>1. n \in 0..n
    BY <1>1
  <2> QED BY <1>10, <2>1
<1>12. Up(path, n, n) = 0 /\ At(path, pick, n, n) = 1 /\ Len(path) - 1 = n
  BY <1>1, <1>2 DEF Up, At
<1> QED BY <1>11, <1>12 DEF Stage, HE, root

\* A file that holds the entries H in a tree drawn so, or none.
Pictured(t, H) == IF t.root = 0 THEN H = {} ELSE \E L : Picture(t.nodes, t.root, L, H)

\* An empty leaf alone.
LEMMA LonePicture ==
  ASSUME NEW ns, NEW x \in 1..Len(ns), ns[x].leaf, ns[x].entries = << >>, ns[x].next = 0
  PROVE  Picture(ns, x, {x}, {})
<1> DEFINE kids  == [p \in {x, 0} |-> IF p = 0 THEN <<x>> ELSE << >>]
           right == [p \in {x, 0} |-> 0]
           held  == [p \in {x} |-> {}]
<1>1. x # 0 /\ x \in Nat \ {0} /\ {x} \cup {0} = {x, 0}
  OBVIOUS
<1>2. /\ kids[0] = <<x>> /\ kids[x] = << >> /\ right[0] = 0 /\ right[x] = 0 /\ held[x] = {}
      /\ kids \in [{x, 0} -> Seq({x})] /\ right \in [{x, 0} -> {x, 0}]
      /\ held \in [{x} -> SUBSET Entry]
  BY <1>1
<1> HIDE DEF kids, right, held
<1>3. Len(kids[0]) = 1 /\ kids[0][1] = x /\ Len(kids[x]) = 0
  BY <1>2
<1>8. ASSUME NEW p \in {x} \cup {0}, NEW i \in 1..Len(kids[p]) PROVE p = 0 /\ i = 1
  <2>1. p # x
    <3>1. p = x => i \in 1..0
      BY <1>3
    <3>2. i \notin 1..0
      OBVIOUS
    <3> QED BY <3>1, <3>2
  <2>2. p = 0
    BY <2>1
  <2>3. i \in 1..1
    BY <1>3, <2>2
  <2> QED BY <2>2, <2>3
<1>4. Placed({x}, kids)
  <2>1. Typed({x}, kids)
    BY <1>1, <1>2 DEF Typed
  <2>2. \A q \in {x} : \E p \in {x} \cup {0} : \E i \in 1..Len(kids[p]) : kids[p][i] = q
    <3>1. 1 \in 1..Len(kids[0]) /\ 0 \in {x} \cup {0}
      BY <1>3
    <3> QED BY <1>3, <3>1
  <2> QED BY <2>1, <2>2, <1>8 DEF Placed
<1>5. Rows({x}, kids, right)
  <2>1. \A p \in {x} \cup {0} : \A i \in 1..Len(kids[p]) : right[kids[p][i]] = Beside(kids, right, p, i)
    <3>1. Beside(kids, right, 0, 1) = 0
      BY <1>2, <1>3 DEF Beside
    <3> QED BY <1>2, <1>3, <1>8, <3>1
  <2> QED BY <1>1, <1>2, <2>1 DEF Rows
<1>6. Shared({x}, held, {})
  BY <1>2 DEF Shared
<1>7. Shows(ns, kids, right, held, x)
  <2>1. InSeq(<< >>) = {} /\ Distinct(<< >>)
    BY DEF InSeq, Distinct
  <2> QED BY <1>2, <2>1 DEF Shows
<1> QED BY <1>2, <1>4, <1>5, <1>6, <1>7 DEF Picture, Frame

\* The split of the root, drawn.
LEMMA TopDrawn ==
  ASSUME NEW ns, NEW lev, NEW L0, NEW root, NEW k, NEW d, Grown(d, ns, lev, L0, root, k),
         NEW L, NEW H, Drawn(d, L, root, H, 0, 1)
  PROVE  IF d.split = NoSplit THEN \E M : Picture(d.tree.nodes, d.tree.root, M, H)
         ELSE LET u == AppendNode(d.tree, Internal(<<d.split.key>>, <<d.tree.root, d.split.page>>))
              IN  \E M : Picture(u.nodes, d.tree.count, M, H)
<1>1. d.tree \in View /\ d.tree.root = root /\ d.tree.count = Len(d.tree.nodes) + 1
      /\ d \in [tree : View, split : Split]
  BY DEF Grown
<1>2. CASE d.split = NoSplit
  BY <1>1, <1>2 DEF Drawn
<1>3. CASE d.split # NoSplit
  <2> DEFINE ns1 == d.tree.nodes
             n   == Internal(<<d.split.key>>, <<d.tree.root, d.split.page>>)
             u   == AppendNode(d.tree, n)
             new == Append(ns1, n)
             y   == Len(ns1) + 1
  <2>1. PICK M : Untold(ns1, root, M, H, 0, 1, d.split.page)
    BY <1>3 DEF Drawn
  <2>2. u.nodes = new
    BY <1>1 DEF AppendNode, View
  <2>3. ~n.leaf /\ n.ptrs = <<root, d.split.page>>
    BY <1>1 DEF Internal
  <2>4. ns1 \in Seq(Node) /\ Len(ns1) \in Nat
    BY <1>1 DEF View
  <2> HIDE DEF n
  <2>5. Len(new) = Len(ns1) + 1 /\ new[y] = n /\ \A q \in 1..Len(ns1) : new[q] = ns1[q]
    BY <2>4
  <2> HIDE DEF new, ns1
  <2> DEFINE x == d.split.page
  <2>6. Untold(ns1, root, M, H, 0, 1, x)
    BY <2>1
  <2>7. ~new[y].leaf /\ new[y].ptrs = <<root, x>> /\ y = Len(ns1) + 1
    BY <2>3, <2>5
  <2> HIDE DEF x, y
  <2>8. Picture(new, y, M \cup {y}, H)
    BY <2>4, <2>5, <2>6, <2>7, RootPicture, ZenonT(60)
  <2>9. d.tree.count = y
    BY <1>1 DEF y, ns1
  <2> QED BY <1>3, <2>2, <2>8, <2>9 DEF n, new
<1> QED BY <1>2, <1>3

\* The tree an entry is inserted into: a first leaf if the file holds none.
LEMMA GrownDrawn ==
  ASSUME NumericKeys, NEW t, NEW lev, FileView(t, lev), NEW H, Pictured(t, H),
         NEW u, u = IF t.root = 0
                    THEN [AppendNode(t, Leaf(<< >>, 0)) EXCEPT !.root = t.count]
                    ELSE t
  PROVE  /\ \E lv, L0 : GoodView(u, lv, L0) /\ (t.root = 0 => lv[u.root] = 0)
         /\ \E L : Picture(u.nodes, u.root, L, H)
<1>1. CASE t.root = 0
  <2> DEFINE n == Leaf(<< >>, 0)
             v == AppendNode(t, n)
             x == Len(t.nodes) + 1
             new == Append(t.nodes, n)
  <2>1. /\ t \in View /\ t.count = x /\ t.nodes \in Seq(Node) /\ Len(t.nodes) \in Nat /\ H = {}
    BY <1>1 DEF FileView, View, Pictured
  <2>2. n.leaf = TRUE /\ n.entries = << >> /\ n.next = 0 /\ n \in Node
    BY DEF Leaf, Node
  <2>3. u = [v EXCEPT !.root = t.count]
    BY <1>1
  <2> HIDE DEF n
  <2>4. v.nodes = new /\ v \in View
    BY <2>1, <2>2, AppendedTo
  <2>5. u.nodes = new /\ u.root = x
    <3> HIDE DEF v, new, x
    <3> QED BY <2>1, <2>3, <2>4 DEF View
  <2>6. Len(new) = x /\ new[x] = n /\ x \in 1..x
    BY <2>1, <2>2
  <2>7. Picture(new, x, {x}, {})
    <3> HIDE DEF new, x
    <3>1. x \in 1..Len(new) /\ new[x].leaf /\ new[x].entries = << >> /\ new[x].next = 0
      BY <2>2, <2>6
    <3> QED BY <3>1, LonePicture
  <2>8. PICK lv, L0 : LargeView(u, lv, L0, Len(t.nodes))
    <3>1. \E lv, L0 : LargeView([AppendNode(t, Leaf(<< >>, 0)) EXCEPT !.root = t.count], lv, L0,
                                Len(t.nodes))
      BY <1>1, FirstLeafMade
    <3> QED BY <2>3, <3>1 DEF v, n
  <2>9. GoodView(u, lv, L0)
    BY <2>8 DEF LargeView
  <2>10. lv[u.root] = 0
    <3>1. Leveled(u.nodes, lv) /\ u.root \in 1..Len(u.nodes)
      <4>1. Len(u.nodes) = x
        BY <2>5, <2>6
      <4> HIDE DEF x, new
      <4> QED BY <2>5, <2>6, <2>9, <4>1 DEF GoodView
    <3>2. u.nodes[u.root].leaf
      BY <2>2, <2>5, <2>6
    <3> QED BY <3>1, <3>2, PageIs
  <2> QED BY <2>1, <2>5, <2>7, <2>9, <2>10
<1>2. CASE t.root # 0
  <2>1. u = t
    BY <1>2
  <2> QED BY <1>2, <2>1 DEF FileView, Pictured
<1> QED BY <1>1, <1>2

\* insertEntry adds the entry to the picture, unless it misplaces a page.
LEMMA InsertDrawn ==
  ASSUME NumericKeys, NEW t, NEW lev, FileView(t, lev), NEW e \in Entry,
         NEW H, Pictured(t, H), e \notin H, ~Misplaces(t, e)
  PROVE  Pictured(InsertEntry(t, e), H \cup {e})
<1> DEFINE grown == IF t.root = 0
                    THEN [AppendNode(t, Leaf(<< >>, 0)) EXCEPT !.root = t.count]
                    ELSE t
           path == Path(grown, e.key, findInternalChildIds)
           Eq(f) == f = [k \in 0..Len(path) - 1 |->
                        IF k = 0 THEN insertIntoLeaf(grown, Last(path), e)
                        ELSE LET d == f[k - 1]
                             IN  IF d.split = NoSplit THEN d
                                 ELSE insertIntoInternal(d.tree, path[Len(path) - k], d.split,
                                                         KeyLen[e.key])]
           climb == CHOOSE f : Eq(f)
           top   == climb[Len(path) - 1]
<1>1. /\ \E lv, L0 : GoodView(grown, lv, L0) /\ (t.root = 0 => lv[grown.root] = 0)
      /\ \E L : Picture(grown.nodes, grown.root, L, H)
  BY GrownDrawn
<1>2. InsertEntry(t, e) =
        IF top.split = NoSplit THEN top.tree
        ELSE [AppendNode(top.tree, Internal(<<top.split.key>>, <<top.tree.root, top.split.page>>))
                EXCEPT !.root = top.tree.count]
  BY DEF InsertEntry, Climb, InsertPath
<1>3. t.root # 0 => \A k \in 1..Len(path) - 1 : climb[k - 1].split # NoSplit =>
         findInsertPos(grown.nodes[path[Len(path) - k]].keys, climb[k - 1].split.key)
           = findInternalChildIds(grown.nodes[path[Len(path) - k]], e.key)
  <2> SUFFICES ASSUME t.root # 0
               PROVE  \A k \in 1..Len(path) - 1 : climb[k - 1].split # NoSplit =>
                        findInsertPos(grown.nodes[path[Len(path) - k]].keys, climb[k - 1].split.key)
                          = findInternalChildIds(grown.nodes[path[Len(path) - k]], e.key)
    OBVIOUS
  <2>1. grown = t
    OBVIOUS
  <2>2. InsertPath(t, e) = path /\ Climb(t, e) = climb
    BY <2>1 DEF InsertPath, Climb
  <2> HIDE DEF grown, path, climb
  <2> QED BY <2>1, <2>2 DEF Misplaces
<1> HIDE DEF grown
<1>4. PICK lv, L0 : GoodView(grown, lv, L0) /\ (t.root = 0 => lv[grown.root] = 0)
  BY <1>1
<1>5. PICK L : Picture(grown.nodes, grown.root, L, H)
  BY <1>1
<1>6. Leveled(grown.nodes, lv) /\ L \subseteq 1..Len(grown.nodes) /\ grown.root \in L
      /\ grown.root \in 1..Len(grown.nodes)
  BY <1>4, <1>5 DEF GoodView, Picture
<1>7. PICK pick : /\ Picks(grown.nodes, pick)
                  /\ \A p \in 1..Len(grown.nodes) : ~grown.nodes[p].leaf =>
                        pick[p] = findInternalChildIds(grown.nodes[p], e.key)
                  /\ Walk(grown.nodes, lv, pick, grown.root, path)
  BY <1>6, DescentRight
<1> HIDE DEF path
<1>8. /\ \E f : IsClimb(grown, e, path, f)
      /\ \A f : IsClimb(grown, e, path, f) =>
            \A k \in 0..lv[grown.root] : Grown(f[k], grown.nodes, lv, L0, grown.root, k)
  BY <1>4, <1>7, ClimbIs
<1>9. \A f : Eq(f) <=> IsClimb(grown, e, path, f)
  BY DEF IsClimb
<1> HIDE DEF Eq
<1>10. IsClimb(grown, e, path, climb)
  <2>1. Eq(climb)
    BY <1>8, <1>9
  <2> QED BY <1>9, <2>1
<1> HIDE DEF climb
<1>11. Len(path) = lv[grown.root] + 1 /\ lv[grown.root] \in Nat
  BY <1>6, <1>7 DEF Walk, Leveled
<1>12. \A k \in 1..Len(path) - 1 : climb[k - 1].split # NoSplit =>
         findInsertPos(grown.nodes[path[Len(path) - k]].keys, climb[k - 1].split.key)
           = pick[path[Len(path) - k]]
  <2> SUFFICES ASSUME NEW k \in 1..Len(path) - 1, climb[k - 1].split # NoSplit
               PROVE  findInsertPos(grown.nodes[path[Len(path) - k]].keys, climb[k - 1].split.key)
                        = pick[path[Len(path) - k]]
    OBVIOUS
  <2>1. t.root # 0
    BY <1>4, <1>11
  <2>2. Len(path) - k \in 1..lv[grown.root] /\ Len(path) - k \in 1..lv[grown.root] + 1
    BY <1>11
  <2>3. path[Len(path) - k] \in 1..Len(grown.nodes)
    BY <1>7, <2>2 DEF Walk
  <2>4. ~grown.nodes[path[Len(path) - k]].leaf
    BY <1>5, <1>6, <1>7, <2>2, WalkDrawn
  <2> QED BY <1>3, <1>7, <2>1, <2>3, <2>4
<1>13. Drawn(climb[Len(path) - 1], L, grown.root, H \cup {e}, 0, 1)
  BY <1>4, <1>5, <1>7, <1>10, <1>12, ClimbDrawn, ZenonT(60)
<1>14. Grown(top, grown.nodes, lv, L0, grown.root, lv[grown.root])
  <2>1. lv[grown.root] \in 0..lv[grown.root] /\ Len(path) - 1 = lv[grown.root]
    BY <1>11
  <2> QED BY <1>8, <1>10, <2>1
<1>15. IF top.split = NoSplit THEN \E M : Picture(top.tree.nodes, top.tree.root, M, H \cup {e})
       ELSE LET u == AppendNode(top.tree, Internal(<<top.split.key>>,
                                                   <<top.tree.root, top.split.page>>))
            IN  \E M : Picture(u.nodes, top.tree.count, M, H \cup {e})
  BY <1>13, <1>14, TopDrawn
<1> HIDE DEF top
<1> DEFINE r == InsertEntry(t, e)
<1>16. \E M : Picture(r.nodes, r.root, M, H \cup {e})
  <2>1. CASE top.split = NoSplit
    BY <1>2, <1>15, <2>1
  <2>2. CASE top.split # NoSplit
    <3> DEFINE u == AppendNode(top.tree, Internal(<<top.split.key>>,
                                                  <<top.tree.root, top.split.page>>))
    <3>1. r = [u EXCEPT !.root = top.tree.count]
      BY <1>2, <2>2
    <3>2. u = [top.tree EXCEPT !.nodes = u.nodes, !.count = u.count]
      BY <1>14 DEF AppendNode, Grown, View
    <3>3. top.tree \in View
      BY <1>14 DEF Grown
    <3>4. r.nodes = u.nodes /\ r.root = top.tree.count
      <4> HIDE DEF r, u
      <4> QED BY <3>1, <3>2, <3>3 DEF View
    <3> QED BY <1>15, <2>2, <3>4
  <2> QED BY <2>1, <2>2
<1> HIDE DEF r
<1>17. r.root # 0
  BY <1>16, PictureKids
<1> QED BY <1>16, <1>17 DEF Pictured, r

-----------------------------------------------------------------------------
(* Deletion, in pictures. *)

\* The levels of finitely many pages have a bound.
LEMMA Bounded ==
  ASSUME NEW n \in Nat, NEW f \in [1..n -> Nat]
  PROVE  \E b \in Nat : \A i \in 1..n : f[i] <= b
<1> DEFINE S == {m \in Nat : m <= n => \E b \in Nat : \A i \in 1..m : f[i] <= b}
<1>1. 0 \in S
  OBVIOUS
<1>2. ASSUME NEW m \in Nat, m \in S PROVE m + 1 \in S
  <2> SUFFICES ASSUME m + 1 <= n PROVE \E b \in Nat : \A i \in 1..m + 1 : f[i] <= b
    OBVIOUS
  <2>1. PICK b \in Nat : \A i \in 1..m : f[i] <= b
    BY <1>2
  <2>2. m + 1 \in 1..n /\ f[m + 1] \in Nat
    OBVIOUS
  <2>3. \A i \in 1..m + 1 : f[i] <= b + f[m + 1]
    <3> SUFFICES ASSUME NEW i \in 1..m + 1 PROVE f[i] <= b + f[m + 1]
      OBVIOUS
    <3>1. i \in 1..m \/ i = m + 1
      OBVIOUS
    <3>2. i \in 1..n /\ f[i] \in Nat
      OBVIOUS
    <3> QED BY <2>1, <2>2, <3>1, <3>2
  <2>4. b + f[m + 1] \in Nat
    BY <2>2
  <2> QED BY <2>3, <2>4
<1> HIDE DEF S
<1>3. Nat \subseteq S
  BY <1>1, <1>2, Induct
<1>4. n \in S
  BY <1>3
<1> QED BY <1>4 DEF S

\* Every page of a picture but the root is below another, one level up.
LEMMA ParentIs ==
  ASSUME NEW ns, NEW lev, Leveled(ns, lev), NEW root, NEW L, NEW H, Picture(ns, root, L, H),
         NEW q \in L, q # root
  PROVE  \E p \in L : ~ns[p].leaf /\ q \in Kids(ns[p]) /\ lev[p] = lev[q] + 1
<1>1. PICK kids, right, held : /\ Frame(L, kids, right, held, H) /\ kids[0] = <<root>>
                               /\ \A p \in L : Shows(ns, kids, right, held, p)
  BY DEF Picture
<1>2. PICK p \in L \cup {0} : \E i \in 1..Len(kids[p]) : kids[p][i] = q
  BY <1>1 DEF Frame, Placed
<1>3. PICK i \in 1..Len(kids[p]) : kids[p][i] = q
  BY <1>2
<1>4. p # 0
  <2> SUFFICES ASSUME p = 0 PROVE FALSE
    OBVIOUS
  <2>1. kids[p] = <<root>>
    BY <1>1
  <2>2. i = 1
    BY <1>3, <2>1
  <2> QED BY <1>3, <2>1, <2>2
<1>5. p \in L /\ L \subseteq 1..Len(ns)
  BY <1>4 DEF Picture
<1>6. ~ns[p].leaf /\ kids[p] = ns[p].ptrs
  BY <1>1, <1>3, <1>5 DEF Shows
<1>7. q \in Kids(ns[p]) /\ lev[q] = lev[p] - 1 /\ lev[p] \in Nat
  <2>1. i \in 1..Len(ns[p].ptrs) /\ ns[p].ptrs[i] = q
    BY <1>3, <1>6
  <2>2. /\ \A k \in 1..Len(ns[p].ptrs) : /\ lev[ns[p].ptrs[k]] = lev[p] - 1
                                         /\ ns[p].ptrs[k] \in Kids(ns[p])
        /\ lev[p] \in Nat
    BY <1>5, <1>6, PageIs
  <2> QED BY <2>1, <2>2
<1>8. lev[p] = lev[q] + 1
  BY <1>7
<1> QED BY <1>5, <1>6, <1>7, <1>8

\* The root is at the highest level, alone.
LEMMA TopLevel ==
  ASSUME NEW ns, NEW lev, Leveled(ns, lev), NEW root, NEW L, NEW H, Picture(ns, root, L, H)
  PROVE  \A q \in L : q # root => lev[q] < lev[root]
<1> SUFFICES ASSUME NEW q0 \in L, q0 # root, ~(lev[q0] < lev[root]) PROVE FALSE
  OBVIOUS
<1>1. L \subseteq 1..Len(ns) /\ root \in L
  BY DEF Picture
<1>2. Len(ns) \in Nat /\ lev \in [1..Len(ns) -> Nat]
  BY DEF Leveled
<1>3. PICK b \in Nat : \A i \in 1..Len(ns) : lev[i] <= b
  BY <1>2, Bounded
<1>4. \A q \in L : lev[q] \in Nat
  BY <1>1, <1>2
<1> DEFINE S == {n \in Nat : \E q \in L : q # root /\ lev[q] >= lev[root] + n}
<1>5. 0 \in S
  BY <1>1, <1>4
<1>6. ASSUME NEW n \in Nat, n \in S PROVE n + 1 \in S
  <2>1. PICK q \in L : q # root /\ lev[q] >= lev[root] + n
    BY <1>6
  <2>2. PICK p \in L : lev[p] = lev[q] + 1
    BY <2>1, ParentIs
  <2>3. p # root /\ lev[p] >= lev[root] + (n + 1)
    BY <1>1, <1>4, <2>1, <2>2
  <2> QED BY <2>3
<1> HIDE DEF S
<1>7. b + 1 \in S
  BY <1>5, <1>6, Induct
<1>8. PICK q \in L : lev[q] >= lev[root] + (b + 1)
  BY <1>7 DEF S
<1> QED BY <1>1, <1>3, <1>4, <1>8

\* A root without keys gives way to its only child.
LEMMA ShrunkPicture ==
  ASSUME NEW ns, NEW root, NEW L, NEW H, Picture(ns, root, L, H), ~ns[root].leaf,
         NEW y, ns[root].ptrs = <<y>>
  PROVE  \E M : Picture(ns, y, M, H)
<1>1. PICK kids, right, held : /\ Frame(L, kids, right, held, H) /\ kids[0] = <<root>>
                               /\ \A p \in L : Shows(ns, kids, right, held, p)
  BY DEF Picture
<1>2. root \in L /\ L \subseteq 1..Len(ns)
  BY DEF Picture
<1>3. kids[root] = <<y>> /\ held[root] = {}
  BY <1>1, <1>2 DEF Shows
<1> DEFINE M == L \ {root}
           k == ShrunkKids(L, kids, root, y)
           r == ShrunkRight(L, right, root)
           h == ShrunkHeld(L, held, root)
<1>4. Frame(M, k, r, h, H) /\ y \in M
  BY <1>1, <1>2, <1>3, FrameShrunk
<1>5. k[0] = <<y>>
  BY DEF ShrunkKids
<1>6. 0 \notin L
  BY <1>2
<1>7. \A p \in M : k[p] = kids[p] /\ r[p] = right[p] /\ h[p] = held[p]
  BY <1>6 DEF ShrunkKids, ShrunkRight, ShrunkHeld
<1> HIDE DEF k, r, h
<1>8. \A p \in M : Shows(ns, k, r, h, p)
  BY <1>1, <1>7 DEF Shows
<1>9. Picture(ns, y, M, H)
  BY <1>2, <1>4, <1>5, <1>8 DEF Picture
<1> QED BY <1>9

\* A tree whose root is an empty leaf holds nothing.
LEMMA EmptiedPicture ==
  ASSUME NEW ns, NEW lev, Leveled(ns, lev), NEW root, NEW L, NEW H, Picture(ns, root, L, H),
         ns[root].leaf, ns[root].entries = << >>
  PROVE  H = {}
<1>1. PICK kids, right, held : /\ Frame(L, kids, right, held, H) /\ kids[0] = <<root>>
                               /\ \A p \in L : Shows(ns, kids, right, held, p)
  BY DEF Picture
<1>2. root \in 1..Len(ns) /\ root \in L /\ L \subseteq 1..Len(ns) /\ lev \in [1..Len(ns) -> Nat]
  BY DEF Picture, Leveled
<1>3. lev[root] = 0
  BY <1>2, PageIs
<1>4. \A q \in L : q = root
  <2> SUFFICES ASSUME NEW q \in L, q # root PROVE FALSE
    OBVIOUS
  <2>1. lev[q] < lev[root]
    BY TopLevel
  <2> QED BY <1>2, <1>3, <2>1
<1>5. held[root] = {}
  BY <1>1, <1>2 DEF Shows, InSeq
<1> QED BY <1>1, <1>4, <1>5 DEF Frame, Shared

\* An entry moved from one leaf to another leaves no doubles.
LEMMA EntryTradedIs ==
  ASSUME NEW a \in Seq(Entry), NEW b \in Seq(Entry), Distinct(a), Distinct(b),
         InSeq(a) \cap InSeq(b) = {}, NEW A, NEW B, EntryTraded(A, B, a, b)
  PROVE  /\ Distinct(A) /\ Distinct(B) /\ InSeq(A) \cap InSeq(B) = {}
         /\ InSeq(A) \cup InSeq(B) = InSeq(a) \cup InSeq(b)
<1>1. b # << >>
  BY DEF EntryTraded
<1>2. /\ InSeq(Front(b)) = InSeq(b) \ {Last(b)} /\ Distinct(Front(b))
      /\ InSeq(Tail(b)) = InSeq(b) \ {Head(b)} /\ Distinct(Tail(b))
      /\ Last(b) \in InSeq(b) /\ Head(b) \in InSeq(b) /\ Last(b) \in Entry /\ Head(b) \in Entry
  BY <1>1, TrimmedIs, ZenonT(60)
<1>3. \A x \in Entry : x \notin InSeq(a) =>
         /\ InSeq(Cons(x, a)) = InSeq(a) \cup {x} /\ Distinct(Cons(x, a))
         /\ InSeq(Append(a, x)) = InSeq(a) \cup {x} /\ Distinct(Append(a, x))
  BY AddedIs, ZenonT(60)
<1>4. CASE A = Cons(Last(b), a) /\ B = Front(b)
  <2> DEFINE x == Last(b)
  <2>1. x \in Entry /\ x \notin InSeq(a) /\ x \in InSeq(b)
    BY <1>2
  <2>2. InSeq(A) = InSeq(a) \cup {x} /\ Distinct(A)
    BY <1>3, <1>4, <2>1
  <2>3. InSeq(B) = InSeq(b) \ {x} /\ Distinct(B)
    BY <1>2, <1>4
  <2> HIDE DEF x
  <2> QED BY <2>1, <2>2, <2>3
<1>5. CASE A = Append(a, Head(b)) /\ B = Tail(b)
  <2> DEFINE x == Head(b)
  <2>1. x \in Entry /\ x \notin InSeq(a) /\ x \in InSeq(b)
    BY <1>2
  <2>2. InSeq(A) = InSeq(a) \cup {x} /\ Distinct(A)
    BY <1>3, <1>5, <2>1
  <2>3. InSeq(B) = InSeq(b) \ {x} /\ Distinct(B)
    BY <1>2, <1>5
  <2> HIDE DEF x
  <2> QED BY <2>1, <2>2, <2>3
<1> QED BY <1>4, <1>5 DEF EntryTraded

\* An internal page has pointers.
LEMMA ManyPointers ==
  ASSUME NEW n, InternalFits(n)
  PROVE  n.leaf = FALSE /\ n.ptrs \in Seq(Nat) /\ Len(n.ptrs) > 0
<1>1. /\ n.leaf = FALSE /\ n.ptrs \in Seq(Nat) /\ Len(n.keys) \in Nat
      /\ Len(n.ptrs) = Len(n.keys) + 1
  BY InternalPage
<1> QED BY <1>1

\* Two sequences one after the other.
LEMMA PartsMade ==
  ASSUME NEW S, NEW a \in Seq(S), NEW b \in Seq(S)
  PROVE  a \o b \in Seq(S) /\ Parts(a \o b, a, b)
<1>1. a \o b \in Seq(S)
  OBVIOUS
<1>2. /\ Len(a \o b) = Len(a) + Len(b)
      /\ \A i \in 1..Len(a) : (a \o b)[i] = a[i]
      /\ \A i \in 1..Len(b) : (a \o b)[Len(a) + i] = b[i]
  OBVIOUS
<1> QED BY <1>1, <1>2 DEF Parts

\* A pointer moved from one page to the next leaves the pages' pointers in the same row.
LEMMA RowTurnedLeft ==
  ASSUME NEW S, NEW a \in Seq(S), NEW b \in Seq(S), b # << >>
  PROVE  /\ Cons(Last(b), a) \in Seq(S) /\ Front(b) \in Seq(S)
         /\ Parts(b \o a, Front(b), Cons(Last(b), a)) /\ Len(Cons(Last(b), a)) > 0
<1> DEFINE A == Cons(Last(b), a)
           B == Front(b)
           z == b \o a
<1>1. B \in Seq(S) /\ IsFront(B, b) /\ Last(b) = b[Len(b)] /\ Last(b) \in S /\ Len(b) > 0
  BY FrontIs
<1>2. A \in Seq(S) /\ IsCons(A, Last(b), a)
  BY <1>1, ConsIs DEF Cons
<1>3. /\ Len(z) = Len(b) + Len(a) /\ \A i \in 1..Len(b) : z[i] = b[i]
      /\ \A i \in 1..Len(a) : z[Len(b) + i] = a[i]
  OBVIOUS
<1>4. Len(a) \in Nat /\ Len(b) \in Nat
  OBVIOUS
<1> HIDE DEF A, B, z
<1>5. /\ Len(B) = Len(b) - 1 /\ \A i \in 1..Len(b) - 1 : B[i] = b[i]
      /\ Len(A) = Len(a) + 1 /\ A[1] = b[Len(b)] /\ \A i \in 1..Len(a) : A[i + 1] = a[i]
  BY <1>1, <1>2 DEF IsFront, IsCons
<1>6. Len(z) = Len(B) + Len(A)
  BY <1>3, <1>4, <1>5
<1>7. \A i \in 1..Len(B) : z[i] = B[i]
  BY <1>1, <1>3, <1>4, <1>5
<1>8. ASSUME NEW i \in 1..Len(A) PROVE z[Len(B) + i] = A[i]
  <2>1. CASE i = 1
    <3>1. Len(B) + i = Len(b) /\ Len(b) \in 1..Len(b)
      BY <1>1, <1>4, <1>5, <2>1
    <3> QED BY <1>3, <1>5, <2>1, <3>1
  <2>2. CASE i # 1
    <3>1. i - 1 \in 1..Len(a) /\ Len(B) + i = Len(b) + (i - 1) /\ (i - 1) + 1 = i
      BY <1>4, <1>5, <2>2
    <3> QED BY <1>3, <1>5, <3>1
  <2> QED BY <2>1, <2>2
<1>9. Len(A) > 0
  BY <1>4, <1>5
<1>10. Parts(z, B, A)
  BY <1>6, <1>7, <1>8 DEF Parts
<1> QED BY <1>1, <1>2, <1>9, <1>10 DEF A, B, z

\* The first pointer of the right row moves to the end of the left one.
LEMMA RowTurnedRight ==
  ASSUME NEW S, NEW a \in Seq(S), NEW b \in Seq(S), b # << >>
  PROVE  /\ Append(a, Head(b)) \in Seq(S) /\ Tail(b) \in Seq(S)
         /\ Parts(a \o b, Append(a, Head(b)), Tail(b)) /\ Len(Append(a, Head(b))) > 0
<1> DEFINE A == Append(a, Head(b))
           B == Tail(b)
           z == a \o b
<1>1. B \in Seq(S) /\ IsTail(B, b) /\ Head(b) = b[1] /\ Head(b) \in S /\ Len(b) > 0
  BY TailIs
<1>2. A \in Seq(S) /\ IsAppend(A, a, Head(b))
  BY <1>1, AppendIs
<1>3. /\ Len(z) = Len(a) + Len(b) /\ \A i \in 1..Len(a) : z[i] = a[i]
      /\ \A i \in 1..Len(b) : z[Len(a) + i] = b[i]
  OBVIOUS
<1>4. Len(a) \in Nat /\ Len(b) \in Nat
  OBVIOUS
<1> HIDE DEF A, B, z
<1>5. /\ Len(B) = Len(b) - 1 /\ \A i \in 1..Len(b) - 1 : B[i] = b[i + 1]
      /\ Len(A) = Len(a) + 1 /\ A[Len(a) + 1] = b[1] /\ \A i \in 1..Len(a) : A[i] = a[i]
  BY <1>1, <1>2 DEF IsTail, IsAppend
<1>6. Len(z) = Len(A) + Len(B)
  BY <1>3, <1>4, <1>5
<1>7. ASSUME NEW i \in 1..Len(A) PROVE z[i] = A[i]
  <2>1. CASE i = Len(a) + 1
    <3>1. 1 \in 1..Len(b)
      BY <1>1, <1>4
    <3> QED BY <1>3, <1>5, <2>1, <3>1
  <2>2. CASE i # Len(a) + 1
    <3>1. i \in 1..Len(a)
      BY <1>4, <1>5, <2>2
    <3> QED BY <1>3, <1>5, <3>1
  <2> QED BY <2>1, <2>2
<1>8. ASSUME NEW i \in 1..Len(B) PROVE z[Len(A) + i] = B[i]
  <2>1. i + 1 \in 1..Len(b) /\ Len(A) + i = Len(a) + (i + 1) /\ i \in 1..Len(b) - 1
    BY <1>4, <1>5
  <2> QED BY <1>3, <1>5, <2>1
<1>9. Len(A) > 0
  BY <1>4, <1>5
<1>10. Parts(z, A, B)
  BY <1>6, <1>7, <1>8 DEF Parts
<1> QED BY <1>1, <1>2, <1>9, <1>10 DEF A, B, z

\* The pages around the separator next to child j of page p.
Around(ns, root, L, p, j, c, s, l, r) ==
  /\ p # 0 /\ Between(j) \in Nat \ {0} /\ c \in L /\ s \in L
  /\ ChildOf(ns, root, L, p, Between(j), l) /\ ChildOf(ns, root, L, p, Between(j) + 1, r)
  /\ IF j > 1 THEN l = s /\ r = c ELSE l = c /\ r = s

\* The underflowed page and its sibling are neighbours.
LEMMA AroundIs ==
  ASSUME NEW t, NEW lev, NEW M, NEW p, NEW j, NEW c, NEW s, Siblings(t, lev, M, p, j, c, s),
         NEW root, NEW L, NEW H, Picture(t.nodes, root, L, H), p \in L
  PROVE  Around(t.nodes, root, L, p, j, c, s,
                t.nodes[p].ptrs[Between(j)], t.nodes[p].ptrs[Between(j) + 1])
<1> DEFINE ns == t.nodes
           at == Between(j)
           ps == ns[p].ptrs
<1>1. /\ InternalFits(ns[p]) /\ c = ps[j] /\ s = ps[Sibling(j)] /\ c # p /\ s # p
      /\ at \in 1..Len(ns[p].keys) /\ at + 1 \in 1..Len(ps) /\ at \in 1..Len(ps)
      /\ IF j > 1 THEN at = Sibling(j) /\ at + 1 = j ELSE at = j /\ at + 1 = Sibling(j)
  BY DEF Siblings
<1>2. ~ns[p].leaf /\ Len(ps) \in Nat
  <2> DEFINE m == ns[p]
  <2> HIDE DEF m
  <2>1. InternalFits(m)
    BY <1>1 DEF m
  <2>2. m.leaf = FALSE /\ m.ptrs \in Seq(Nat)
    BY <2>1, InternalPage
  <2> QED BY <2>2 DEF m
<1>3. L \subseteq 1..Len(ns) /\ 0 \notin L /\ \A i \in 1..Len(ps) : ps[i] \in L
  BY <1>2, PictureKids
<1>4. p # 0 /\ at \in Nat \ {0} /\ Above(ns, root, p) = ps
  BY <1>1, <1>2, <1>3 DEF Above
<1> HIDE DEF ns, at, ps
<1>5. IF j > 1 THEN ps[at] = s /\ ps[at + 1] = c ELSE ps[at] = c /\ ps[at + 1] = s
  BY <1>1
<1>6. ps[at] \in L /\ ps[at + 1] \in L /\ ps[at] # p /\ ps[at + 1] # p /\ c \in L /\ s \in L
  <2>1. ps[at] \in L /\ ps[at + 1] \in L
    BY <1>1, <1>3
  <2>2. (ps[at] = s /\ ps[at + 1] = c) \/ (ps[at] = c /\ ps[at + 1] = s)
    BY <1>5
  <2> QED BY <1>1, <2>1, <2>2
<1>7. p \in L
  OBVIOUS
<1>8. ChildOf(ns, root, L, p, at, ps[at]) /\ ChildOf(ns, root, L, p, at + 1, ps[at + 1])
  BY <1>1, <1>2, <1>4, <1>6, <1>7 DEF ChildOf
<1>9. Around(ns, root, L, p, j, c, s, ps[at], ps[at + 1])
  BY <1>4, <1>5, <1>6, <1>8 DEF Around, at
<1> QED BY <1>9 DEF ns, at, ps

\* The entries of two leaves of a picture.
LEMMA LeavesApart ==
  ASSUME NEW ns, NEW root, NEW L, NEW H, Picture(ns, root, L, H), NEW p \in L, NEW q \in L,
         ns[p].leaf, ns[q].leaf, p # q
  PROVE  InSeq(ns[p].entries) \cap InSeq(ns[q].entries) = {}
<1>1. PICK kids, right, held : /\ Frame(L, kids, right, held, H)
                               /\ \A x \in L : Shows(ns, kids, right, held, x)
  BY DEF Picture
<1>2. held[p] = InSeq(ns[p].entries) /\ held[q] = InSeq(ns[q].entries)
  BY <1>1 DEF Shows
<1> QED BY <1>1, <1>2 DEF Frame, Shared

\* redistributeLeaves, drawn.
LEMMA LeavesMovedDrawn ==
  ASSUME NumericKeys, NEW t, NEW lev, NEW M, NEW root, NEW p, NEW j,
         Underflowed(t, lev, M, root, p, j), NEW c, NEW s, Siblings(t, lev, M, p, j, c, s),
         lev[c] = 0, Used(t.nodes[s]) > MIN_DATA_BYTES,
         NEW L, NEW H, Picture(t.nodes, root, L, H), p \in L
  PROVE  Picture(redistributeLeaves(t, p, j).nodes, root, L, H)
<1> DEFINE ns == t.nodes
<1>1. PICK new : /\ redistributeLeaves(t, p, j) = [t EXCEPT !.nodes = new]
                 /\ LeavesTraded(ns, new, p, c, s)
  BY LeavesMoved
<1>2. redistributeLeaves(t, p, j).nodes = new
  <2>1. t \in View
    BY DEF Underflowed
  <2> QED BY <1>1, <2>1 DEF View
<1>3. /\ c \in 1..Len(ns) /\ s \in 1..Len(ns) /\ c # s /\ c # p /\ s # p /\ lev[s] = 0
      /\ p \in 1..Len(ns) /\ InternalFits(ns[p]) /\ Len(ns) \in Nat
  BY DEF Siblings
<1>4. c \in L /\ s \in L
  BY AroundIs DEF Around
<1>5. LeafFits(ns[c]) /\ LeafFits(ns[s])
  <2>1. lev[c] = 0 /\ lev[s] = 0 /\ Leveled(ns, lev)
    BY <1>3 DEF Underflowed
  <2> HIDE DEF ns
  <2>2. \A x \in 1..Len(ns) : lev[x] = 0 => LeafFits(ns[x])
    BY <2>1, LeafPageIs, Zenon
  <2> QED BY <1>3, <2>1, <2>2
<1>6. /\ ns[c].leaf = TRUE /\ ns[s].leaf = TRUE
      /\ ns[c].entries \in Seq(Entry) /\ ns[s].entries \in Seq(Entry)
  BY <1>5, LeafPage
<1> DEFINE a == ns[c].entries
           b == ns[s].entries
<1>7. Distinct(a) /\ Distinct(b) /\ InSeq(a) \cap InSeq(b) = {} /\ InSeq(a) \subseteq H /\ InSeq(b) \subseteq H
  BY <1>3, <1>4, <1>6, LeafHeld, LeavesApart
<1>8. PICK A, B : /\ LeafAgain(new[c], ns[c], A) /\ LeafAgain(new[s], ns[s], B)
                  /\ EntryTraded(A, B, a, b)
  BY <1>1 DEF LeavesTraded
<1>9. /\ Distinct(A) /\ Distinct(B) /\ InSeq(A) \cap InSeq(B) = {}
      /\ InSeq(A) \cup InSeq(B) = InSeq(a) \cup InSeq(b)
  <2>1. a \in Seq(Entry) /\ b \in Seq(Entry)
    BY <1>6
  <2> HIDE DEF a, b
  <2> QED BY <1>7, <1>8, <2>1, EntryTradedIs, ZenonT(60)
<1>10. /\ new[c].leaf /\ new[c].next = ns[c].next /\ new[c].entries = A
       /\ new[s].leaf /\ new[s].next = ns[s].next /\ new[s].entries = B
  BY <1>8 DEF LeafAgain
<1>11. /\ Len(new) = Len(ns) /\ PageAgain(new[p], ns[p])
       /\ \A x \in 1..Len(ns) : x # c /\ x # s /\ x # p => new[x] = ns[x]
  <2>1. IsPages(new, Len(ns))
    BY <1>1 DEF LeavesTraded
  <2>2. DOMAIN new = 1..Len(ns)
    <3>1. DOMAIN [x \in 1..Len(ns) |-> new[x]] = 1..Len(ns)
      OBVIOUS
    <3> QED BY <2>1, <3>1 DEF IsPages
  <2>3. Len(new) = Len(ns)
    BY <1>3, <2>2
  <2> QED BY <1>1, <2>3 DEF LeavesTraded
<1>12. ~ns[p].leaf /\ ~new[p].leaf /\ new[p].ptrs = ns[p].ptrs
  BY <1>3, <1>11, InternalPage DEF PageAgain
<1>13. InSeq(a) \subseteq Entry /\ InSeq(b) \subseteq Entry
  BY <1>6 DEF InSeq
<1> DEFINE C == {c, s}
<1>14. Reheld(ns, new, L, C)
  <2>1. L \subseteq 1..Len(ns)
    BY DEF Picture
  <2>2. \A q \in L \ C : new[q] = ns[q] \/ (~ns[q].leaf /\ ~new[q].leaf /\ new[q].ptrs = ns[q].ptrs)
    BY <1>11, <1>12, <2>1
  <2>3. InSeq(A) \subseteq Entry /\ InSeq(B) \subseteq Entry
    BY <1>9, <1>13
  <2> HIDE DEF ns, a, b
  <2>4. \A q \in C : /\ ns[q].leaf /\ new[q].leaf /\ new[q].next = ns[q].next
                     /\ Distinct(new[q].entries) /\ InSeq(new[q].entries) \subseteq Entry
    BY <1>6, <1>9, <1>10, <2>3
  <2>5. \A x, y \in C : x # y => InSeq(new[x].entries) \cap InSeq(new[y].entries) = {}
    BY <1>9, <1>10
  <2> QED BY <1>4, <1>11, <2>2, <2>4, <2>5 DEF Reheld
<1>15. HeldBy(new, C) = HeldBy(ns, C) /\ HeldBy(ns, C) \subseteq H
  <2>1. HeldBy(new, C) = InSeq(A) \cup InSeq(B)
    BY <1>10 DEF HeldBy
  <2>2. HeldBy(ns, C) = InSeq(a) \cup InSeq(b)
    BY DEF HeldBy
  <2> QED BY <1>7, <1>9, <2>1, <2>2
<1> HIDE DEF C, ns
<1>16. \A e \in HeldBy(new, C) : e \in HeldBy(ns, C) \/ e \notin H
  BY <1>15
<1>17. Picture(new, root, L, (H \ HeldBy(ns, C)) \cup HeldBy(new, C))
  <2>1. Picture(ns, root, L, H)
    BY DEF ns
  <2> QED BY <1>14, <1>16, <2>1, EntriesChanged
<1>18. (H \ HeldBy(ns, C)) \cup HeldBy(new, C) = H
  BY <1>15
<1> QED BY <1>2, <1>17, <1>18

\* redistributeInternals, drawn.
LEMMA InternalsMovedDrawn ==
  ASSUME NumericKeys, NEW t, NEW lev, NEW M, NEW root, NEW p, NEW j,
         Underflowed(t, lev, M, root, p, j), NEW c, NEW s, Siblings(t, lev, M, p, j, c, s),
         lev[c] # 0, Used(t.nodes[s]) > MIN_DATA_BYTES,
         NEW L, NEW H, Picture(t.nodes, root, L, H), p \in L
  PROVE  Picture(redistributeInternals(t, p, j).nodes, root, L, H)
<1> DEFINE ns == t.nodes
           l  == ns[p].ptrs[Between(j)]
           r  == ns[p].ptrs[Between(j) + 1]
<1>1. PICK new : /\ redistributeInternals(t, p, j) = [t EXCEPT !.nodes = new]
                 /\ PagesTraded(ns, new, p, j, c, s)
  BY InternalsMoved
<1>2. redistributeInternals(t, p, j).nodes = new
  <2>1. t \in View
    BY DEF Underflowed
  <2> QED BY <1>1, <2>1 DEF View
<1>3. /\ c \in 1..Len(ns) /\ s \in 1..Len(ns) /\ c # s /\ c # p /\ s # p /\ lev[s] # 0
      /\ p \in 1..Len(ns) /\ InternalFits(ns[p]) /\ Len(ns) \in Nat
  BY DEF Siblings
<1>4. Around(ns, root, L, p, j, c, s, l, r)
  BY AroundIs
<1> HIDE DEF l, r
<1>5. InternalFits(ns[c]) /\ InternalFits(ns[s])
  <2>1. lev[c] # 0 /\ lev[s] # 0 /\ Leveled(ns, lev)
    BY <1>3 DEF Underflowed
  <2> HIDE DEF ns
  <2>2. \A x \in 1..Len(ns) : lev[x] # 0 => InternalFits(ns[x])
    BY <2>1, InternalPageIs, Zenon
  <2> QED BY <1>3, <2>1, <2>2
<1> DEFINE a == ns[c].ptrs
           b == ns[s].ptrs
           A == new[c].ptrs
           B == new[s].ptrs
<1>6. /\ ns[c].leaf = FALSE /\ ns[s].leaf = FALSE
      /\ a \in Seq(Nat) /\ b \in Seq(Nat) /\ Len(a) > 0 /\ Len(b) > 0
  BY <1>5, ManyPointers
<1>7. InternalFits(new[c]) /\ InternalFits(new[s])
  BY <1>1 DEF PagesTraded, Shifted
<1>8. /\ new[c].leaf = FALSE /\ new[s].leaf = FALSE
      /\ A \in Seq(Nat) /\ B \in Seq(Nat) /\ Len(A) > 0 /\ Len(B) > 0
  BY <1>7, ManyPointers
<1>11. /\ Len(new) = Len(ns) /\ PageAgain(new[p], ns[p])
       /\ \A x \in 1..Len(ns) : x # c /\ x # s /\ x # p => new[x] = ns[x]
  <2>1. IsPages(new, Len(ns))
    BY <1>1 DEF PagesTraded
  <2>2. DOMAIN new = 1..Len(ns)
    <3>1. DOMAIN [x \in 1..Len(ns) |-> new[x]] = 1..Len(ns)
      OBVIOUS
    <3> QED BY <2>1, <3>1 DEF IsPages
  <2>3. Len(new) = Len(ns)
    BY <1>3, <2>2
  <2> QED BY <1>1, <2>3 DEF PagesTraded
<1>12. ~ns[p].leaf /\ ~new[p].leaf /\ new[p].ptrs = ns[p].ptrs
  BY <1>3, <1>11, InternalPage DEF PageAgain
<1>13. PointerTraded(A, B, a, b, j > 1)
  BY <1>1 DEF PagesTraded
<1>14. \E z \in Seq(Nat) : Parts(z, ns[l].ptrs, ns[r].ptrs) /\ Parts(z, new[l].ptrs, new[r].ptrs)
  <2>0. b # << >>
    BY <1>6
  <2>1. CASE j > 1
    <3>1. l = s /\ r = c /\ A = Cons(Last(b), a) /\ B = Front(b)
      BY <1>4, <1>13, <2>1 DEF Around, PointerTraded
    <3>2. ns[l].ptrs = b /\ ns[r].ptrs = a /\ new[l].ptrs = B /\ new[r].ptrs = A
      BY <3>1
    <3>3. a \in Seq(Nat) /\ b \in Seq(Nat)
      BY <1>6
    <3> HIDE DEF a, b, A, B
    <3>4. Parts(b \o a, B, A)
      BY <2>0, <3>1, <3>3, RowTurnedLeft, ZenonT(60)
    <3>5. b \o a \in Seq(Nat) /\ Parts(b \o a, b, a)
      BY <3>3, PartsMade, ZenonT(60)
    <3> QED BY <3>2, <3>4, <3>5
  <2>2. CASE ~(j > 1)
    <3>1. l = c /\ r = s /\ A = Append(a, Head(b)) /\ B = Tail(b)
      BY <1>4, <1>13, <2>2 DEF Around, PointerTraded
    <3>2. ns[l].ptrs = a /\ ns[r].ptrs = b /\ new[l].ptrs = A /\ new[r].ptrs = B
      BY <3>1
    <3>3. a \in Seq(Nat) /\ b \in Seq(Nat)
      BY <1>6
    <3> HIDE DEF a, b, A, B
    <3>4. Parts(a \o b, A, B)
      BY <2>0, <3>1, <3>3, RowTurnedRight, ZenonT(60)
    <3>5. a \o b \in Seq(Nat) /\ Parts(a \o b, a, b)
      BY <3>3, PartsMade, ZenonT(60)
    <3> QED BY <3>2, <3>4, <3>5
  <2> QED BY <2>1, <2>2
<1>15. PICK z \in Seq(Nat) : Parts(z, ns[l].ptrs, ns[r].ptrs) /\ Parts(z, new[l].ptrs, new[r].ptrs)
  BY <1>14
<1>16. (l = c /\ r = s) \/ (l = s /\ r = c)
  BY <1>4 DEF Around
<1>17. /\ ~ns[l].leaf /\ ~ns[r].leaf /\ ~new[l].leaf /\ ~new[r].leaf
       /\ Len(ns[l].ptrs) > 0 /\ Len(ns[r].ptrs) > 0
       /\ Len(new[l].ptrs) > 0 /\ Len(new[r].ptrs) > 0
       /\ new[l].ptrs \in Seq(Nat) /\ new[r].ptrs \in Seq(Nat)
  BY <1>6, <1>8, <1>16
<1>18. \A q \in 1..Len(ns) : q # l /\ q # r /\ q # p => new[q] = ns[q]
  BY <1>11, <1>16
<1>19. /\ p # 0 /\ Between(j) \in Nat \ {0}
       /\ ChildOf(ns, root, L, p, Between(j), l) /\ ChildOf(ns, root, L, p, Between(j) + 1, r)
  BY <1>4 DEF Around
<1>20. Picture(ns, root, L, H) /\ Len(new) = Len(ns)
  BY <1>11
<1> HIDE DEF ns
<1>21. Picture(new, root, L, H)
  BY <1>12, <1>15, <1>17, <1>18, <1>19, <1>20, ShiftedPicture
<1> QED BY <1>2, <1>21

\* Two pages of a picture joined.
LEMMA JoinIs ==
  ASSUME NEW a, NEW b, NEW x,
         \/ LeafFits(a) /\ LeafFits(b) /\ Distinct(a.entries) /\ Distinct(b.entries)
              /\ InSeq(a.entries) \cap InSeq(b.entries) = {}
         \/ InternalFits(a) /\ InternalFits(b)
  PROVE  JoinedPage(mergedNode(a, x, b), a, b)
<1> DEFINE m == mergedNode(a, x, b)
<1>1. CASE LeafFits(a) /\ LeafFits(b) /\ Distinct(a.entries) /\ Distinct(b.entries)
             /\ InSeq(a.entries) \cap InSeq(b.entries) = {}
  <2> DEFINE ae == a.entries
             be == b.entries
  <2>1. a.leaf = TRUE /\ b.leaf = TRUE /\ ae \in Seq(Entry) /\ be \in Seq(Entry)
    BY <1>1, LeafPage
  <2>2. m = Leaf(ae \o be, b.next)
    BY <2>1 DEF mergedNode
  <2>3. Distinct(ae) /\ Distinct(be) /\ InSeq(ae) \cap InSeq(be) = {}
    BY <1>1
  <2> HIDE DEF ae, be
  <2>4. InSeq(ae \o be) = InSeq(ae) \cup InSeq(be) /\ Distinct(ae \o be)
    BY <2>1, <2>3, JoinedIs
  <2>5. m.leaf = TRUE /\ m.entries = ae \o be /\ m.next = b.next
    BY <2>2 DEF Leaf
  <2> QED BY <2>1, <2>4, <2>5 DEF JoinedPage, ae, be
<1>2. CASE InternalFits(a) /\ InternalFits(b)
  <2> DEFINE ap == a.ptrs
             bp == b.ptrs
  <2>1. /\ a.leaf = FALSE /\ b.leaf = FALSE /\ ap \in Seq(Nat) /\ bp \in Seq(Nat)
        /\ Len(ap) > 0 /\ Len(bp) > 0
    BY <1>2, ManyPointers
  <2>2. m = Internal(Append(a.keys, x) \o b.keys, ap \o bp)
    BY <2>1 DEF mergedNode
  <2>3. m.leaf = FALSE /\ m.ptrs = ap \o bp
    <3> DEFINE ks == Append(a.keys, x) \o b.keys
               ps == ap \o bp
    <3> HIDE DEF ks, ps, m
    <3>1. m = Internal(ks, ps)
      BY <2>2 DEF ks, ps, m
    <3>2. m.leaf = FALSE /\ m.ptrs = ps
      BY <3>1 DEF Internal
    <3> QED BY <3>2 DEF ps
  <2> HIDE DEF ap, bp
  <2>4. ap \o bp \in Seq(Nat) /\ Parts(ap \o bp, ap, bp)
    BY <2>1, PartsMade
  <2> QED BY <2>1, <2>3, <2>4 DEF JoinedPage, ap, bp
<1> QED BY <1>1, <1>2

\* merge, drawn.
LEMMA MergeDrawn ==
  ASSUME NumericKeys, NEW t, NEW lev, NEW M, NEW root, NEW p, NEW j,
         Underflowed(t, lev, M, root, p, j), NEW c, NEW s, Siblings(t, lev, M, p, j, c, s),
         NEW L, NEW H, Picture(t.nodes, root, L, H), p \in L
  PROVE  \E N : /\ Picture(merge(t, p, j).nodes, root, N, H)
                /\ \A q \in L : lev[q] >= lev[p] => q \in N
<1> DEFINE ns == t.nodes
           at == Between(j)
           l  == ns[p].ptrs[at]
           r  == ns[p].ptrs[at + 1]
           x  == ns[p].keys[at]
           m  == mergedNode(ns[l], x, ns[r])
           n  == Internal(RemoveAt(ns[p].keys, at), RemoveAt(ns[p].ptrs, at + 1))
           new == [ns EXCEPT ![l] = m, ![p] = n]
<1>1. merge(t, p, j) = IF Fso(m) > PAGE_SIZE THEN t ELSE [t EXCEPT !.nodes = new]
  BY DEF merge, Between
<1>2. CASE Fso(m) > PAGE_SIZE
  <2>1. merge(t, p, j) = t
    BY <1>1, <1>2
  <2> QED BY <2>1
<1>3. ASSUME ~(Fso(m) > PAGE_SIZE) PROVE merge(t, p, j).nodes = new
  <2>1. t \in View
    BY DEF Underflowed
  <2>2. merge(t, p, j) = [t EXCEPT !.nodes = new]
    BY <1>1, <1>3
  <2> HIDE DEF new
  <2> QED BY <2>1, <2>2 DEF View
<1>4. /\ c \in 1..Len(ns) /\ s \in 1..Len(ns) /\ c # s /\ c # p /\ s # p
      /\ p \in 1..Len(ns) /\ InternalFits(ns[p]) /\ Len(ns) \in Nat /\ DOMAIN ns = 1..Len(ns)
      /\ lev[c] = lev[p] - 1 /\ lev[s] = lev[p] - 1 /\ lev[p] \in Nat /\ lev[p] > 0
      /\ at + 1 \in 1..Len(ns[p].ptrs)
  BY DEF Siblings
<1>5. Around(ns, root, L, p, j, c, s, l, r)
  BY AroundIs
<1>6. Leveled(ns, lev)
  BY DEF Underflowed
<1>7. \/ LeafFits(ns[c]) /\ LeafFits(ns[s])
      \/ InternalFits(ns[c]) /\ InternalFits(ns[s])
  <2> HIDE DEF ns
  <2>1. /\ \A y \in 1..Len(ns) : lev[y] = 0 => LeafFits(ns[y])
        /\ \A y \in 1..Len(ns) : lev[y] # 0 => InternalFits(ns[y])
    BY <1>6, LeafPageIs, InternalPageIs, Zenon
  <2> QED BY <1>4, <2>1
<1>8. n.leaf = FALSE /\ n.ptrs = RemoveAt(ns[p].ptrs, at + 1)
  BY DEF Internal
<1>9. n.ptrs \in Seq(Nat) /\ IsRemoval(n.ptrs, ns[p].ptrs, at + 1)
  <2> DEFINE ps == ns[p].ptrs
             i  == at + 1
  <2>1. ps \in Seq(Nat) /\ i \in 1..Len(ps)
    BY <1>4, InternalPage
  <2> HIDE DEF ps, i
  <2>2. RemoveAt(ps, i) \in Seq(Nat) /\ IsRemoval(RemoveAt(ps, i), ps, i)
    BY <2>1, RemovalIs, Zenon
  <2> QED BY <1>8, <2>2 DEF ps, i
<1>10. (l = c /\ r = s) \/ (l = s /\ r = c)
  BY <1>5 DEF Around
<1>11. JoinedPage(m, ns[l], ns[r])
  <2>1. c \in L /\ s \in L
    BY <1>5 DEF Around
  <2>2. l \in L /\ r \in L /\ l # r
    BY <1>4, <1>10, <2>1
  <2>3. Picture(ns, root, L, H)
    OBVIOUS
  <2> HIDE DEF l, r, x, ns
  <2>4. \/ LeafFits(ns[l]) /\ LeafFits(ns[r])
        \/ InternalFits(ns[l]) /\ InternalFits(ns[r])
    BY <1>7, <1>10
  <2>5. LeafFits(ns[l]) /\ LeafFits(ns[r]) => ns[l].leaf /\ ns[r].leaf
    BY LeafPage
  <2>6. LeafFits(ns[l]) /\ LeafFits(ns[r]) =>
          /\ Distinct(ns[l].entries) /\ Distinct(ns[r].entries)
          /\ InSeq(ns[l].entries) \cap InSeq(ns[r].entries) = {}
    BY <2>2, <2>3, <2>5, LeafHeld, LeavesApart
  <2> QED BY <2>4, <2>6, JoinIs
<1> HIDE DEF m, n, l, r
<1>12. /\ new[l] = m /\ new[p] = n /\ Len(new) = Len(ns)
       /\ \A q \in 1..Len(ns) : q # l /\ q # r /\ q # p => new[q] = ns[q]
  <2>1. l \in 1..Len(ns) /\ l # p
    BY <1>4, <1>10
  <2>2. ns \in Seq(Node)
    BY <1>6 DEF Leveled
  <2> HIDE DEF ns
  <2> QED BY <1>4, <2>1, <2>2
<1> HIDE DEF new
<1>13. /\ p # 0 /\ at \in Nat \ {0}
       /\ ChildOf(ns, root, L, p, at, l) /\ ChildOf(ns, root, L, p, at + 1, r)
  BY <1>5 DEF Around
<1>14. Picture(ns, root, L, H)
  OBVIOUS
<1>15. Picture(new, root, L \ {r}, H)
  <2> HIDE DEF ns, at
  <2> QED BY <1>8, <1>9, <1>11, <1>12, <1>13, <1>14, MergedPicture
<1>16. \A q \in L : lev[q] >= lev[p] => q \in L \ {r}
  BY <1>4, <1>10
<1>17. CASE ~(Fso(m) > PAGE_SIZE)
  BY <1>3, <1>15, <1>16, <1>17
<1> QED BY <1>2, <1>17

\* An underflow repaired, drawn: the pages above are in the picture still.
DrawnAbove(u, lev, root, p, L, H) ==
  \E N : Picture(u.nodes, root, N, H) /\ \A q \in L : lev[q] >= lev[p] => q \in N

\* A rotation or a merge leaves the entries as they are, and the pages above in place.
LEMMA RepairDrawn ==
  ASSUME NumericKeys, NEW t, NEW lev, NEW M, NEW root, NEW p, NEW j,
         Underflowed(t, lev, M, root, p, j), NEW L, NEW H, Picture(t.nodes, root, L, H), p \in L
  PROVE  DrawnAbove(redistributeOrMergeEntries(t, p, j), lev, root, p, L, H)
<1> DEFINE u == redistributeOrMergeEntries(t, p, j)
<1>1. PICK c, s : Siblings(t, lev, M, p, j, c, s) /\ RepairWays(t, lev, p, j, c, s, u)
  BY RepairChoice
<1> HIDE DEF u
<1>2. ASSUME u = merge(t, p, j) PROVE DrawnAbove(u, lev, root, p, L, H)
  <2>1. \E N : /\ Picture(merge(t, p, j).nodes, root, N, H)
               /\ \A q \in L : lev[q] >= lev[p] => q \in N
    BY <1>1, MergeDrawn
  <2> QED BY <1>2, <2>1 DEF DrawnAbove
<1>3. ASSUME Used(t.nodes[s]) > MIN_DATA_BYTES, lev[c] = 0, u = redistributeLeaves(t, p, j)
      PROVE  DrawnAbove(u, lev, root, p, L, H)
  <2>1. Picture(u.nodes, root, L, H)
    BY <1>1, <1>3, LeavesMovedDrawn
  <2> QED BY <2>1 DEF DrawnAbove
<1>4. ASSUME Used(t.nodes[s]) > MIN_DATA_BYTES, lev[c] # 0, u = redistributeInternals(t, p, j)
      PROVE  DrawnAbove(u, lev, root, p, L, H)
  <2>1. Picture(u.nodes, root, L, H)
    BY <1>1, <1>4, InternalsMovedDrawn
  <2> QED BY <2>1 DEF DrawnAbove
<1>5. DrawnAbove(u, lev, root, p, L, H)
  BY <1>1, <1>2, <1>3, <1>4 DEF RepairWays
<1> QED BY <1>5 DEF u

\* The leaves of a picture lead to leaves of it.
LEMMA NextDrawn ==
  ASSUME NEW ns, NEW lev, Leveled(ns, lev), NEW root, NEW L, NEW H, Picture(ns, root, L, H),
         NEW p \in L, ns[p].leaf, ns[p].next # 0
  PROVE  ns[p].next \in L /\ ns[ns[p].next].leaf
<1>1. PICK kids, right, held : /\ Frame(L, kids, right, held, H)
                               /\ \A x \in L : Shows(ns, kids, right, held, x)
  BY DEF Picture
<1>2. kids[p] = << >> /\ right[p] = ns[p].next
  BY <1>1 DEF Shows
<1> DEFINE x == ns[p].next
<1>3. x \in L
  BY <1>1, <1>2 DEF Frame, Rows
<1>4. Len(kids[x]) = 0
  BY <1>1, <1>2 DEF Frame, Rows
<1> HIDE DEF x
<1>5. ASSUME ~ns[x].leaf PROVE FALSE
  <2>1. kids[x] = ns[x].ptrs
    BY <1>1, <1>3, <1>5 DEF Shows
  <2>2. x \in 1..Len(ns)
    BY <1>3 DEF Picture
  <2>3. InternalFits(ns[x])
    BY <1>5, <2>2, PageIs
  <2>4. Len(ns[x].ptrs) = Len(ns[x].keys) + 1 /\ Len(ns[x].keys) \in Nat
    BY <2>3, InternalPage
  <2> QED BY <1>4, <2>1, <2>4
<1>6. ns[x].leaf
  BY <1>5
<1> QED BY <1>3, <1>6 DEF x

\* The leaf deleteEntry finds an entry on is one of the tree, and holds that entry.
LEMMA LeafOfDrawn ==
  ASSUME NumericKeys, NEW t, NEW lev, FileView(t, lev), NEW e \in Entry, LeafOf(t, e) # 0,
         NEW L, NEW H, Picture(t.nodes, t.root, L, H)
  PROVE  /\ LeafOf(t, e) \in L /\ t.nodes[LeafOf(t, e)].leaf
         /\ \E x \in ToSet(t.nodes[LeafOf(t, e)].entries) : Matches(x, e)
<1> DEFINE ns == t.nodes
           S  == {p \in L : ns[p].leaf}
           path == Path(t, e.key, findInternalChildIdsLeft)
<1>1. t.root # 0
  BY LeafOfIs
<1>2. Leveled(ns, lev) /\ L \subseteq 1..Len(ns) /\ t.root \in L /\ Len(ns) \in Nat
      /\ DOMAIN ns = 1..Len(ns)
  <2>1. Leveled(ns, lev) /\ L \subseteq 1..Len(ns) /\ t.root \in L
    BY DEF FileView, Picture
  <2>2. ns \in Seq(Node)
    BY <2>1 DEF Leveled
  <2> HIDE DEF ns
  <2> QED BY <2>1, <2>2
<1>3. PICK pick : /\ Picks(ns, pick) /\ Walk(ns, lev, pick, t.root, path)
  BY <1>2, DescentLeft
<1> HIDE DEF path
<1>4. Last(path) \in S
  <2> DEFINE n == lev[t.root]
  <2>1. \A i \in 1..n + 1 : path[i] \in L
    BY <1>2, <1>3, WalkDrawn
  <2>2. Len(path) = n + 1 /\ \A i \in 1..n + 1 : lev[path[i]] = n + 1 - i
    BY <1>3 DEF Walk
  <2> HIDE DEF ns
  <2>3. n \in Nat
    <3>1. t.root \in 1..Len(ns)
      BY <1>2
    <3> QED BY <1>2, <3>1, PageIs
  <2>4. n + 1 \in 1..n + 1 /\ n + 1 - (n + 1) = 0
    BY <2>3
  <2>5. Last(path) = path[n + 1]
    BY <2>2 DEF Last
  <2>6. path[n + 1] \in L /\ lev[path[n + 1]] = 0
    BY <2>1, <2>2, <2>4
  <2>7. ns[path[n + 1]].leaf
    <3>1. path[n + 1] \in 1..Len(ns)
      BY <1>2, <2>6
    <3> QED BY <1>2, <2>6, <3>1, PageIs
  <2> QED BY <2>5, <2>6, <2>7
<1>5. \A p \in S : ns[p].next = 0 \/ ns[p].next \in S
  BY <1>2, NextDrawn
<1>6. S \subseteq 1..Len(ns)
  BY <1>2
<1> HIDE DEF S
<1>7. /\ LeafOf(t, e) \in S
      /\ \E x \in ToSet(t.nodes[LeafOf(t, e)].entries) : Matches(x, e)
  BY <1>2, <1>4, <1>5, <1>6, LeafOfIn DEF path
<1> QED BY <1>7 DEF S

\* With keys of four bytes an entry matches no other.
LEMMA MatchesOne ==
  ASSUME NumericKeys, NEW e \in Entry, NEW x \in Entry, Matches(x, e)
  PROVE  x = e
<1>1. x.rid = e.rid /\ x.key = e.key
  BY DEF NumericKeys, Matches
<1> QED BY <1>1 DEF Entry

\* The entry found is taken out of the picture.
LEMMA CutDrawn ==
  ASSUME NumericKeys, NEW t, NEW lev, FileView(t, lev), NEW e \in Entry, LeafOf(t, e) # 0,
         NEW L, NEW H, Picture(t.nodes, t.root, L, H)
  PROVE  /\ e \in H /\ Picture(Cut(t, e, LeafOf(t, e)).nodes, t.root, L, H \ {e})
         /\ CutAt(t, e, LeafOf(t, e)) \in 1..Len(t.nodes[LeafOf(t, e)].entries)
<1> DEFINE ns  == t.nodes
           q   == LeafOf(t, e)
           es  == ns[q].entries
           at  == CutAt(t, e, q)
           new == [ns EXCEPT ![q] = [ns[q] EXCEPT !.entries = RemoveAt(es, at)]]
<1>1. /\ q \in L /\ ns[q].leaf
      /\ \E x \in ToSet(es) : Matches(x, e)
  BY LeafOfDrawn
<1>2. /\ t \in View /\ Leveled(ns, lev) /\ L \subseteq 1..Len(ns) /\ ns \in Seq(Node)
      /\ lev[q] = 0
  BY LeafOfIs DEF FileView, Leveled, Picture
<1>3. LeafFits(ns[q])
  <2> HIDE DEF ns, q
  <2> QED BY <1>1, <1>2, LeafPageIs, Zenon
<1>4. es \in Seq(Entry) /\ Distinct(es) /\ InSeq(es) \subseteq H /\ 10 * Len(es) <= Room
      /\ Len(es) \in Nat /\ InSeq(es) \subseteq Entry
  <2>1. es \in Seq(Entry) /\ 10 * Len(es) <= Room
    BY <1>3, LeafPage
  <2>2. Distinct(es) /\ InSeq(es) \subseteq H
    BY <1>1, LeafHeld
  <2> QED BY <2>1, <2>2 DEF InSeq
<1>5. at \in 1..Len(es) /\ Matches(es[at], e)
  BY <1>1, <1>4, MatchIs
<1>6. Cut(t, e, q).nodes = new
  BY <1>2 DEF Cut, View
<1> HIDE DEF at, q, es
<1>7. es[at] = e /\ e \in H
  <2>1. es[at] \in Entry /\ es[at] \in H
    BY <1>4, <1>5 DEF InSeq
  <2>2. es[at] = e
    BY <1>5, <2>1, MatchesOne
  <2> QED BY <2>1, <2>2
<1> DEFINE gs == RemoveAt(es, at)
<1>8. InSeq(gs) = InSeq(es) \ {e} /\ Distinct(gs)
  BY <1>4, <1>5, <1>7, RemovedIs
<1>9. gs \in Seq(Entry) /\ 10 * Len(gs) <= Room
  <2>1. gs \in Seq(Entry) /\ Len(gs) = Len(es) - 1
    BY <1>4, <1>5, RemoveAtIs
  <2>2. Room \in Int
    BY BTreeAssumption DEF Room, METADATA_SIZE
  <2> QED BY <1>4, <2>1, <2>2
<1> HIDE DEF gs
<1>10. LeafAgain([ns[q] EXCEPT !.entries = gs], ns[q], gs)
  BY <1>3, <1>9, LeafChanged
<1>11. /\ Len(new) = Len(ns) /\ new[q] = [ns[q] EXCEPT !.entries = gs]
       /\ \A x \in L : x # q => new[x] = ns[x]
  BY <1>1, <1>2 DEF gs
<1>12. new[q].leaf /\ new[q].next = ns[q].next /\ new[q].entries = gs
  BY <1>10, <1>11 DEF LeafAgain
<1> HIDE DEF new, ns
<1>13. Reheld(ns, new, L, {q})
  <2>1. InSeq(gs) \subseteq Entry
    BY <1>4, <1>8
  <2> QED BY <1>1, <1>8, <1>11, <1>12, <2>1 DEF Reheld
<1>14. HeldBy(ns, {q}) = InSeq(es) /\ HeldBy(new, {q}) = InSeq(gs)
  BY <1>12 DEF HeldBy, es
<1>15. Picture(new, t.root, L, (H \ HeldBy(ns, {q})) \cup HeldBy(new, {q}))
  <2>1. Picture(ns, t.root, L, H)
    BY DEF ns
  <2>2. \A x \in HeldBy(new, {q}) : x \in HeldBy(ns, {q}) \/ x \notin H
    BY <1>8, <1>14
  <2> QED BY <1>13, <2>1, <2>2, EntriesChanged
<1>16. (H \ HeldBy(ns, {q})) \cup HeldBy(new, {q}) = H \ {e}
  <2>1. e \in InSeq(es)
    BY <1>5, <1>7, <1>4 DEF InSeq
  <2> QED BY <1>4, <1>8, <1>14, <2>1
<1> QED BY <1>5, <1>6, <1>7, <1>15, <1>16 DEF q, at, es, ns

\* What the climb of a deletion keeps of the picture: the pages up the path are still in it.
StillDrawn(d, root, path, H) ==
  \E N : Picture(d.tree.nodes, root, N, H) /\ \A i \in 1..d.at + 1 : path[i] \in N

\* One step of the climb of a deletion.
LEMMA ClimbDrawnDown ==
  ASSUME NumericKeys, NEW t, NEW lev, NEW L, GoodView(t, lev, L), NEW key,
         NEW pick, Picks(t.nodes, pick),
         \A p \in 1..Len(t.nodes) :
            ~t.nodes[p].leaf => pick[p] = findInternalChildIdsLeft(t.nodes[p], key),
         NEW path, Walk(t.nodes, lev, pick, t.root, path),
         NEW k \in 1..lev[t.root], NEW d, Climbed(d, t, lev, path, k - 1), ~Settled(d, path),
         NEW H, StillDrawn(d, t.root, path, H)
  PROVE  /\ StillDrawn(UpOne(d, path, key), t.root, path, H)
         /\ UpOne(d, path, key) \in [tree : View, at : Nat]
<1> DEFINE n == lev[t.root]
           p == path[d.at]
           j == findInternalChildIdsLeft(d.tree.nodes[p], key)
           v == UpOne(d, path, key)
<1>1. PICK M : /\ Tree(d.tree.nodes, M, {t.root}) /\ Keyed(d.tree.nodes, M \ {path[d.at + 1]})
               /\ \A i \in 1..d.at + 1 : path[i] \in M
  BY DEF Climbed
<1>2. Underflowed(d.tree, lev, M, t.root, p, j) /\ d.at \in 1..n
  BY <1>1, ClimbAt
<1>3. PICK L1 : Picture(d.tree.nodes, t.root, L1, H) /\ \A i \in 1..d.at + 1 : path[i] \in L1
  BY DEF StillDrawn
<1>4. n \in Nat
  <2>1. Leveled(t.nodes, lev) /\ t.root \in 1..Len(t.nodes)
    BY DEF GoodView, Tree
  <2> DEFINE ns == t.nodes
  <2> HIDE DEF ns
  <2>2. Leveled(ns, lev) /\ t.root \in 1..Len(ns)
    BY <2>1 DEF ns
  <2> QED BY <2>2, PageIs
<1>5. \A i \in 1..n + 1 : lev[path[i]] = n + 1 - i
  BY DEF Walk
<1> HIDE DEF n
<1>6. p \in L1 /\ \A i \in 1..d.at : path[i] \in L1 /\ lev[path[i]] >= lev[p]
  <2>1. d.at \in 1..d.at + 1 /\ \A i \in 1..d.at : i \in 1..d.at + 1 /\ i \in 1..n + 1
    BY <1>2, <1>4
  <2>2. lev[p] = n + 1 - d.at
    BY <1>2, <1>4, <1>5
  <2>3. \A i \in 1..d.at : lev[path[i]] = n + 1 - i
    BY <1>5, <2>1
  <2> QED BY <1>2, <1>3, <1>4, <2>1, <2>2, <2>3
<1> HIDE DEF p, j
<1>7. PICK N : /\ Picture(redistributeOrMergeEntries(d.tree, p, j).nodes, t.root, N, H)
               /\ \A q \in L1 : lev[q] >= lev[p] => q \in N
  <2>1. DrawnAbove(redistributeOrMergeEntries(d.tree, p, j), lev, t.root, p, L1, H)
    BY <1>2, <1>3, <1>6, RepairDrawn
  <2> QED BY <2>1 DEF DrawnAbove
<1>8. v.tree = redistributeOrMergeEntries(d.tree, p, j) /\ v.at = d.at - 1
  BY DEF UpOne, p, j
<1>9. \A i \in 1..v.at + 1 : path[i] \in N
  <2>1. v.at + 1 = d.at
    BY <1>2, <1>8
  <2> QED BY <1>6, <1>7, <2>1
<1>10. StillDrawn(v, t.root, path, H)
  <2> HIDE DEF v
  <2> QED BY <1>7, <1>8, <1>9 DEF StillDrawn
<1>11. v \in [tree : View, at : Nat]
  <2>1. Climbed(v, t, lev, path, k)
    BY ClimbStep
  <2> QED BY <2>1 DEF Climbed
<1> QED BY <1>10, <1>11

\* deleteEntry takes the entry out of the picture, before the root is looked at.
LEMMA DelDrawn ==
  ASSUME NumericKeys, NEW t, NEW lev, FileView(t, lev), NEW e \in Entry, LeafOf(t, e) # 0,
         NEW L, NEW H, Picture(t.nodes, t.root, L, H)
  PROVE  /\ e \in H
         /\ \E N : Picture(del(t, e, LeafOf(t, e)).nodes, t.root, N, H \ {e})
<1> DEFINE ns   == t.nodes
           q    == LeafOf(t, e)
           cut  == Cut(t, e, q)
           n    == lev[t.root]
           G    == H \ {e}
<1>1. /\ t.root # 0 /\ q \in 1..Len(ns) /\ lev[q] = 0
  BY LeafOfIs
<1>2. PICK L0 : GoodView(t, lev, L0)
  BY <1>1 DEF FileView
<1>3. Leveled(ns, lev) /\ t.root \in 1..Len(ns) /\ n \in Nat
  <2>1. Leveled(ns, lev) /\ Tree(ns, L0, {t.root})
    BY <1>2 DEF GoodView
  <2>2. t.root \in 1..Len(ns)
    BY <2>1 DEF Tree
  <2> HIDE DEF ns
  <2> QED BY <2>1, <2>2, PageIs
<1>4. /\ e \in H /\ Picture(cut.nodes, t.root, L, G)
      /\ CutAt(t, e, q) \in 1..Len(ns[q].entries)
  BY CutDrawn
<1>5. cut \in View
  BY <1>1, <1>2, <1>4, EntryCut DEF Cut, GoodView
<1> HIDE DEF cut, q
<1>12. PICK path : path = DelPath(t, e)
  OBVIOUS
<1>6. PICK pick : /\ Picks(ns, pick)
                  /\ \A p \in 1..Len(ns) :
                       ~ns[p].leaf => pick[p] = findInternalChildIdsLeft(ns[p], e.key)
                  /\ Walk(ns, lev, pick, t.root, path)
  BY <1>3, <1>12, DescentLeft DEF DelPath
<1>7. \A i \in 1..n + 1 : path[i] \in L
  BY <1>3, <1>6, WalkDrawn
<1> DEFINE Extra == {d \in [tree : View, at : Nat] : StillDrawn(d, t.root, path, G)}
<1>8. [tree |-> cut, at |-> n] \in Extra
  BY <1>3, <1>4, <1>5, <1>7 DEF StillDrawn
<1>9. \A k \in 1..n : \A d \in Extra :
        Climbed(d, t, lev, path, k - 1) /\ ~Settled(d, path) => UpOne(d, path, e.key) \in Extra
  <2> SUFFICES ASSUME NEW k \in 1..n, NEW d \in Extra, Climbed(d, t, lev, path, k - 1),
                      ~Settled(d, path)
               PROVE  UpOne(d, path, e.key) \in Extra
    OBVIOUS
  <2>1. /\ StillDrawn(UpOne(d, path, e.key), t.root, path, G)
        /\ UpOne(d, path, e.key) \in [tree : View, at : Nat]
    <3>1. StillDrawn(d, t.root, path, G)
      OBVIOUS
    <3> HIDE DEF Extra, G
    <3> QED BY <1>2, <1>6, <3>1, ClimbDrawnDown
  <2> QED BY <2>1
<1> HIDE DEF Extra
<1>13. ClimbKeeps(Extra, t, e, q, lev, path)
  BY <1>8, <1>9 DEF ClimbKeeps, cut
<1>10. \/ del(t, e, q) = cut
       \/ \E d \in Extra : Climbed(d, t, lev, path, n) /\ del(t, e, q) = d.tree
  <2>1. /\ q \in 1..Len(t.nodes) /\ lev[q] = 0
        /\ CutAt(t, e, q) \in 1..Len(t.nodes[q].entries) /\ Picks(t.nodes, pick)
        /\ \A p \in 1..Len(t.nodes) :
             ~t.nodes[p].leaf => pick[p] = findInternalChildIdsLeft(t.nodes[p], e.key)
        /\ Walk(t.nodes, lev, pick, t.root, path)
    BY <1>1, <1>4, <1>6
  <2> HIDE DEF ns, G
  <2> QED BY <1>2, <1>12, <1>13, <2>1, DelClimbs DEF cut
<1>11. \E N : Picture(del(t, e, q).nodes, t.root, N, G)
  <2>1. CASE del(t, e, q) = cut
    BY <1>4, <2>1
  <2>2. CASE \E d \in Extra : del(t, e, q) = d.tree
    BY <2>2 DEF Extra, StillDrawn
  <2> QED BY <1>10, <2>1, <2>2
<1> QED BY <1>4, <1>11 DEF q

\* deleteEntry takes the entry out of the picture.
LEMMA DeleteDrawn ==
  ASSUME NumericKeys, NEW t, NEW lev, FileView(t, lev), NEW e \in Entry, LeafOf(t, e) # 0,
         NEW H, Pictured(t, H)
  PROVE  e \in H /\ Pictured(shrinkRoot(del(t, e, LeafOf(t, e))), H \ {e})
<1> DEFINE u == del(t, e, LeafOf(t, e))
           G == H \ {e}
           r == u.nodes[u.root]
<1>1. t.root # 0
  BY LeafOfIs
<1>2. PICK L : Picture(t.nodes, t.root, L, H)
  BY <1>1 DEF Pictured
<1>3. e \in H /\ \E N : Picture(u.nodes, t.root, N, G)
  BY <1>2, DelDrawn
<1>4. PICK N : Picture(u.nodes, t.root, N, G)
  BY <1>3
<1>5. PICK M : Rooted(u, lev, M)
  BY DelIs
<1>6. u.root = t.root
  BY DelIs
<1> HIDE DEF u
<1>7. /\ u \in View /\ Leveled(u.nodes, lev) /\ u.root \in 1..Len(u.nodes) /\ u.root # 0
  BY <1>1, <1>5, <1>6 DEF Rooted, Tree
<1>8. shrinkRoot(u) = IF r.leaf
                      THEN IF r.entries = << >> THEN [u EXCEPT !.root = 0] ELSE u
                      ELSE IF r.keys = << >> THEN [u EXCEPT !.root = r.ptrs[1]] ELSE u
  BY DEF shrinkRoot
<1>9. ASSUME NEW x
      PROVE  [u EXCEPT !.root = x].root = x /\ [u EXCEPT !.root = x].nodes = u.nodes
  BY <1>7 DEF View
<1>10. Pictured(u, G)
  BY <1>4, <1>6, <1>7 DEF Pictured
<1>11. CASE r.leaf /\ r.entries = << >>
  <2>1. G = {}
    BY <1>4, <1>6, <1>7, <1>11, EmptiedPicture
  <2>2. shrinkRoot(u).root = 0
    BY <1>8, <1>9, <1>11
  <2>3. Pictured(shrinkRoot(u), G)
    BY <2>1, <2>2 DEF Pictured
  <2> QED BY <1>3, <2>3 DEF u
<1>12. CASE ~r.leaf /\ r.keys = << >>
  <2> DEFINE y == r.ptrs[1]
  <2>1. InternalFits(r)
    BY <1>7, <1>12, PageIs
  <2>2. r.ptrs = <<y>> /\ y \in Nat
    <3>1. r.ptrs \in Seq(Nat) /\ Len(r.ptrs) = Len(r.keys) + 1
      BY <2>1, InternalPage
    <3>2. Len(r.ptrs) = 1
      BY <1>12, <3>1
    <3> DEFINE s == r.ptrs
    <3> HIDE DEF s
    <3>3. s \in Seq(Nat) /\ Len(s) = 1 => s = <<s[1]>> /\ s[1] \in Nat
      OBVIOUS
    <3> QED BY <3>1, <3>2, <3>3 DEF s
  <2>3. \E K : Picture(u.nodes, y, K, G)
    BY <1>4, <1>6, <1>12, <2>2, ShrunkPicture
  <2>4. y # 0
    BY <2>3 DEF Picture
  <2>5. shrinkRoot(u).root = y /\ shrinkRoot(u).nodes = u.nodes
    BY <1>8, <1>9, <1>12
  <2> HIDE DEF y
  <2>6. Pictured(shrinkRoot(u), G)
    BY <2>3, <2>4, <2>5 DEF Pictured
  <2> QED BY <1>3, <2>6 DEF u
<1>13. CASE ~(r.leaf /\ r.entries = << >>) /\ ~(~r.leaf /\ r.keys = << >>)
  <2>1. shrinkRoot(u) = u
    BY <1>8, <1>13
  <2> QED BY <1>3, <1>10, <2>1 DEF u
<1> QED BY <1>11, <1>12, <1>13

-----------------------------------------------------------------------------
(* Reading a picture. *)

\* The leaves s of the chain from a to the one in front of b.
Run(ns, s, a, b) ==
  /\ s \in Seq(1..Len(ns)) /\ Len(s) > 0 /\ s[1] = a /\ ns[s[Len(s)]].next = b
  /\ \A i \in 1..Len(s) - 1 : ns[s[i]].next = s[i + 1]

\* One stretch of the chain behind another.
LEMMA RunsJoined ==
  ASSUME NEW ns, NEW s, NEW r, NEW a, NEW b, NEW c, Run(ns, s, a, b), Run(ns, r, b, c)
  PROVE  Run(ns, s \o r, a, c) /\ InSeq(s \o r) = InSeq(s) \cup InSeq(r)
<1> DEFINE P == 1..Len(ns)
           z == s \o r
<1>1. /\ s \in Seq(P) /\ Len(s) > 0 /\ s[1] = a /\ ns[s[Len(s)]].next = b
      /\ \A i \in 1..Len(s) - 1 : ns[s[i]].next = s[i + 1]
  BY DEF Run
<1>2. /\ r \in Seq(P) /\ Len(r) > 0 /\ r[1] = b /\ ns[r[Len(r)]].next = c
      /\ \A i \in 1..Len(r) - 1 : ns[r[i]].next = r[i + 1]
  BY DEF Run
<1> HIDE DEF P
<1>3. z \in Seq(P) /\ Parts(z, s, r)
  BY <1>1, <1>2, PartsMade
<1> HIDE DEF z
<1>4. /\ Len(z) = Len(s) + Len(r) /\ Len(s) \in Nat /\ Len(r) \in Nat
      /\ \A i \in 1..Len(s) : z[i] = s[i]
      /\ \A i \in 1..Len(r) : z[Len(s) + i] = r[i]
  BY <1>1, <1>2, <1>3 DEF Parts
<1>5. Len(z) > 0 /\ z[1] = a
  BY <1>1, <1>2, <1>4
<1>6. ns[z[Len(z)]].next = c
  <2>1. Len(r) \in 1..Len(r)
    BY <1>2, <1>4
  <2> QED BY <1>2, <1>4, <2>1
<1>7. ASSUME NEW i \in 1..Len(z) - 1 PROVE ns[z[i]].next = z[i + 1]
  <2>1. CASE i < Len(s)
    <3>1. i \in 1..Len(s) /\ i + 1 \in 1..Len(s) /\ i \in 1..Len(s) - 1
      BY <1>4, <2>1
    <3> QED BY <1>1, <1>4, <3>1
  <2>2. CASE i = Len(s)
    <3>1. i \in 1..Len(s) /\ 1 \in 1..Len(r)
      BY <1>1, <1>2, <1>4, <2>2
    <3> QED BY <1>1, <1>2, <1>4, <2>2, <3>1
  <2>3. CASE i > Len(s)
    <3> DEFINE j == i - Len(s)
    <3>1. /\ j \in 1..Len(r) /\ j + 1 \in 1..Len(r) /\ j \in 1..Len(r) - 1
          /\ i = Len(s) + j /\ i + 1 = Len(s) + (j + 1)
      BY <1>4, <2>3
    <3> HIDE DEF j
    <3>2. z[i] = r[j] /\ z[i + 1] = r[j + 1]
      BY <1>4, <3>1
    <3> QED BY <1>2, <3>1, <3>2
  <2> QED BY <1>4, <2>1, <2>2, <2>3
<1>8. InSeq(z) = InSeq(s) \cup InSeq(r)
  <2>1. /\ DOMAIN z = 1..Len(z) /\ DOMAIN s = 1..Len(s) /\ DOMAIN r = 1..Len(r)
    BY <1>1, <1>2, <1>3
  <2>2. ASSUME NEW i \in 1..Len(z) PROVE z[i] \in InSeq(s) \cup InSeq(r)
    <3>1. CASE i <= Len(s)
      BY <1>4, <2>1, <3>1 DEF InSeq
    <3>2. CASE i > Len(s)
      <4> DEFINE j == i - Len(s)
      <4>1. j \in 1..Len(r) /\ i = Len(s) + j
        BY <1>4, <3>2
      <4> HIDE DEF j
      <4>2. z[i] = r[j]
        BY <1>4, <4>1
      <4> QED BY <2>1, <4>1, <4>2 DEF InSeq
    <3> QED BY <1>4, <3>1, <3>2
  <2>3. ASSUME NEW i \in 1..Len(s) PROVE s[i] \in InSeq(z)
    <3>1. i \in 1..Len(z) /\ z[i] = s[i]
      BY <1>4
    <3> QED BY <2>1, <3>1 DEF InSeq
  <2>4. ASSUME NEW i \in 1..Len(r) PROVE r[i] \in InSeq(z)
    <3>1. Len(s) + i \in 1..Len(z) /\ z[Len(s) + i] = r[i]
      BY <1>4
    <3> QED BY <2>1, <3>1 DEF InSeq
  <2> QED BY <2>1, <2>2, <2>3, <2>4 DEF InSeq
<1>9. Run(ns, z, a, c)
  BY <1>3, <1>5, <1>6, <1>7 DEF Run, P
<1> QED BY <1>8, <1>9 DEF z

\* What holds of the first of many sequences, and is kept when another is put behind, holds
\* of all of them in a row.
RowsGood(ss, n, Good) ==
  /\ ss[1] \in Good[1]
  /\ \A k \in 2..n : \A w \in Good[k - 1] : w \o ss[k] \in Good[k]

\* So it holds of sequences flattened.
LEMMA FlattenIs ==
  ASSUME NEW ss, NEW n \in Nat, n > 0, Len(ss) = n, NEW Good, RowsGood(ss, n, Good)
  PROVE  FlattenSeq(ss) \in Good[n]
<1> DEFINE Eq(f) == f = [i \in 1..n |-> IF i = 1 THEN ss[i] ELSE f[i - 1] \o ss[i]]
           flatten == CHOOSE f : Eq(f)
           G  == [k \in 0..n - 1 |-> Good[k + 1]]
           H  == [k \in 1..n - 1 |-> [w \in Good[k] |-> w \o ss[k + 1]]]
           m  == n - 1
<1>1. FlattenSeq(ss) = flatten[n]
  BY DEF FlattenSeq
<1>2. m \in Nat
  OBVIOUS
<1>3. \E f : Eq(f)
  <2>1. StaysGood(m, ss[1], H, G)
    <3>1. ss[1] \in G[0]
      BY DEF RowsGood
    <3>2. ASSUME NEW k \in 1..m, NEW w \in G[k - 1] PROVE H[k][w] \in G[k]
      <4>1. k + 1 \in 2..n /\ (k + 1) - 1 = k /\ k - 1 \in 0..n - 1 /\ (k - 1) + 1 = k /\ k \in 0..n - 1
        OBVIOUS
      <4>2. w \in Good[k] /\ G[k] = Good[k + 1]
        BY <4>1
      <4>3. H[k][w] = w \o ss[k + 1]
        BY <4>2
      <4>4. w \in Good[(k + 1) - 1]
        BY <4>1, <4>2
      <4>5. w \o ss[k + 1] \in Good[k + 1]
        BY <4>1, <4>4 DEF RowsGood
      <4> QED BY <4>2, <4>3, <4>5
    <3> HIDE DEF m, G, H
    <3> QED BY <3>1, <3>2 DEF StaysGood
  <2>2. PICK g : IsLadder(m, ss[1], H, g) /\ \A k \in 0..m : g[k] \in G[k]
    <3> HIDE DEF m, G, H
    <3> QED BY <1>2, <2>1, Ladder, Zenon
  <2>3. /\ g[0] = ss[1] /\ \A k \in 1..m : g[k] = H[k][g[k - 1]]
    <3> HIDE DEF H
    <3> QED BY <1>2, <2>2 DEF IsLadder
  <2> DEFINE f == [i \in 1..n |-> g[i - 1]]
  <2>4. ASSUME NEW i \in 1..n PROVE f[i] = IF i = 1 THEN ss[i] ELSE f[i - 1] \o ss[i]
    <3>1. CASE i = 1
      BY <2>3, <3>1
    <3>2. CASE i # 1
      <4>1. i - 1 \in 1..m /\ i - 1 \in 1..n /\ (i - 1) + 1 = i /\ (i - 1) - 1 \in 0..m
            /\ ((i - 1) - 1) + 1 = i - 1
        BY <3>2
      <4>2. g[(i - 1) - 1] \in Good[i - 1]
        BY <2>2, <4>1
      <4>3. g[i - 1] = H[i - 1][g[(i - 1) - 1]]
        BY <2>3, <4>1
      <4>4. H[i - 1][g[(i - 1) - 1]] = g[(i - 1) - 1] \o ss[(i - 1) + 1]
        BY <4>1, <4>2
      <4>5. f[i] = g[i - 1] /\ f[i - 1] = g[(i - 1) - 1]
        BY <4>1
      <4> QED BY <3>2, <4>1, <4>3, <4>4, <4>5
    <3> QED BY <3>1, <3>2
  <2>5. f = [i \in 1..n |-> f[i]]
    OBVIOUS
  <2> HIDE DEF f
  <2>6. Eq(f)
    BY <2>4, <2>5
  <2> QED BY <2>6
<1>4. Eq(flatten)
  <2> HIDE DEF Eq
  <2> QED BY <1>3
<1> HIDE DEF flatten
<1> DEFINE T == {k \in Nat : k + 1 <= n => flatten[k + 1] \in Good[k + 1]}
<1>5. 0 \in T
  <2>1. flatten[1] = ss[1]
    BY <1>4
  <2> QED BY <2>1 DEF RowsGood
<1>6. ASSUME NEW k \in Nat, k \in T PROVE k + 1 \in T
  <2> SUFFICES ASSUME (k + 1) + 1 <= n PROVE flatten[(k + 1) + 1] \in Good[(k + 1) + 1]
    OBVIOUS
  <2> DEFINE i == (k + 1) + 1
  <2>1. i \in 1..n /\ i # 1 /\ i - 1 = k + 1 /\ k + 1 <= n /\ i \in 2..n
    OBVIOUS
  <2> HIDE DEF i
  <2>2. flatten[i] = flatten[i - 1] \o ss[i]
    BY <1>4, <2>1
  <2>3. flatten[i - 1] \in Good[i - 1]
    BY <1>6, <2>1
  <2>4. flatten[i] \in Good[i]
    BY <2>1, <2>2, <2>3 DEF RowsGood
  <2> QED BY <2>4 DEF i
<1>7. Nat \subseteq T
  <2> HIDE DEF T
  <2> QED BY <1>5, <1>6, Induct
<1>8. flatten[n] \in Good[n]
  <2>1. m \in T /\ m + 1 = n
    BY <1>2, <1>7
  <2> HIDE DEF m
  <2> QED BY <2>1
<1> QED BY <1>1, <1>8

\* The leaves below each page, from left to right.
IsBelow(ns, f) ==
  f = [p \in DOMAIN ns |-> IF ns[p].leaf THEN <<p>>
                           ELSE FlattenSeq([i \in DOMAIN ns[p].ptrs |-> f[ns[p].ptrs[i]]])]

\* Those below page r.
LeavesBelow(ns, r) == (CHOOSE f : IsBelow(ns, f))[r]

\* The leaves of the children of an internal page.
LEMMA ManyRows ==
  ASSUME NEW ns, NEW lev, Leveled(ns, lev), NEW p \in 1..Len(ns), ~ns[p].leaf, NEW f,
         NEW ss, ss = [i \in DOMAIN ns[p].ptrs |-> f[ns[p].ptrs[i]]]
  PROVE  /\ Len(ss) = Len(ns[p].ptrs) /\ Len(ss) \in Nat /\ Len(ss) > 0
         /\ \A i \in 1..Len(ns[p].ptrs) : /\ ss[i] = f[ns[p].ptrs[i]]
                                          /\ ns[p].ptrs[i] \in 1..Len(ns)
                                          /\ lev[ns[p].ptrs[i]] = lev[p] - 1
<1> DEFINE ps == ns[p].ptrs
<1>6. ss = [i \in DOMAIN ps |-> f[ps[i]]]
  OBVIOUS
<1>1. /\ InternalFits(ns[p])
      /\ \A i \in 1..Len(ps) : ps[i] \in 1..Len(ns) /\ lev[ps[i]] = lev[p] - 1
  BY PageIs
<1>2. ps \in Seq(Nat) /\ Len(ps) > 0 /\ Len(ps) \in Nat
  <2>1. ps \in Seq(Nat) /\ Len(ps) > 0
    BY <1>1, ManyPointers, Zenon
  <2> HIDE DEF ps
  <2> QED BY <2>1
<1> HIDE DEF ps
<1>3. DOMAIN ps = 1..Len(ps)
  BY <1>2
<1>4. Len(ss) = Len(ps)
  BY <1>2, <1>3, <1>6
<1>5. \A i \in 1..Len(ps) : ss[i] = f[ps[i]]
  BY <1>3, <1>6
<1> QED BY <1>1, <1>2, <1>4, <1>5 DEF ps

\* The recursion down the levels defines them.
LEMMA BelowExists ==
  ASSUME NEW ns, NEW lev, Leveled(ns, lev)
  PROVE  IsBelow(ns, CHOOSE f : IsBelow(ns, f))
<1> DEFINE P == 1..Len(ns)
           V == Seq(P)
           ss(p, g) == [i \in DOMAIN ns[p].ptrs |-> g[ns[p].ptrs[i]]]
           G == [p \in P |-> [g \in [P -> V] |-> IF ns[p].leaf THEN <<p>> ELSE FlattenSeq(ss(p, g))]]
<1>1. DOMAIN ns = P /\ lev \in [P -> Nat]
  BY DEF Leveled
<1>2. \A p \in P, g \in [P -> V] : G[p][g] = IF ns[p].leaf THEN <<p>> ELSE FlattenSeq(ss(p, g))
  OBVIOUS
<1> HIDE DEF G
<1>3. Descends(P, lev, V, G)
  <2>1. V # {}
    <3>1. << >> \in V
      OBVIOUS
    <3> QED BY <3>1
  <2>2. ASSUME NEW p \in P, NEW g \in [P -> V] PROVE G[p][g] \in V
    <3>1. CASE ns[p].leaf
      <4>1. <<p>> \in V
        OBVIOUS
      <4> QED BY <1>2, <3>1, <4>1
    <3>2. CASE ~ns[p].leaf
      <4> DEFINE s == ss(p, g)
                 n == Len(s)
                 Good == [k \in 1..n |-> V]
      <4>1. /\ n \in Nat /\ n > 0 /\ n = Len(ns[p].ptrs)
            /\ \A i \in 1..Len(ns[p].ptrs) : s[i] = g[ns[p].ptrs[i]] /\ ns[p].ptrs[i] \in P
        <5>1. s = [i \in DOMAIN ns[p].ptrs |-> g[ns[p].ptrs[i]]]
          OBVIOUS
        <5> HIDE DEF V, s
        <5> QED BY <3>2, <5>1, ManyRows
      <4>2. \A i \in 1..n : s[i] \in V
        BY <4>1
      <4> HIDE DEF s, n
      <4>3. RowsGood(s, n, Good)
        <5>1. 1 \in 1..n /\ \A k \in 2..n : k \in 1..n /\ k - 1 \in 1..n
          BY <4>1
        <5>2. \A w \in V : \A k \in 1..n : w \o s[k] \in V
          BY <4>2
        <5> HIDE DEF V
        <5> QED BY <4>2, <5>1, <5>2 DEF RowsGood
      <4>4. FlattenSeq(s) \in Good[n]
        <5> HIDE DEF Good
        <5> QED BY <4>1, <4>3, FlattenIs DEF n
      <4>5. FlattenSeq(s) \in V
        BY <4>1, <4>4
      <4> HIDE DEF V
      <4> QED BY <1>2, <3>2, <4>5 DEF s, V
    <3> QED BY <3>1, <3>2
  <2>3. ASSUME NEW p \in P, NEW g \in [P -> V], NEW h \in [P -> V],
               \A q \in P : lev[q] < lev[p] => g[q] = h[q]
        PROVE  G[p][g] = G[p][h]
    <3>1. CASE ns[p].leaf
      BY <1>2, <3>1
    <3>2. CASE ~ns[p].leaf
      <4>1. \A i \in 1..Len(ns[p].ptrs) : /\ ns[p].ptrs[i] \in P
                                          /\ lev[ns[p].ptrs[i]] = lev[p] - 1
        BY <3>2, PageIs
      <4>2. lev[p] \in Nat /\ DOMAIN ns[p].ptrs = 1..Len(ns[p].ptrs)
        <5>1. InternalFits(ns[p])
          BY <3>2, PageIs
        <5>2. ns[p].ptrs \in Seq(Nat)
          BY <5>1, InternalPage
        <5> QED BY <1>1, <5>2
      <4> DEFINE ps == ns[p].ptrs
      <4>3. ASSUME NEW i \in DOMAIN ps PROVE g[ps[i]] = h[ps[i]]
        <5>1. ps[i] \in P /\ lev[ps[i]] = lev[p] - 1
          BY <4>1, <4>2
        <5> HIDE DEF ps, P
        <5>2. lev[ps[i]] < lev[p]
          BY <4>2, <5>1
        <5> QED BY <2>3, <5>1, <5>2
      <4>4. ss(p, g) = ss(p, h)
        <5> HIDE DEF P, V
        <5> QED BY <4>3
      <4>5. /\ G[p][g] = FlattenSeq(ss(p, g))
            /\ G[p][h] = FlattenSeq(ss(p, h))
        <5> HIDE DEF P, V, ss
        <5> QED BY <1>2, <3>2
      <4> HIDE DEF ss
      <4> QED BY <4>4, <4>5
    <3> QED BY <3>1, <3>2
  <2> HIDE DEF P, V
  <2> QED BY <1>1, <2>1, <2>2, <2>3 DEF Descends
<1>4. PICK f \in [P -> V] : IsFixpoint(P, G, f)
  <2> HIDE DEF P, V
  <2> QED BY <1>3, ByLevel, Zenon
<1>5. f = [p \in P |-> IF ns[p].leaf THEN <<p>> ELSE FlattenSeq(ss(p, f))]
  <2> HIDE DEF P, V, ss
  <2>1. \A p \in P : G[p][f] = IF ns[p].leaf THEN <<p>> ELSE FlattenSeq(ss(p, f))
    BY <1>2
  <2> QED BY <1>4, <2>1 DEF IsFixpoint
<1>6. IsBelow(ns, f)
  BY <1>1, <1>5 DEF IsBelow
<1> QED BY <1>6

\* A picture, drawn.
Sketch(ns, root, L, H, kids, right, held) ==
  /\ L \subseteq 1..Len(ns) /\ root \in L
  /\ Frame(L, kids, right, held, H) /\ kids[0] = <<root>>
  /\ \A p \in L : Shows(ns, kids, right, held, p)

\* What a sketch says of an internal page of it.
LEMMA SketchPage ==
  ASSUME NEW ns, NEW lev, Leveled(ns, lev), NEW root, NEW L, NEW H, NEW kids, NEW right, NEW held,
         Sketch(ns, root, L, H, kids, right, held), NEW p \in L, ~ns[p].leaf
  PROVE  /\ kids[p] = ns[p].ptrs /\ Len(kids[p]) > 0 /\ Len(kids[p]) \in Nat
         /\ First(ns, p) = First(ns, kids[p][1])
         /\ \A i \in 1..Len(kids[p]) : kids[p][i] \in L /\ lev[kids[p][i]] = lev[p] - 1
         /\ \A i \in 1..Len(kids[p]) - 1 : right[kids[p][i]] = kids[p][i + 1]
         /\ right[kids[p][Len(kids[p])]] = IF right[p] = 0 THEN 0 ELSE kids[right[p]][1]
         /\ right[p] \in L \cup {0} /\ 0 \notin L
         /\ right[p] # 0 => ~ns[right[p]].leaf
<1> DEFINE ps == kids[p]
<1>1. /\ L \subseteq 1..Len(ns) /\ Frame(L, kids, right, held, H)
      /\ \A q \in L : Shows(ns, kids, right, held, q)
  BY DEF Sketch
<1>2. ps = ns[p].ptrs /\ p \in 1..Len(ns)
  BY <1>1 DEF Shows
<1>3. InternalFits(ns[p]) /\ First(ns, p) = First(ns, ns[p].ptrs[1])
  BY <1>2, PageIs, FirstsAre
<1>4. Len(ps) > 0 /\ Len(ps) \in Nat
  <2> HIDE DEF ps
  <2>1. ns[p].ptrs \in Seq(Nat) /\ Len(ns[p].ptrs) > 0
    BY <1>3, ManyPointers, Zenon
  <2> QED BY <1>2, <2>1
<1>5. \A i \in 1..Len(ps) : lev[ps[i]] = lev[p] - 1
  BY <1>2, PageIs
<1>6. kids \in [L \cup {0} -> Seq(L)] /\ 0 \notin L
  BY <1>1 DEF Frame, Placed, Typed
<1>7. \A i \in 1..Len(ps) : ps[i] \in L
  BY <1>6
<1>8. /\ right[p] \in L \cup {0}
      /\ \A i \in 1..Len(ps) : right[ps[i]] = Beside(kids, right, p, i)
      /\ right[p] # 0 => (Len(ps) = 0 <=> Len(kids[right[p]]) = 0)
  BY <1>1 DEF Frame, Rows
<1>9. ASSUME right[p] # 0, ns[right[p]].leaf PROVE FALSE
  <2>1. kids[right[p]] = << >>
    BY <1>1, <1>8, <1>9 DEF Shows
  <2> QED BY <1>4, <1>8, <1>9, <2>1
<1>10. \A i \in 1..Len(ps) - 1 : right[ps[i]] = ps[i + 1]
  <2> SUFFICES ASSUME NEW i \in 1..Len(ps) - 1 PROVE right[ps[i]] = ps[i + 1]
    OBVIOUS
  <2>1. i \in 1..Len(ps) /\ i < Len(ps)
    BY <1>4
  <2> QED BY <1>8, <2>1 DEF Beside
<1>11. right[ps[Len(ps)]] = IF right[p] = 0 THEN 0 ELSE kids[right[p]][1]
  <2>1. Len(ps) \in 1..Len(ps) /\ ~(Len(ps) < Len(ps))
    BY <1>4
  <2> QED BY <1>8, <2>1 DEF Beside
<1> QED BY <1>2, <1>3, <1>4, <1>5, <1>6, <1>7, <1>8, <1>9, <1>10, <1>11

\* The first leaf behind those below page p.
Onward(ns, right, p) == IF right[p] = 0 THEN 0 ELSE First(ns, right[p])

\* The leaves s below page p are a stretch of the chain, among the leaves of L.
Stretch(ns, L, right, p, s) ==
  /\ Run(ns, s, First(ns, p), Onward(ns, right, p))
  /\ InSeq(s) \subseteq {q \in L : ns[q].leaf}

\* The stretches of the children of a page, one behind the other, are that of the page.
LEMMA StretchesJoined ==
  ASSUME NEW ns, NEW lev, Leveled(ns, lev), NEW root, NEW L, NEW H, NEW kids, NEW right, NEW held,
         Sketch(ns, root, L, H, kids, right, held), NEW f, IsBelow(ns, f),
         NEW p \in L, ~ns[p].leaf,
         \A i \in 1..Len(kids[p]) : Stretch(ns, L, right, kids[p][i], f[kids[p][i]])
  PROVE  /\ Stretch(ns, L, right, p, f[p])
         /\ \A i \in 1..Len(kids[p]) : InSeq(f[kids[p][i]]) \subseteq InSeq(f[p])
<1> DEFINE ps == kids[p]
           n  == Len(ps)
           ss == [i \in DOMAIN ps |-> f[ps[i]]]
           P  == 1..Len(ns)
           S  == {q \in L : ns[q].leaf}
           Held(k) == UNION {InSeq(f[ps[i]]) : i \in 1..k}
           Good == [k \in 1..n |-> {w \in Seq(P) : /\ Run(ns, w, First(ns, ps[1]), Onward(ns, right, ps[k]))
                                                   /\ InSeq(w) = Held(k)}]
<1>1. /\ ps = ns[p].ptrs /\ n > 0 /\ n \in Nat
      /\ First(ns, p) = First(ns, ps[1])
      /\ \A i \in 1..n : ps[i] \in L
      /\ \A i \in 1..n - 1 : right[ps[i]] = ps[i + 1]
      /\ right[ps[n]] = IF right[p] = 0 THEN 0 ELSE kids[right[p]][1]
      /\ right[p] \in L \cup {0} /\ 0 \notin L
      /\ right[p] # 0 => ~ns[right[p]].leaf
  BY SketchPage
<1>2. L \subseteq P /\ DOMAIN ns = P
  BY DEF Sketch, Leveled
<1>3. f[p] = FlattenSeq(ss)
  <2>1. p \in DOMAIN ns
    BY <1>2
  <2> QED BY <1>1, <2>1 DEF IsBelow
<1>4. Len(ss) = n /\ \A i \in 1..n : ss[i] = f[ps[i]]
  <2>1. ss = [i \in DOMAIN ns[p].ptrs |-> f[ns[p].ptrs[i]]] /\ p \in 1..Len(ns)
    BY <1>1, <1>2
  <2> HIDE DEF ss, ps
  <2>2. Len(ss) = Len(ns[p].ptrs) /\ \A i \in 1..Len(ns[p].ptrs) : ss[i] = f[ns[p].ptrs[i]]
    BY <2>1, ManyRows
  <2> QED BY <1>1, <2>2
<1>5. \A i \in 1..n : Run(ns, f[ps[i]], First(ns, ps[i]), Onward(ns, right, ps[i]))
                      /\ InSeq(f[ps[i]]) \subseteq S
  BY DEF Stretch
<1> HIDE DEF ps, ss
<1>6. \A i \in 2..n : Onward(ns, right, ps[i - 1]) = First(ns, ps[i])
  <2> SUFFICES ASSUME NEW i \in 2..n PROVE Onward(ns, right, ps[i - 1]) = First(ns, ps[i])
    OBVIOUS
  <2>1. i - 1 \in 1..n - 1 /\ (i - 1) + 1 = i /\ i \in 1..n
    BY <1>1
  <2>2. right[ps[i - 1]] = ps[i] /\ ps[i] # 0
    BY <1>1, <2>1
  <2> QED BY <2>2 DEF Onward
<1>7. Onward(ns, right, ps[n]) = Onward(ns, right, p)
  <2>1. CASE right[p] = 0
    BY <1>1, <2>1 DEF Onward
  <2>2. CASE right[p] # 0
    <3> DEFINE r == right[p]
    <3>1. r \in L /\ ~ns[r].leaf
      BY <1>1, <2>2
    <3> HIDE DEF r
    <3>2. First(ns, r) = First(ns, kids[r][1]) /\ Len(kids[r]) > 0 /\ Len(kids[r]) \in Nat
          /\ \A i \in 1..Len(kids[r]) : kids[r][i] \in L
      BY <3>1, SketchPage
    <3>3. 1 \in 1..Len(kids[r])
      BY <3>2
    <3>4. kids[r][1] # 0
      BY <1>1, <3>2, <3>3
    <3> QED BY <1>1, <2>2, <3>2, <3>4 DEF Onward, r
  <2> QED BY <2>1, <2>2
<1>8. RowsGood(ss, n, Good)
  <2>1. ss[1] \in Good[1]
    <3>1. 1 \in 1..n
      BY <1>1
    <3>2. Held(1) = InSeq(f[ps[1]])
      OBVIOUS
    <3>3. Run(ns, f[ps[1]], First(ns, ps[1]), Onward(ns, right, ps[1])) /\ ss[1] = f[ps[1]]
      BY <1>4, <1>5, <3>1
    <3>4. f[ps[1]] \in Seq(P)
      BY <3>3 DEF Run
    <3> HIDE DEF Held
    <3> QED BY <3>1, <3>2, <3>3, <3>4
  <2>2. ASSUME NEW k \in 2..n, NEW w \in Good[k - 1] PROVE w \o ss[k] \in Good[k]
    <3> DEFINE z == w \o ss[k]
    <3>1. k - 1 \in 1..n /\ k \in 1..n
      BY <1>1
    <3>2. /\ Run(ns, w, First(ns, ps[1]), Onward(ns, right, ps[k - 1]))
          /\ InSeq(w) = Held(k - 1)
      BY <3>1
    <3>3. ss[k] = f[ps[k]] /\ Run(ns, ss[k], First(ns, ps[k]), Onward(ns, right, ps[k]))
      BY <1>4, <1>5, <3>1
    <3>4. Run(ns, w, First(ns, ps[1]), First(ns, ps[k]))
      BY <1>6, <3>2
    <3> HIDE DEF Held
    <3>5. /\ Run(ns, z, First(ns, ps[1]), Onward(ns, right, ps[k]))
          /\ InSeq(z) = InSeq(w) \cup InSeq(ss[k])
      BY <3>3, <3>4, RunsJoined
    <3>6. Held(k) = Held(k - 1) \cup InSeq(f[ps[k]])
      <4>1. \A i \in Nat \ {0} : i \in 1..k <=> i \in 1..k - 1 \/ i = k
        BY <3>1, <1>1
      <4>2. \A x : x \in Held(k) <=> \E i \in 1..k : x \in InSeq(f[ps[i]])
        BY DEF Held
      <4>3. \A x : x \in Held(k - 1) <=> \E i \in 1..k - 1 : x \in InSeq(f[ps[i]])
        BY DEF Held
      <4>4. k \in 1..k /\ \A i \in 1..k - 1 : i \in 1..k
        BY <3>1, <1>1
      <4>5. \A i \in 1..k : i \in 1..k - 1 \/ i = k
        BY <3>1, <1>1
      <4> QED BY <4>2, <4>3, <4>4, <4>5
    <3>7. z \in Seq(P)
      BY <3>5 DEF Run
    <3> HIDE DEF z
    <3>8. z \in Good[k]
      BY <3>1, <3>2, <3>3, <3>5, <3>6, <3>7
    <3> QED BY <3>8 DEF z
  <2> HIDE DEF Good
  <2> QED BY <2>1, <2>2 DEF RowsGood
<1>9. FlattenSeq(ss) \in Good[n]
  <2> HIDE DEF Good, n
  <2> QED BY <1>1, <1>4, <1>8, FlattenIs
<1>10. /\ Run(ns, f[p], First(ns, ps[1]), Onward(ns, right, ps[n])) /\ InSeq(f[p]) = Held(n)
  <2>1. n \in 1..n
    BY <1>1
  <2> HIDE DEF Held
  <2> QED BY <1>3, <1>9, <2>1
<1>11. Held(n) \subseteq S /\ \A i \in 1..n : InSeq(f[ps[i]]) \subseteq Held(n)
  BY <1>5
<1> HIDE DEF Held, Good
<1>12. Stretch(ns, L, right, p, f[p])
  BY <1>1, <1>7, <1>10, <1>11 DEF Stretch
<1> QED BY <1>10, <1>11, <1>12 DEF ps

\* So are those below every page.
LEMMA AllStretches ==
  ASSUME NEW ns, NEW lev, Leveled(ns, lev), NEW root, NEW L, NEW H, NEW kids, NEW right, NEW held,
         Sketch(ns, root, L, H, kids, right, held), NEW f, IsBelow(ns, f)
  PROVE  \A p \in L : Stretch(ns, L, right, p, f[p])
<1> DEFINE T == {n \in Nat : \A p \in L : lev[p] = n => Stretch(ns, L, right, p, f[p])}
<1>1. L \subseteq 1..Len(ns) /\ DOMAIN ns = 1..Len(ns) /\ Picture(ns, root, L, H)
  <2>1. L \subseteq 1..Len(ns) /\ Picture(ns, root, L, H)
    BY DEF Sketch, Picture
  <2> QED BY <2>1 DEF Leveled
<1>6. ASSUME NEW p \in L, ~ns[p].leaf
      PROVE  \A i \in 1..Len(kids[p]) : kids[p][i] \in L /\ lev[kids[p][i]] = lev[p] - 1
  <2> HIDE DEF T
  <2> QED BY <1>6, SketchPage
<1>2. 0 \in T
  <2> SUFFICES ASSUME NEW p \in L, lev[p] = 0 PROVE Stretch(ns, L, right, p, f[p])
    OBVIOUS
  <2>1. p \in 1..Len(ns) /\ ns[p].leaf
    BY <1>1, PageIs
  <2>2. f[p] = <<p>>
    BY <1>1, <2>1 DEF IsBelow
  <2>3. First(ns, p) = p
    BY <2>1, FirstsAre
  <2>4. right[p] = ns[p].next
    BY <2>1 DEF Sketch, Shows
  <2>5. Onward(ns, right, p) = ns[p].next
    <3>1. CASE right[p] = 0
      BY <2>4, <3>1 DEF Onward
    <3>2. CASE right[p] # 0
      <4>1. right[p] \in L /\ ns[right[p]].leaf
        BY <1>1, <2>1, <2>4, <3>2, NextDrawn
      <4>2. First(ns, right[p]) = right[p]
        BY <1>1, <4>1, FirstsAre
      <4> QED BY <2>4, <3>2, <4>2 DEF Onward
    <3> QED BY <3>1, <3>2
  <2> DEFINE s == <<p>>
  <2>6. s \in Seq(1..Len(ns)) /\ Len(s) = 1 /\ s[1] = p /\ InSeq(s) = {p}
    BY <2>1 DEF InSeq
  <2> HIDE DEF s
  <2>7. Run(ns, s, p, ns[p].next)
    BY <2>6 DEF Run
  <2>8. InSeq(s) \subseteq {q \in L : ns[q].leaf}
    BY <2>1, <2>6
  <2>9. Stretch(ns, L, right, p, s)
    BY <2>3, <2>5, <2>7, <2>8 DEF Stretch
  <2> QED BY <2>2, <2>9 DEF s
<1>3. ASSUME NEW n \in Nat, n \in T PROVE n + 1 \in T
  <2> SUFFICES ASSUME NEW p \in L, lev[p] = n + 1 PROVE Stretch(ns, L, right, p, f[p])
    OBVIOUS
  <2>1. p \in 1..Len(ns) /\ ~ns[p].leaf
    <3>1. p \in 1..Len(ns)
      BY <1>1
    <3>2. ns[p].leaf <=> lev[p] = 0
      BY <3>1, PageIs
    <3> QED BY <3>1, <3>2
  <2>2. \A i \in 1..Len(kids[p]) : kids[p][i] \in L /\ lev[kids[p][i]] = lev[p] - 1
    BY <1>6, <2>1
  <2>3. \A i \in 1..Len(kids[p]) : Stretch(ns, L, right, kids[p][i], f[kids[p][i]])
    BY <1>3, <2>2
  <2> HIDE DEF T
  <2> QED BY <2>1, <2>3, StretchesJoined
<1>4. Nat \subseteq T
  <2> HIDE DEF T
  <2> QED BY <1>2, <1>3, Induct
<1>5. \A p \in L : lev[p] \in Nat
  BY <1>1 DEF Leveled
<1> QED BY <1>4, <1>5

\* A page of a picture other than the root is a child.
HasParentIn(ns, lev, L, q) == \E p \in L : ~ns[p].leaf /\ q \in Kids(ns[p]) /\ lev[p] = lev[q] + 1

\* It is.
LEMMA HasParent ==
  ASSUME NEW ns, NEW lev, Leveled(ns, lev), NEW root, NEW L, NEW H, Picture(ns, root, L, H),
         NEW q \in L, q # root
  PROVE  HasParentIn(ns, lev, L, q)
BY ParentIs DEF HasParentIn

\* Every leaf of the picture is below the root.
LEMMA AllLeaves ==
  ASSUME NEW ns, NEW lev, Leveled(ns, lev), NEW root, NEW L, NEW H, NEW kids, NEW right, NEW held,
         Sketch(ns, root, L, H, kids, right, held), NEW f, IsBelow(ns, f)
  PROVE  \A q \in L : ns[q].leaf => q \in InSeq(f[root])
<1> DEFINE T == {n \in Nat : n <= lev[root] => \A q \in L : ns[q].leaf =>
                                \E p \in L : lev[p] = n /\ q \in InSeq(f[p])}
<1>1. L \subseteq 1..Len(ns) /\ DOMAIN ns = 1..Len(ns) /\ Picture(ns, root, L, H) /\ root \in L
  <2>1. L \subseteq 1..Len(ns) /\ Picture(ns, root, L, H) /\ root \in L
    BY DEF Sketch, Picture
  <2> QED BY <2>1 DEF Leveled
<1>6. ASSUME NEW c \in L, c # root
      PROVE  HasParentIn(ns, lev, L, c)
  <2> HIDE DEF T
  <2>1. Leveled(ns, lev) /\ Picture(ns, root, L, H) /\ c \in L /\ c # root
    BY <1>1, <1>6
  <2> QED BY <2>1, HasParent
<1>7. ASSUME NEW p \in L, ~ns[p].leaf
      PROVE  \A i \in 1..Len(kids[p]) : InSeq(f[kids[p][i]]) \subseteq InSeq(f[p])
  <2> HIDE DEF T
  <2>1. \A x \in L : Stretch(ns, L, right, x, f[x])
    BY AllStretches
  <2>2. \A i \in 1..Len(kids[p]) : kids[p][i] \in L
    BY <1>7, SketchPage
  <2>3. \A i \in 1..Len(kids[p]) : Stretch(ns, L, right, kids[p][i], f[kids[p][i]])
    BY <2>1, <2>2
  <2> QED BY <1>7, <2>3, StretchesJoined
<1>2. 0 \in T
  <2> SUFFICES ASSUME NEW q \in L, ns[q].leaf
               PROVE  \E p \in L : lev[p] = 0 /\ q \in InSeq(f[p])
    OBVIOUS
  <2>1. f[q] = <<q>>
    BY <1>1 DEF IsBelow
  <2>2. q \in InSeq(f[q])
    BY <2>1 DEF InSeq
  <2>3. lev[q] = 0
    BY <1>1, PageIs
  <2> QED BY <2>2, <2>3
<1>3. ASSUME NEW n \in Nat, n \in T PROVE n + 1 \in T
  <2> SUFFICES ASSUME n + 1 <= lev[root], NEW q \in L, ns[q].leaf
               PROVE  \E p \in L : lev[p] = n + 1 /\ q \in InSeq(f[p])
    OBVIOUS
  <2>1. lev[root] \in Nat
    BY <1>1 DEF Leveled
  <2>2. PICK c \in L : lev[c] = n /\ q \in InSeq(f[c])
    BY <1>3, <2>1
  <2>3. c # root
    BY <2>1, <2>2
  <2>4. PICK p \in L : ~ns[p].leaf /\ c \in Kids(ns[p]) /\ lev[p] = lev[c] + 1
    BY <1>6, <2>3 DEF HasParentIn
  <2>5. \A i \in 1..Len(kids[p]) : InSeq(f[kids[p][i]]) \subseteq InSeq(f[p])
    BY <1>7, <2>4
  <2>6. \E i \in 1..Len(kids[p]) : kids[p][i] = c
    <3>1. kids[p] = ns[p].ptrs
      BY <2>4 DEF Sketch, Shows
    <3>2. Kids(ns[p]) = InSeq(ns[p].ptrs)
      BY <2>4 DEF Kids
    <3>3. PICK i \in DOMAIN kids[p] : kids[p][i] = c
      BY <2>4, <3>1, <3>2 DEF InSeq
    <3>4. DOMAIN kids[p] = 1..Len(kids[p])
      <4>1. kids[p] \in Seq(L)
        BY <2>4 DEF Sketch, Frame, Placed, Typed
      <4> QED BY <4>1
    <3> QED BY <3>3, <3>4
  <2>7. q \in InSeq(f[p])
    BY <2>2, <2>5, <2>6
  <2> QED BY <2>2, <2>4, <2>7
<1>4. Nat \subseteq T
  <2> HIDE DEF T
  <2> QED BY <1>2, <1>3, Induct
<1>5. ASSUME NEW q \in L, ns[q].leaf PROVE q \in InSeq(f[root])
  <2>1. lev[root] \in Nat /\ \A p \in L : lev[p] \in Nat
    BY <1>1 DEF Leveled
  <2>2. PICK p \in L : lev[p] = lev[root] /\ q \in InSeq(f[p])
    BY <1>4, <1>5, <2>1
  <2>3. p = root
    <3>1. p # root => lev[p] < lev[root]
      BY <1>1, TopLevel
    <3> QED BY <2>1, <2>2, <3>1
  <2> QED BY <2>2, <2>3
<1> QED BY <1>5

\* The leaves below the root are the chain from the first of them to its end.
LEMMA RootRun ==
  ASSUME NEW ns, NEW lev, Leveled(ns, lev), NEW root, NEW L, NEW H, Picture(ns, root, L, H)
  PROVE  /\ Run(ns, LeavesBelow(ns, root), First(ns, root), 0)
         /\ InSeq(LeavesBelow(ns, root)) = {q \in L : ns[q].leaf}
<1>1. PICK kids, right, held : Sketch(ns, root, L, H, kids, right, held)
  BY DEF Picture, Sketch
<1> DEFINE f == CHOOSE g : IsBelow(ns, g)
<1>2. IsBelow(ns, f)
  BY BelowExists
<1>3. LeavesBelow(ns, root) = f[root]
  BY DEF LeavesBelow
<1> HIDE DEF f
<1>4. root \in L
  BY DEF Picture
<1>5. Stretch(ns, L, right, root, f[root])
  BY <1>1, <1>2, <1>4, AllStretches
<1>6. \A q \in L : ns[q].leaf => q \in InSeq(f[root])
  BY <1>1, <1>2, AllLeaves
<1>7. right[root] = 0
  <2>1. Rows(L, kids, right) /\ kids[0] = <<root>>
    BY <1>1 DEF Sketch, Frame
  <2>2. right[0] = 0 /\ right[kids[0][1]] = Beside(kids, right, 0, 1)
    <3>1. 1 \in 1..Len(kids[0])
      BY <2>1
    <3> QED BY <2>1, <3>1 DEF Rows
  <2>3. Len(kids[0]) = 1 /\ kids[0][1] = root
    BY <2>1
  <2> QED BY <2>2, <2>3 DEF Beside
<1>8. Run(ns, f[root], First(ns, root), 0)
  BY <1>5, <1>7 DEF Stretch, Onward
<1>9. InSeq(f[root]) = {q \in L : ns[q].leaf}
  BY <1>5, <1>6 DEF Stretch
<1> QED BY <1>3, <1>8, <1>9

\* A stretch to the end of the chain visits no leaf twice, and so is no longer than the file.
LEMMA RunLength ==
  ASSUME NEW ns, Len(ns) \in Nat, NEW s, NEW a, Run(ns, s, a, 0)
  PROVE  Len(s) <= Len(ns)
<1> DEFINE P == 1..Len(ns)
<1>1. /\ s \in Seq(P) /\ Len(s) > 0 /\ Len(s) \in Nat /\ ns[s[Len(s)]].next = 0
      /\ \A i \in 1..Len(s) - 1 : ns[s[i]].next = s[i + 1]
      /\ \A i \in 1..Len(s) : s[i] \in P
      /\ DOMAIN s = 1..Len(s)
  BY DEF Run
<1>2. 0 \notin P
  OBVIOUS
<1>3. ASSUME NEW i \in 1..Len(s), NEW j \in 1..Len(s), i < j, s[i] = s[j] PROVE FALSE
  <2> DEFINE T == {k \in Nat : k <= Len(s) - j => s[i + k] = s[j + k]}
             m == Len(s) - j
  <2>1. 0 \in T
    BY <1>3
  <2>2. ASSUME NEW k \in Nat, k \in T PROVE k + 1 \in T
    <3> SUFFICES ASSUME k + 1 <= Len(s) - j PROVE s[i + (k + 1)] = s[j + (k + 1)]
      OBVIOUS
    <3>1. /\ i + k \in 1..Len(s) - 1 /\ j + k \in 1..Len(s) - 1 /\ k <= Len(s) - j
          /\ i + (k + 1) = (i + k) + 1 /\ j + (k + 1) = (j + k) + 1
      BY <1>1, <1>3
    <3>2. s[i + k] = s[j + k]
      BY <2>2, <3>1
    <3>3. ns[s[i + k]].next = s[(i + k) + 1] /\ ns[s[j + k]].next = s[(j + k) + 1]
      BY <1>1, <3>1
    <3> QED BY <3>1, <3>2, <3>3
  <2>3. Nat \subseteq T
    <3> HIDE DEF T
    <3> QED BY <2>1, <2>2, Induct
  <2>4. /\ m \in Nat /\ j + m = Len(s) /\ i + m \in 1..Len(s) - 1
        /\ (i + m) + 1 \in 1..Len(s)
    BY <1>1, <1>3
  <2>5. s[i + m] = s[j + m]
    BY <2>3, <2>4
  <2> HIDE DEF m
  <2>6. ns[s[i + m]].next = s[(i + m) + 1] /\ s[(i + m) + 1] \in P
    BY <1>1, <2>4
  <2>7. ns[s[i + m]].next = 0
    BY <1>1, <2>4, <2>5
  <2> QED BY <1>2, <2>6, <2>7
<1>4. s \in Injection(1..Len(s), P)
  <2>1. s \in [1..Len(s) -> P]
    BY <1>1
  <2>2. ASSUME NEW i \in 1..Len(s), NEW j \in 1..Len(s), s[i] = s[j] PROVE i = j
    <3>1. ~(i < j) /\ ~(j < i)
      BY <1>3, <2>2
    <3> QED BY <1>1, <3>1
  <2> HIDE DEF P
  <2> QED BY <2>1, <2>2 DEF Injection, IsInjective
<1>5. IsFiniteSet(P) /\ Cardinality(P) = Len(ns)
  BY FS_Interval, SMTT(40)
<1>6. Cardinality(1..Len(s)) = Len(s)
  BY <1>1, FS_Interval
<1>7. Cardinality(1..Len(s)) <= Cardinality(P)
  <2> HIDE DEF P
  <2> QED BY <1>4, <1>5, FS_Injection
<1> QED BY <1>5, <1>6, <1>7

\* One step along the next pointers, but from the last leaf none.
Longer(ns) ==
  [ps \in Seq(1..Len(ns)) |-> LET next == ns[Last(ps)].next
                              IN  IF next = 0 THEN ps ELSE Append(ps, next)]

\* The walk from page p.
IsChain(ns, p, f) ==
  f = [i \in 0..Len(ns) |-> IF i = 0 THEN <<p>> ELSE Longer(ns)[f[i - 1]]]

\* The chain from page p, cut off after as many steps as there are pages.
ChainOf(ns, p) == (CHOOSE f : IsChain(ns, p, f))[Len(ns)]

\* The walk along the chain is the stretch to its end.
LEMMA ChainIs ==
  ASSUME NEW ns, Len(ns) \in Nat, NEW s, NEW a, Run(ns, s, a, 0)
  PROVE  ChainOf(ns, a) = s
<1> DEFINE P == 1..Len(ns)
           N == Len(ns)
           Step(w) == LET next == ns[Last(w)].next IN IF next = 0 THEN w ELSE Append(w, next)
           IsPart(w, k) == /\ w \in Seq(P) /\ \A j \in 1..Len(w) : w[j] = s[j]
                           /\ Len(w) <= Len(s) /\ (Len(w) = k + 1 \/ (Len(w) = Len(s) /\ Len(s) <= k + 1))
           Good == [k \in 0..N |-> {w \in Seq(P) : IsPart(w, k)}]
           H == [k \in 1..N |-> [w \in Seq(P) |-> Step(w)]]
           f == CHOOSE g : IsChain(ns, a, g)
<1>1. /\ s \in Seq(P) /\ Len(s) > 0 /\ Len(s) \in Nat /\ ns[s[Len(s)]].next = 0 /\ s[1] = a
      /\ \A i \in 1..Len(s) - 1 : ns[s[i]].next = s[i + 1]
      /\ \A i \in 1..Len(s) : s[i] \in P
  BY DEF Run
<1>2. N \in Nat /\ Len(s) <= N
  BY RunLength
<1> HIDE DEF N
<1>3. IsPart(<<a>>, 0) /\ <<a>> \in Seq(P)
  <2>1. a \in P
    BY <1>1
  <2> HIDE DEF P
  <2> QED BY <1>1, <2>1
<1>4. ASSUME NEW k \in 1..N, NEW w \in Seq(P), IsPart(w, k - 1)
      PROVE  IsPart(Step(w), k) /\ Step(w) \in Seq(P)
  <2>1. Len(w) \in Nat /\ Len(w) \in 1..Len(s) /\ Last(w) = w[Len(w)]
    BY <1>1, <1>2, <1>4 DEF Last
  <2>2. w[Len(w)] = s[Len(w)]
    <3>1. Len(w) \in 1..Len(w)
      BY <2>1
    <3> QED BY <1>4, <3>1
  <2>3. CASE Len(w) = Len(s)
    <3>1. ns[Last(w)].next = 0
      BY <1>1, <2>1, <2>2, <2>3
    <3>2. Step(w) = w
      BY <3>1
    <3>3. Len(s) <= k + 1
      BY <1>1, <1>2, <1>4, <2>3
    <3> HIDE DEF Step, P
    <3> QED BY <1>4, <2>3, <3>2, <3>3
  <2>4. CASE Len(w) # Len(s)
    <3> DEFINE n == Len(w)
               x == s[n + 1]
    <3>1. n \in 1..Len(s) - 1 /\ n + 1 \in 1..Len(s) /\ n = k
      BY <1>1, <1>2, <1>4, <2>1, <2>4, SMTT(40)
    <3>2. ns[Last(w)].next = x /\ x \in P
      BY <1>1, <2>1, <2>2, <3>1
    <3>3. x # 0
      BY <3>2
    <3>4. Step(w) = Append(w, x)
      BY <3>2, <3>3
    <3> HIDE DEF Step, P, x
    <3> DEFINE z == Append(w, x)
    <3>5. z \in Seq(P) /\ Len(z) = n + 1 /\ z[n + 1] = x /\ \A j \in 1..n : z[j] = w[j]
      BY <3>2, AppendIs DEF IsAppend
    <3> HIDE DEF z, n
    <3>6. \A j \in 1..Len(z) : z[j] = s[j]
      <4> SUFFICES ASSUME NEW j \in 1..Len(z) PROVE z[j] = s[j]
        OBVIOUS
      <4>1. CASE j = n + 1
        BY <3>5, <4>1 DEF x
      <4>2. CASE j # n + 1
        <5>1. j \in 1..n
          BY <3>1, <3>5, <4>2
        <5> QED BY <1>4, <3>5, <5>1 DEF n
      <4> QED BY <4>1, <4>2
    <3>7. IsPart(z, k)
      <4>1. Len(z) <= Len(s) /\ Len(z) = k + 1
        BY <3>1, <3>5
      <4> QED BY <3>5, <3>6, <4>1
    <3> QED BY <3>4, <3>5, <3>7 DEF z
  <2> QED BY <2>3, <2>4
<1> HIDE DEF Step, IsPart, P
<1>5. PICK g : IsLadder(N, <<a>>, H, g) /\ \A k \in 0..N : g[k] \in Good[k]
  <2>1. StaysGood(N, <<a>>, H, Good)
    <3>1. <<a>> \in Good[0]
      BY <1>2, <1>3
    <3>2. ASSUME NEW k \in 1..N, NEW w \in Good[k - 1] PROVE H[k][w] \in Good[k]
      <4>1. k - 1 \in 0..N /\ k \in 0..N
        BY <1>2
      <4>2. w \in Seq(P) /\ IsPart(w, k - 1)
        BY <4>1
      <4>3. H[k][w] = Step(w)
        BY <4>2
      <4>4. IsPart(Step(w), k) /\ Step(w) \in Seq(P)
        BY <1>4, <4>2
      <4> QED BY <4>1, <4>3, <4>4
    <3> HIDE DEF Good, H
    <3> QED BY <3>1, <3>2 DEF StaysGood
  <2> HIDE DEF Good, H
  <2> QED BY <1>2, <2>1, Ladder, Zenon
<1>6. IsChain(ns, a, g)
  <2>1. /\ g = [k \in 0..N |-> IF k = 0 THEN <<a>> ELSE H[k][g[k - 1]]]
    <3> HIDE DEF H
    <3> QED BY <1>5 DEF IsLadder
  <2>3. \A k \in 1..N : H[k] = Longer(ns)
    BY DEF H, Longer, Step, P, N
  <2>4. ASSUME NEW k \in 0..N, k # 0 PROVE k \in 1..N
    BY <1>2, <2>4
  <2>5. g = [k \in 0..N |-> IF k = 0 THEN <<a>> ELSE Longer(ns)[g[k - 1]]]
    <3> HIDE DEF H
    <3> QED BY <2>1, <2>3, <2>4
  <2> QED BY <2>5 DEF IsChain, N
<1>7. IsChain(ns, a, f)
  BY <1>6
<1> HIDE DEF f
<1>8. \A k \in 0..N : f[k] = IF k = 0 THEN <<a>> ELSE Longer(ns)[f[k - 1]]
  BY <1>7 DEF IsChain, N
<1>14. \A w \in Seq(P) : Longer(ns)[w] = Step(w)
  BY DEF Longer, Step, P
<1> DEFINE T == {k \in Nat : k <= N => f[k] \in Good[k]}
<1>9. 0 \in T
  <2>1. 0 \in 0..N
    BY <1>2
  <2>2. f[0] = <<a>>
    BY <1>8, <2>1
  <2>3. f[0] \in Good[0]
    BY <1>3, <2>1, <2>2
  <2> HIDE DEF Good
  <2> QED BY <2>3
<1>10. ASSUME NEW k \in Nat, k \in T PROVE k + 1 \in T
  <2> SUFFICES ASSUME k + 1 <= N PROVE f[k + 1] \in Good[k + 1]
    OBVIOUS
  <2> DEFINE i == k + 1
  <2>1. i \in 1..N /\ i \in 0..N /\ i # 0 /\ i - 1 = k /\ k \in 0..N /\ k <= N
    BY <1>2
  <2> HIDE DEF i
  <2>2. f[i - 1] \in Good[i - 1]
    BY <1>10, <2>1
  <2>3. f[i - 1] \in Seq(P) /\ IsPart(f[i - 1], i - 1)
    BY <2>1, <2>2
  <2>4. f[i] = Step(f[i - 1])
    BY <1>8, <1>14, <2>1, <2>3
  <2>5. IsPart(Step(f[i - 1]), i) /\ Step(f[i - 1]) \in Seq(P)
    BY <1>4, <2>1, <2>3
  <2>6. f[i] \in Good[i]
    BY <2>1, <2>4, <2>5
  <2> QED BY <2>6 DEF i
<1>11. Nat \subseteq T
  <2> HIDE DEF T
  <2> QED BY <1>9, <1>10, Induct
<1>12. IsPart(f[N], N) /\ f[N] \in Seq(P)
  <2>1. N \in 0..N /\ N <= N /\ N \in Nat
    BY <1>2
  <2>2. f[N] \in Good[N]
    <3> HIDE DEF Good
    <3> QED BY <1>11, <2>1
  <2> QED BY <2>1, <2>2
<1>13. f[N] = s
  <2> DEFINE w == f[N]
  <2> HIDE DEF w
  <2>1. /\ w \in Seq(P) /\ Len(w) \in Nat /\ \A j \in 1..Len(w) : w[j] = s[j]
        /\ Len(w) = Len(s)
    BY <1>1, <1>2, <1>12 DEF w, IsPart
  <2> QED BY <1>1, <2>1 DEF w
<1> QED BY <1>13 DEF f, N, ChainOf

-----------------------------------------------------------------------------
(* What the index holds. *)

\* The entries on the chain of the tree at r.
HeldFrom(ns, r) ==
  IF r = 0 THEN {} ELSE UNION {ToSet(ns[p].entries) : p \in ToSet(ChainOf(ns, First(ns, r)))}

\* The chain of a tree that is pictured is its leaves, and they hold its entries.
LEMMA PictureRead ==
  ASSUME NEW ns, NEW lev, Leveled(ns, lev), NEW root, root # 0, NEW L, NEW H,
         Picture(ns, root, L, H)
  PROVE  ChainOf(ns, First(ns, root)) = LeavesBelow(ns, root) /\ HeldFrom(ns, root) = H
<1>1. /\ ns \in Seq(Node) /\ Len(ns) \in Nat
  BY DEF Leveled
<1> DEFINE s == LeavesBelow(ns, root)
           a == First(ns, root)
<1>2. Run(ns, s, a, 0) /\ InSeq(s) = {q \in L : ns[q].leaf}
  BY RootRun
<1> HIDE DEF s, a
<1>3. ChainOf(ns, a) = s
  BY <1>1, <1>2, ChainIs
<1>4. PICK kids, right, held : /\ Frame(L, kids, right, held, H)
                               /\ \A p \in L : Shows(ns, kids, right, held, p)
  BY DEF Picture
<1>5. Shared(L, held, H)
  BY <1>4 DEF Frame
<1>6. ToSet(s) = {q \in L : ns[q].leaf}
  BY <1>2 DEF ToSet, InSeq
<1>7. \A p \in L : ns[p].leaf => held[p] = ToSet(ns[p].entries)
  BY <1>4 DEF Shows, ToSet, InSeq
<1>8. \A p \in L : ~ns[p].leaf => held[p] = {}
  BY <1>4 DEF Shows
<1>9. HeldFrom(ns, root) = UNION {ToSet(ns[p].entries) : p \in {q \in L : ns[q].leaf}}
  BY <1>3, <1>6 DEF HeldFrom, a
<1>10. UNION {ToSet(ns[p].entries) : p \in {q \in L : ns[q].leaf}} = H
  <2>1. ASSUME NEW p \in L, ns[p].leaf PROVE ToSet(ns[p].entries) \subseteq H
    BY <1>5, <1>7, <2>1 DEF Shared
  <2>2. ASSUME NEW x \in H PROVE \E p \in L : ns[p].leaf /\ x \in ToSet(ns[p].entries)
    <3>1. PICK p \in L : x \in held[p]
      BY <1>5 DEF Shared
    <3>2. ns[p].leaf
      BY <1>8, <3>1
    <3> QED BY <1>7, <3>1, <3>2
  <2> QED BY <2>1, <2>2
<1> QED BY <1>3, <1>9, <1>10 DEF s, a

-----------------------------------------------------------------------------
(* Orderly clients. *)

\* The pages and the root.
NowView == [nodes |-> nodes, root |-> Root]

\* The inductive invariant of orderly clients: the tree and its chain share the entries.
OrderInvariant == IndexInvariant /\ \E H : Pictured(NowView, H)

\* What the chain and the tree are now.
LEMMA ReadNow ==
  /\ \A p : FirstLeaf(p) = First(nodes, p)
  /\ \A p : Chain(p) = ChainOf(nodes, p)
  /\ \A p : TreeLeaves(p) = LeavesBelow(nodes, p)
  /\ Contents(Root) = HeldFrom(nodes, Root)
<1>1. \A p : FirstLeaf(p) = First(nodes, p)
  BY DEF FirstLeaf, First, Path
<1>2. \A p : Chain(p) = ChainOf(nodes, p)
  BY DEF Chain, ChainOf, IsChain, Longer
<1>3. \A p : TreeLeaves(p) = LeavesBelow(nodes, p)
  BY DEF TreeLeaves, LeavesBelow, IsBelow
<1>4. Contents(Root) = HeldFrom(nodes, Root)
  <2>1. Contents(Root) = IF Root = 0 THEN {}
                         ELSE UNION {ToSet(nodes[p].entries) : p \in ToSet(Chain(FirstLeaf(Root)))}
    BY DEF Contents
  <2>2. Chain(FirstLeaf(Root)) = ChainOf(nodes, First(nodes, Root))
    BY <1>1, <1>2
  <2> QED BY <2>1, <2>2 DEF HeldFrom
<1> QED BY <1>1, <1>2, <1>3, <1>4

\* The entries of the index are those of its picture.
LEMMA HoldsNow ==
  ASSUME IndexInvariant, NEW H, Pictured(NowView, H)
  PROVE  HeldFrom(nodes, Root) = H /\ ChainInOrder
<1>1. PICK lev : FileNow(lev) /\ Leveled(nodes, lev)
  BY LevelsNow
<1>2. CASE Root = 0
  BY <1>2 DEF HeldFrom, ChainInOrder, Pictured, NowView
<1>3. CASE Root # 0
  <2>1. PICK L : Picture(nodes, Root, L, H)
    BY <1>3 DEF Pictured, NowView
  <2>2. ChainOf(nodes, First(nodes, Root)) = LeavesBelow(nodes, Root) /\ HeldFrom(nodes, Root) = H
    BY <1>1, <1>3, <2>1, PictureRead
  <2>3. Chain(FirstLeaf(Root)) = TreeLeaves(Root)
    BY <2>2, ReadNow
  <2> QED BY <2>2, <2>3 DEF ChainInOrder
<1> QED BY <1>2, <1>3

\* The entries of the index are those of any picture of it.
ContentsDrawn == \A H : Pictured(NowView, H) => Contents(Root) = H

\* They are.
LEMMA ContentsAre ==
  IndexInvariant => ContentsDrawn
BY HoldsNow, ReadNow DEF ContentsDrawn

\* A step leaves the pages of an entry more, an entry less, or the same.
Moved(H, K) == \/ K = H
               \/ \E e \in Entry \ H : K = H \cup {e}
               \/ \E e \in H : K = H \ {e}

\* What a step of an orderly client does to the picture.
LEMMA OrderlyStep ==
  ASSUME NumericKeys, IndexInvariant, [OrderlyNext]_vars, NEW H, Pictured(NowView, H)
  PROVE  \E K : Pictured(NowView', K) /\ Moved(H, K)
<1>0. HeldFrom(nodes, Root) = H /\ Contents(Root) = H
  BY HoldsNow, ReadNow
<1>1. ASSUME nodes' = nodes, Root' = Root PROVE Pictured(NowView', H) /\ Moved(H, H)
  BY <1>1 DEF Moved, NowView
<1>6. ASSUME NEW t, nodes' = t.nodes, Root' = t.root, NEW K, Pictured(t, K)
      PROVE  Pictured(NowView', K)
  <2>1. NowView'.nodes = t.nodes /\ NowView'.root = t.root
    BY <1>6 DEF NowView
  <2> QED BY <1>6, <2>1 DEF Pictured
<1>7. ASSUME NEW h \in Handles, ViewOf(h).nodes = nodes, ViewOf(h).root = Root
      PROVE  Pictured(ViewOf(h), H)
  <2>1. NowView.nodes = nodes /\ NowView.root = Root
    BY DEF NowView
  <2> QED BY <1>7, <2>1 DEF Pictured
<1>2. ASSUME NEW h \in Handles, NEW e \in Entry, New(h, e), ~Misplaces(ViewOf(h), e),
             insertEntry(h, e)
      PROVE  \E K : Pictured(NowView', K) /\ Moved(H, K)
  <2> DEFINE v == ViewOf(h)
             t == InsertEntry(v, e)
  <2>1. Current(h) /\ Becomes(h, t)
    BY <1>2 DEF insertEntry
  <2>2. PICK lev : FileView(v, lev) /\ v.nodes = nodes
    BY <2>1, NowIs
  <2>3. v.root = Root /\ handles[h].root = Root
    BY <2>1, RootIs DEF IndexInvariant, Current, ViewOf
  <2>4. e \notin H
    BY <1>0, <1>2, <2>3 DEF New
  <2>5. Pictured(v, H)
    BY <1>7, <2>2, <2>3
  <2>6. nodes' = t.nodes /\ Root' = t.root
    BY <2>1, NowBecomes
  <2>7. ~Misplaces(v, e)
    BY <1>2
  <2> HIDE DEF v
  <2>8. Pictured(t, H \cup {e})
    BY <2>2, <2>4, <2>5, <2>7, InsertDrawn
  <2> HIDE DEF t
  <2>9. Pictured(NowView', H \cup {e})
    BY <1>6, <2>6, <2>8
  <2> QED BY <2>4, <2>9 DEF Moved
<1>3. ASSUME NEW h \in Handles, NEW e \in Entry, deleteEntry(h, e)
      PROVE  \E K : Pictured(NowView', K) /\ Moved(H, K)
  <2> DEFINE v == ViewOf(h)
             t == shrinkRoot(del(v, e, LeafOf(v, e)))
  <2>1. Current(h) /\ Becomes(h, t) /\ LeafOf(v, e) # 0
    BY <1>3 DEF deleteEntry
  <2>2. PICK lev : FileView(v, lev) /\ v.nodes = nodes
    BY <2>1, NowIs
  <2>3. v.root = Root
    BY <2>1, RootIs DEF IndexInvariant, Current, ViewOf
  <2>4. Pictured(v, H)
    BY <1>7, <2>2, <2>3
  <2>5. nodes' = t.nodes /\ Root' = t.root
    BY <2>1, NowBecomes
  <2> HIDE DEF v
  <2>6. e \in H /\ Pictured(t, H \ {e})
    BY <2>1, <2>2, <2>4, DeleteDrawn
  <2> HIDE DEF t
  <2>7. Pictured(NowView', H \ {e})
    BY <1>6, <2>5, <2>6
  <2> QED BY <2>6, <2>7 DEF Moved
<1>4. CASE UNCHANGED vars
  <2>1. nodes' = nodes /\ hidden' = hidden /\ handles' = handles
    BY <1>4 DEF vars
  <2>2. Root' = Root
    BY <2>1 DEF Root
  <2> QED BY <1>1, <2>1, <2>2
<1>5. ASSUME NEW h \in Handles,
             ((\A g \in Handles : ~handles[g].open) /\ openFile(h)) \/ closeFile(h)
      PROVE  \E K : Pictured(NowView', K) /\ Moved(H, K)
  <2>1. nodes' = nodes /\ Root' = Root
    BY <1>5, SameRoot
  <2> QED BY <1>1, <2>1
<1> QED BY <1>2, <1>3, <1>4, <1>5 DEF OrderlyNext

\* Orderly clients are clients.
LEMMA OrderlyIsClient ==
  [OrderlyNext]_vars => [Next]_vars
BY DEF OrderlyNext, Next

\* The invariant holds of every orderly client: its insertions, splits and new roots, and
\* all deletions, rotations and merges change the picture in one place and keep it whole.
THEOREM OrderlyInvariant ==
  ASSUME NumericKeys
  PROVE  OrderlySpec => []OrderInvariant
<1>1. Init => OrderInvariant
  <2> SUFFICES ASSUME Init PROVE OrderInvariant
    OBVIOUS
  <2>1. IndexInvariant
    BY IndexInit
  <2>2. Root = 0
    BY DEF Init, Root, Closed
  <2>3. Pictured(NowView, {})
    BY <2>2 DEF Pictured, NowView
  <2> QED BY <2>1, <2>3 DEF OrderInvariant
<1>2. OrderInvariant /\ [OrderlyNext]_vars => OrderInvariant'
  <2> SUFFICES ASSUME OrderInvariant, [OrderlyNext]_vars PROVE OrderInvariant'
    OBVIOUS
  <2>1. IndexInvariant'
    BY IndexStep, OrderlyIsClient DEF OrderInvariant
  <2>2. PICK H : Pictured(NowView, H)
    BY DEF OrderInvariant
  <2>3. PICK K : Pictured(NowView', K)
    BY <2>2, OrderlyStep DEF OrderInvariant
  <2> QED BY <2>1, <2>3 DEF OrderInvariant, Pictured, Picture
<1> QED BY <1>1, <1>2, PTL DEF OrderlySpec

\* Splits, rotations and merges keep the chain of next pointers in step with the tree: it
\* visits exactly the tree's leaves, from left to right, so that a scan misses no leaf and
\* meets none that has left the tree.
THEOREM ChainStaysInOrder ==
  ASSUME NumericKeys
  PROVE  OrderlySpec => []ChainInOrder
<1>1. OrderInvariant => ChainInOrder
  BY HoldsNow DEF OrderInvariant
<1> QED BY <1>1, OrderlyInvariant, PTL

\* insertEntry and deleteEntry implement the index as a set of entries: whatever pages they
\* split, fill up from a sibling, merge or free, exactly the entry they were given is added
\* or removed, and openFile and closeFile change nothing.
THEOREM IndexRefines ==
  ASSUME NumericKeys
  PROVE  OrderlySpec => ImplementsIndex
<1>1. Init => Store!Init
  <2> SUFFICES ASSUME Init PROVE Contents(Root) \subseteq Entry
    BY DEF Store!Init
  <2>1. Root = 0
    BY DEF Init, Root, Closed
  <2> QED BY <2>1 DEF Contents
<1>3. OrderInvariant /\ OrderInvariant' => ContentsDrawn /\ ContentsDrawn'
  BY ContentsAre, PTL DEF OrderInvariant
<1>2. OrderInvariant /\ OrderInvariant' /\ [OrderlyNext]_vars => [Store!Next]_(Contents(Root))
  <2> SUFFICES ASSUME OrderInvariant, OrderInvariant', [OrderlyNext]_vars
               PROVE  [Store!Next]_(Contents(Root))
    OBVIOUS
  <2>1. PICK H : Pictured(NowView, H)
    BY DEF OrderInvariant
  <2>2. PICK K : Pictured(NowView', K) /\ Moved(H, K)
    BY <2>1, OrderlyStep DEF OrderInvariant
  <2>3. ContentsDrawn /\ ContentsDrawn'
    BY <1>3
  <2>4. Contents(Root) = H
    BY <2>1, <2>3 DEF ContentsDrawn
  <2>5. Contents(Root)' = K
    BY <2>2, <2>3 DEF ContentsDrawn
  <2> QED BY <2>2, <2>4, <2>5 DEF Moved, Store!Next, Store!Insert, Store!Delete
<1> QED BY <1>1, <1>2, OrderlyInvariant, PTL DEF OrderlySpec, ImplementsIndex, Store!Spec
=============================================================================
