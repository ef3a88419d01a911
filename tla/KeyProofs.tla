----------------------------- MODULE KeyProofs ------------------------------
(***************************************************************************)
(* The keys of a B+ tree are in order: on every page, and between a page   *)
(* and those below it.  So the separators bound the keys below the         *)
(* pointers next to them, a descent leads to every entry, and a scan meets *)
(* the entries in order, for orderly clients, all keys of four bytes and   *)
(* every page size.                                                        *)
(***************************************************************************)
EXTENDS IndexProofs, MCBTree

-----------------------------------------------------------------------------
(* The order of the keys. *)

\* The keys ks are from the set S and in order.
Rising(ks, S) == /\ Len(ks) \in Nat
                 /\ \A i \in 1..Len(ks) : ks[i] \in S
                 /\ \A i, j \in 1..Len(ks) : i <= j => ks[i] <= ks[j]

\* Key k has a place below child i of a page with the separators ks.
Amid(ks, i, k) == (i > 1 => ks[i - 1] <= k) /\ (i <= Len(ks) => k <= ks[i])

\* A page with the separators ks and the children ps, whose keys B tells, has keys from S.
RowKeyed(ks, ps, B, S) ==
  /\ Rising(ks, S) /\ Len(ps) = Len(ks) + 1
  /\ \A i \in 1..Len(ps) : /\ ps[i] \in DOMAIN B
                           /\ \A k \in B[ps[i]] : k \in S /\ Amid(ks, i, k)

\* The separators ks with the children ps are ka and pa, then s, then kb and pb.
Divided(ks, ps, s, ka, pa, kb, pb) ==
  /\ Len(ks) = Len(ka) + Len(kb) + 1 /\ ks[Len(ka) + 1] = s
  /\ \A i \in 1..Len(ka) : ks[i] = ka[i]
  /\ \A i \in 1..Len(kb) : ks[Len(ka) + 1 + i] = kb[i]
  /\ Parts(ps, pa, pb) /\ Len(pa) = Len(ka) + 1 /\ Len(pb) = Len(kb) + 1

\* The keys of S up to s, and from s on.
UpTo(S, s) == {k \in S : k <= s}
From(S, s) == {k \in S : s <= k}

\* A page whose children have fewer keys, in a larger set.
LEMMA RowEased ==
  ASSUME NEW ks, NEW ps, NEW B, NEW S, RowKeyed(ks, ps, B, S), NEW C, NEW T, S \subseteq T,
         \A i \in 1..Len(ps) : ps[i] \in DOMAIN C /\ C[ps[i]] \subseteq B[ps[i]]
  PROVE  RowKeyed(ks, ps, C, T)
BY DEF RowKeyed, Rising

\* A page divided.
LEMMA RowDivided ==
  ASSUME NEW S, S \subseteq Int, NEW ks, NEW ps, NEW B, RowKeyed(ks, ps, B, S),
         NEW s, NEW ka, NEW pa, NEW kb, NEW pb, Divided(ks, ps, s, ka, pa, kb, pb),
         Len(ka) \in Nat, Len(kb) \in Nat
  PROVE  s \in S /\ RowKeyed(ka, pa, B, UpTo(S, s)) /\ RowKeyed(kb, pb, B, From(S, s))
<1> DEFINE a == Len(ka)
           b == Len(kb)
<1>1. /\ Len(ks) = a + b + 1 /\ a + 1 \in 1..Len(ks)
      /\ \A i \in 1..a : i \in 1..Len(ks) /\ i <= a + 1
      /\ \A i \in 1..b : a + 1 + i \in 1..Len(ks) /\ a + 1 <= a + 1 + i
  BY DEF Divided
<1>2. /\ \A i \in 1..Len(ks) : ks[i] \in S
      /\ \A i, j \in 1..Len(ks) : i <= j => ks[i] <= ks[j]
  BY DEF RowKeyed, Rising
<1>3. /\ ks[a + 1] = s /\ \A i \in 1..a : ks[i] = ka[i]
      /\ \A i \in 1..b : ks[a + 1 + i] = kb[i]
      /\ Len(pa) = a + 1 /\ Len(pb) = b + 1 /\ Len(ps) = a + b + 2
      /\ \A i \in 1..a + 1 : ps[i] = pa[i]
      /\ \A i \in 1..b + 1 : ps[a + 1 + i] = pb[i]
  BY DEF Divided, Parts
<1> HIDE DEF a, b
<1>0. a \in Nat /\ b \in Nat /\ a = Len(ka) /\ b = Len(kb)
  BY DEF a, b
<1>4. s \in S /\ s \in Int
  BY <1>1, <1>2, <1>3
<1>5. Rising(ka, UpTo(S, s))
  <2>1. \A i \in 1..a : ka[i] \in S /\ ka[i] <= s
    BY <1>1, <1>2, <1>3
  <2>2. \A i, j \in 1..a : i <= j => ka[i] <= ka[j]
    BY <1>1, <1>2, <1>3
  <2> QED BY <1>0, <2>1, <2>2 DEF Rising, UpTo
<1>6. Rising(kb, From(S, s))
  <2>1. \A i \in 1..b : kb[i] \in S /\ s <= kb[i]
    BY <1>1, <1>2, <1>3
  <2>2. ASSUME NEW i \in 1..b, NEW j \in 1..b, i <= j PROVE kb[i] <= kb[j]
    <3>1. a + 1 + i <= a + 1 + j
      BY <1>0, <2>2
    <3> QED BY <1>1, <1>2, <1>3, <3>1
  <2> QED BY <1>0, <2>1, <2>2 DEF Rising, From
<1>7. ASSUME NEW i \in 1..Len(pa)
      PROVE  pa[i] \in DOMAIN B /\ \A k \in B[pa[i]] : k \in UpTo(S, s) /\ Amid(ka, i, k)
  <2>1. i \in 1..a + 1 /\ i \in 1..Len(ps) /\ i \in 1..Len(ks) /\ i <= a + 1
    BY <1>0, <1>1, <1>3
  <2>2. pa[i] \in DOMAIN B /\ \A k \in B[pa[i]] : k \in S /\ Amid(ks, i, k)
    BY <1>3, <2>1 DEF RowKeyed
  <2>3. ks[i] <= s /\ ks[i] \in Int
    BY <1>1, <1>2, <1>3, <2>1
  <2>4. i > 1 => i - 1 \in 1..a /\ ks[i - 1] = ka[i - 1]
    BY <1>0, <1>3, <2>1
  <2>5. i <= Len(ka) => ks[i] = ka[i]
    BY <1>0, <1>3, <2>1
  <2>6. ASSUME NEW k \in B[pa[i]] PROVE k \in UpTo(S, s) /\ Amid(ka, i, k)
    <3>1. k \in S /\ k \in Int /\ Amid(ks, i, k)
      BY <2>2
    <3>2. k <= ks[i]
      BY <2>1, <3>1 DEF Amid
    <3>3. k <= s
      BY <1>4, <2>3, <3>1, <3>2
    <3> QED BY <2>4, <2>5, <3>1, <3>2, <3>3 DEF Amid, UpTo
  <2> QED BY <2>2, <2>6
<1>8. ASSUME NEW i \in 1..Len(pb)
      PROVE  pb[i] \in DOMAIN B /\ \A k \in B[pb[i]] : k \in From(S, s) /\ Amid(kb, i, k)
  <2> DEFINE m == a + 1 + i
  <2>1. /\ i \in 1..b + 1 /\ m \in 1..Len(ps) /\ m > 1 /\ m - 1 = a + i /\ m - 1 \in 1..Len(ks)
        /\ a + 1 <= m - 1
    BY <1>0, <1>1, <1>3
  <2>2. pb[i] \in DOMAIN B /\ \A k \in B[pb[i]] : k \in S /\ Amid(ks, m, k)
    BY <1>3, <2>1 DEF RowKeyed
  <2>3. s <= ks[m - 1] /\ ks[m - 1] \in Int
    BY <1>1, <1>2, <1>3, <2>1
  <2>4. i > 1 => ks[m - 1] = kb[i - 1]
    <3>1. i > 1 => i - 1 \in 1..b /\ m - 1 = a + 1 + (i - 1)
      BY <1>0, <2>1
    <3> QED BY <1>3, <3>1
  <2>5. i <= Len(kb) => ks[m] = kb[i] /\ m <= Len(ks)
    BY <1>0, <1>1, <1>3, <2>1
  <2> HIDE DEF m
  <2>6. ASSUME NEW k \in B[pb[i]] PROVE k \in From(S, s) /\ Amid(kb, i, k)
    <3>1. k \in S /\ k \in Int /\ Amid(ks, m, k)
      BY <2>2
    <3>2. ks[m - 1] <= k
      BY <2>1, <3>1 DEF Amid
    <3>3. s <= k
      BY <1>4, <2>3, <3>1, <3>2
    <3> QED BY <2>4, <2>5, <3>1, <3>2, <3>3 DEF Amid, From
  <2> QED BY <2>2, <2>6
<1> QED BY <1>0, <1>3, <1>4, <1>5, <1>6, <1>7, <1>8 DEF RowKeyed

\* Two pages joined, with the separator between them.
LEMMA RowJoined ==
  ASSUME NEW S, NEW T, S \subseteq Int, T \subseteq Int, NEW s \in Int,
         \A k \in S : k <= s, \A k \in T : s <= k,
         NEW B, NEW ka, NEW pa, NEW kb, NEW pb, RowKeyed(ka, pa, B, S), RowKeyed(kb, pb, B, T),
         NEW ks, NEW ps, Divided(ks, ps, s, ka, pa, kb, pb)
  PROVE  RowKeyed(ks, ps, B, S \cup {s} \cup T)
<1> DEFINE a == Len(ka)
           b == Len(kb)
           U == S \cup {s} \cup T
<1>1. /\ Len(ks) = a + b + 1 /\ ks[a + 1] = s /\ \A i \in 1..a : ks[i] = ka[i]
      /\ \A i \in 1..b : ks[a + 1 + i] = kb[i]
      /\ Len(pa) = a + 1 /\ Len(pb) = b + 1 /\ Len(ps) = Len(pa) + Len(pb)
      /\ \A i \in 1..Len(pa) : ps[i] = pa[i]
      /\ \A i \in 1..Len(pb) : ps[Len(pa) + i] = pb[i]
  BY DEF Divided, Parts
<1>2. /\ a \in Nat /\ \A i \in 1..a : ka[i] \in S
      /\ \A i, j \in 1..a : i <= j => ka[i] <= ka[j]
      /\ b \in Nat /\ \A i \in 1..b : kb[i] \in T
      /\ \A i, j \in 1..b : i <= j => kb[i] <= kb[j]
  BY DEF RowKeyed, Rising
<1> HIDE DEF a, b
<1>0. a = Len(ka) /\ b = Len(kb)
  BY DEF a, b
<1>3. \A i \in 1..Len(ks) : i \in 1..a \/ i = a + 1 \/ (i - (a + 1) \in 1..b /\ i = a + 1 + (i - (a + 1)))
  BY <1>1, <1>2
<1>4. ASSUME NEW i \in 1..Len(ks)
      PROVE  /\ i \in 1..a => ks[i] \in S
             /\ i = a + 1 => ks[i] = s
             /\ i - (a + 1) \in 1..b => ks[i] \in T /\ ks[i] = kb[i - (a + 1)]
  <2>1. i - (a + 1) \in 1..b => i = a + 1 + (i - (a + 1))
    BY <1>2
  <2> QED BY <1>1, <1>2, <2>1
<1>5. \A i \in 1..Len(ks) : ks[i] \in U
  BY <1>3, <1>4
<1>6. ASSUME NEW i \in 1..Len(ks), NEW j \in 1..Len(ks), i <= j PROVE ks[i] <= ks[j]
  <2>1. CASE i \in 1..a /\ j \in 1..a
    BY <1>1, <1>2, <1>6, <2>1
  <2>2. CASE i \in 1..a /\ j - (a + 1) \in 1..b
    <3>1. ks[i] <= s /\ s <= ks[j] /\ ks[i] \in Int /\ ks[j] \in Int
      BY <1>4, <2>2
    <3> QED BY <3>1
  <2>3. CASE i \in 1..a /\ j = a + 1
    BY <1>4, <2>3
  <2>4. CASE i = a + 1 /\ j = a + 1
    BY <1>4, <2>4
  <2>5. CASE i = a + 1 /\ j - (a + 1) \in 1..b
    BY <1>4, <2>5
  <2>6. CASE i - (a + 1) \in 1..b /\ j - (a + 1) \in 1..b
    <3>1. i - (a + 1) <= j - (a + 1)
      BY <1>2, <1>6
    <3> QED BY <1>2, <1>4, <2>6, <3>1
  <2>7. ~(i > a /\ j <= a) /\ ~(i > a + 1 /\ j = a + 1)
    BY <1>2, <1>6
  <2>8. CASE i = a + 1 /\ j \in 1..a
    BY <1>2, <2>7, <2>8
  <2>9. CASE i - (a + 1) \in 1..b /\ (j \in 1..a \/ j = a + 1)
    <3>1. i > a /\ i > a + 1 /\ (j \in 1..a => j <= a)
      BY <1>2, <2>9
    <3> QED BY <2>7, <2>9, <3>1
  <2> QED BY <1>3, <2>1, <2>2, <2>3, <2>4, <2>5, <2>6, <2>8, <2>9
<1>7. Rising(ks, U)
  <2>1. Len(ks) \in Nat
    BY <1>1, <1>2
  <2> HIDE DEF U
  <2> QED BY <1>5, <1>6, <2>1 DEF Rising
<1>8. ASSUME NEW i \in 1..Len(ps)
      PROVE  ps[i] \in DOMAIN B /\ \A k \in B[ps[i]] : k \in U /\ Amid(ks, i, k)
  <2>1. CASE i \in 1..a + 1
    <3>1. ps[i] = pa[i] /\ i \in 1..Len(pa)
      BY <1>1, <2>1
    <3>2. pa[i] \in DOMAIN B /\ \A k \in B[pa[i]] : k \in S /\ Amid(ka, i, k)
      BY <3>1 DEF RowKeyed
    <3>3. i > 1 => i - 1 \in 1..a
      BY <1>2, <2>1
    <3>4. i <= Len(ks) /\ (i \in 1..a \/ i = a + 1)
      BY <1>1, <1>2, <2>1
    <3>5. ASSUME NEW k \in B[pa[i]] PROVE k \in U /\ Amid(ks, i, k)
      <4>1. k \in S /\ Amid(ka, i, k)
        BY <3>2
      <4>2. i > 1 => ks[i - 1] <= k
        BY <1>1, <3>3, <4>1 DEF Amid
      <4>3. k <= ks[i]
        BY <1>0, <1>1, <3>4, <4>1 DEF Amid
      <4> QED BY <4>1, <4>2, <4>3 DEF Amid
    <3> QED BY <3>1, <3>2, <3>5
  <2>2. CASE i \notin 1..a + 1
    <3> DEFINE m == i - (a + 1)
    <3>1. m \in 1..b + 1 /\ i = a + 1 + m
      BY <1>1, <1>2, <2>2
    <3>2. ps[i] = pb[m] /\ m \in 1..Len(pb)
      BY <1>1, <3>1
    <3>3. pb[m] \in DOMAIN B /\ \A k \in B[pb[m]] : k \in T /\ Amid(kb, m, k)
      BY <3>2 DEF RowKeyed
    <3>4. /\ i > 1 /\ i - 1 = a + m
          /\ m = 1 => i - 1 = a + 1
          /\ m > 1 => m - 1 \in 1..b /\ i - 1 = a + 1 + (m - 1)
          /\ i <= Len(ks) => m \in 1..b
      BY <1>1, <1>2, <3>1
    <3> HIDE DEF m
    <3>5. ASSUME NEW k \in B[pb[m]] PROVE k \in U /\ Amid(ks, i, k)
      <4>1. k \in T /\ Amid(kb, m, k)
        BY <3>3
      <4>2. ks[i - 1] <= k
        <5>1. CASE m = 1
          BY <1>1, <3>4, <4>1, <5>1
        <5>2. CASE m > 1
          BY <1>1, <3>4, <4>1, <5>2 DEF Amid
        <5> QED BY <3>1, <5>1, <5>2
      <4>3. i <= Len(ks) => k <= ks[i]
        <5>1. i <= Len(ks) => ks[i] = kb[m] /\ m <= Len(kb)
          BY <1>0, <1>1, <3>1, <3>4
        <5> QED BY <4>1, <5>1 DEF Amid
      <4> QED BY <4>1, <4>2, <4>3 DEF Amid
    <3> QED BY <3>2, <3>3, <3>5
  <2> QED BY <2>1, <2>2
<1>9. Len(ps) = Len(ks) + 1
  BY <1>1, <1>2
<1> HIDE DEF U
<1>10. RowKeyed(ks, ps, B, U)
  BY <1>7, <1>8, <1>9 DEF RowKeyed
<1> QED BY <1>10 DEF U

\* A separator and a page more, where child j has been divided.
LEMMA RowTold ==
  ASSUME NEW S, S \subseteq Int, NEW ks, NEW ps, NEW B, RowKeyed(ks, ps, B, S),
         NEW j \in 1..Len(ps), NEW s \in B[ps[j]], NEW x,
         NEW keys, IsInsertion(keys, ks, j, s), NEW ptrs, IsInsertion(ptrs, ps, j + 1, x),
         NEW C, x \in DOMAIN C, \A i \in 1..Len(ps) : ps[i] \in DOMAIN C /\ C[ps[i]] \subseteq B[ps[i]],
         C[ps[j]] \subseteq UpTo(B[ps[j]], s), C[x] \subseteq From(B[ps[j]], s)
  PROVE  RowKeyed(keys, ptrs, C, S)
<1> DEFINE n == Len(ks)
<1>1. /\ n \in Nat /\ Len(ps) = n + 1 /\ j \in 1..n + 1
      /\ \A i \in 1..n : ks[i] \in S
      /\ \A i, k \in 1..n : i <= k => ks[i] <= ks[k]
      /\ \A i \in 1..n + 1 : ps[i] \in DOMAIN B /\ \A k \in B[ps[i]] : k \in S /\ Amid(ks, i, k)
  BY DEF RowKeyed, Rising
<1>2. /\ Len(keys) = n + 1 /\ keys[j] = s
      /\ \A i \in 1..n + 1 : (i < j => keys[i] = ks[i]) /\ (i > j => keys[i] = ks[i - 1])
      /\ Len(ptrs) = n + 2 /\ ptrs[j + 1] = x
      /\ \A i \in 1..n + 2 : (i < j + 1 => ptrs[i] = ps[i]) /\ (i > j + 1 => ptrs[i] = ps[i - 1])
  <2>1. Len(ps) + 1 = n + 2
    BY <1>1
  <2> QED BY <1>1, <2>1 DEF IsInsertion
<1> HIDE DEF n
<1>0. n = Len(ks)
  BY DEF n
<1>3. s \in S /\ s \in Int /\ (j > 1 => ks[j - 1] <= s) /\ (j <= n => s <= ks[j])
  BY <1>0, <1>1 DEF Amid
<1>4. \A i \in 1..n + 1 : keys[i] \in S
  <2> SUFFICES ASSUME NEW i \in 1..n + 1 PROVE keys[i] \in S
    OBVIOUS
  <2>1. (i < j => i \in 1..n) /\ (i > j => i - 1 \in 1..n) /\ (i < j \/ i > j \/ i = j)
    BY <1>1
  <2> QED BY <1>1, <1>2, <1>3, <2>1
<1>5. ASSUME NEW i \in 1..n, i < j PROVE ks[i] <= s
  <2>1. j > 1 /\ j - 1 \in 1..n /\ i <= j - 1
    BY <1>1, <1>5
  <2>2. ks[i] <= ks[j - 1] /\ ks[j - 1] <= s /\ ks[i] \in Int /\ ks[j - 1] \in Int
    BY <1>1, <1>3, <2>1
  <2> QED BY <1>3, <2>2
<1>6. ASSUME NEW i \in 1..n, i >= j PROVE s <= ks[i]
  <2>1. j <= n /\ j \in 1..n
    BY <1>1, <1>6
  <2>2. s <= ks[j] /\ ks[j] <= ks[i] /\ ks[i] \in Int /\ ks[j] \in Int
    BY <1>1, <1>3, <1>6, <2>1
  <2> QED BY <1>3, <2>2
<1>7. ASSUME NEW i \in 1..n + 1, NEW k \in 1..n + 1, i <= k PROVE keys[i] <= keys[k]
  <2>0. i \in Int /\ k \in Int /\ j \in Int
    BY <1>1
  <2>1. CASE k < j
    <3>1. i \in 1..n /\ k \in 1..n /\ i < j
      BY <1>1, <1>7, <2>1
    <3> QED BY <1>1, <1>2, <1>7, <2>1, <3>1
  <2>2. CASE i > j
    <3>1. i - 1 \in 1..n /\ k - 1 \in 1..n /\ k > j /\ i - 1 <= k - 1
      BY <1>1, <1>7, <2>2
    <3> QED BY <1>1, <1>2, <2>2, <3>1
  <2>3. CASE i < j /\ k = j
    <3>1. i \in 1..n
      BY <1>1, <2>3
    <3> QED BY <1>2, <1>5, <2>3, <3>1
  <2>4. CASE i = j /\ k = j
    BY <1>2, <1>3, <2>4
  <2>5. CASE i <= j /\ k > j
    <3>1. k - 1 \in 1..n /\ k - 1 >= j /\ keys[k] = ks[k - 1] /\ s <= ks[k - 1] /\ ks[k - 1] \in Int
      <4>1. k - 1 \in 1..n /\ k - 1 >= j
        BY <1>1, <2>5
      <4> QED BY <1>1, <1>2, <1>6, <2>5, <4>1
    <3>2. keys[i] <= s /\ keys[i] \in Int
      <4>1. CASE i = j
        BY <1>2, <1>3, <4>1
      <4>2. CASE i < j
        <5>1. i \in 1..n
          BY <1>1, <4>2
        <5> QED BY <1>1, <1>2, <1>5, <4>2, <5>1
      <4> QED BY <2>0, <2>5, <4>1, <4>2
    <3> QED BY <1>3, <3>1, <3>2
  <2>6. k < j \/ i > j \/ (i < j /\ k = j) \/ (i = j /\ k = j) \/ (i <= j /\ k > j)
    BY <1>7, <2>0
  <2> QED BY <2>1, <2>2, <2>3, <2>4, <2>5, <2>6
<1>8. Rising(keys, S)
  <2>1. Len(keys) \in Nat
    BY <1>1, <1>2
  <2> QED BY <1>2, <1>4, <1>7, <2>1 DEF Rising
<1>9. ASSUME NEW i \in 1..n + 2
      PROVE  ptrs[i] \in DOMAIN C /\ \A k \in C[ptrs[i]] : k \in S /\ Amid(keys, i, k)
  <2>0. /\ i \in Int /\ (i < j \/ i = j \/ i = j + 1 \/ i > j + 1)
        /\ j \in 1..n + 2 /\ (i < j \/ i = j => i < j + 1 /\ i \in 1..n + 1)
        /\ (i > j + 1 => i - 1 \in 1..n + 1)
    BY <1>1
  <2>1. CASE i < j
    <3>1. i \in 1..n /\ ptrs[i] = ps[i] /\ keys[i] = ks[i] /\ (i > 1 => keys[i - 1] = ks[i - 1])
      <4>1. i \in 1..n /\ (i > 1 => i - 1 \in 1..n + 1 /\ i - 1 < j)
        BY <1>1, <2>1
      <4> QED BY <1>2, <2>0, <2>1, <4>1
    <3>2. ps[i] \in DOMAIN C /\ \A k \in C[ps[i]] : k \in S /\ Amid(ks, i, k)
      BY <1>1, <2>0, <2>1
    <3>3. i <= n
      BY <3>1
    <3> QED BY <1>0, <1>2, <3>1, <3>2, <3>3 DEF Amid
  <2>2. CASE i = j
    <3>1. ptrs[i] = ps[j] /\ keys[i] = s /\ (i > 1 => keys[i - 1] = ks[i - 1])
      <4>1. i > 1 => i - 1 \in 1..n + 1 /\ i - 1 < j
        BY <1>1, <2>2
      <4> QED BY <1>2, <2>0, <2>2, <4>1
    <3>2. ASSUME NEW k \in C[ps[j]] PROVE k \in S /\ Amid(ks, j, k) /\ k <= s
      BY <1>1 DEF UpTo
    <3>3. ps[j] \in DOMAIN C
      BY <1>1
    <3> QED BY <2>2, <3>1, <3>2, <3>3 DEF Amid
  <2>3. CASE i = j + 1
    <3>1. ptrs[i] = x /\ i - 1 = j /\ keys[i - 1] = s /\ (i <= n + 1 => keys[i] = ks[j] /\ j <= n)
      <4>1. i > j /\ i - 1 = j /\ (i <= n + 1 => i \in 1..n + 1 /\ j <= n)
        BY <1>1, <2>3
      <4> QED BY <1>2, <2>3, <4>1
    <3>2. ASSUME NEW k \in C[x] PROVE k \in S /\ Amid(ks, j, k) /\ s <= k
      BY <1>1 DEF From
    <3> QED BY <1>0, <1>2, <3>1, <3>2 DEF Amid
  <2>4. CASE i > j + 1
    <3>1. /\ ptrs[i] = ps[i - 1] /\ i - 1 > 1 /\ keys[i - 1] = ks[i - 1 - 1]
          /\ (i <= n + 1 => keys[i] = ks[i - 1] /\ i - 1 <= n)
      <4>1. /\ i - 1 > 1 /\ i - 1 \in 1..n + 1 /\ i - 1 > j /\ i > j
            /\ (i <= n + 1 => i \in 1..n + 1 /\ i - 1 <= n)
        BY <1>1, <2>4
      <4> QED BY <1>2, <2>4, <4>1
    <3>2. ps[i - 1] \in DOMAIN C /\ \A k \in C[ps[i - 1]] : k \in S /\ Amid(ks, i - 1, k)
      BY <1>1, <2>0, <2>4
    <3> QED BY <1>0, <1>2, <3>1, <3>2 DEF Amid
  <2> QED BY <2>0, <2>1, <2>2, <2>3, <2>4
<1>10. Len(ptrs) = Len(keys) + 1
  BY <1>1, <1>2
<1> QED BY <1>2, <1>8, <1>9, <1>10 DEF RowKeyed

\* A separator and the page right of it taken out; the page left of it has the keys of both.
LEMMA RowForgets ==
  ASSUME NEW S, S \subseteq Int, NEW ks, NEW ps, NEW B, RowKeyed(ks, ps, B, S),
         NEW at \in 1..Len(ks), NEW keys, IsRemoval(keys, ks, at),
         NEW ptrs, IsRemoval(ptrs, ps, at + 1), NEW C,
         \A i \in 1..Len(ps) : i # at /\ i # at + 1 =>
            ps[i] \in DOMAIN C /\ C[ps[i]] \subseteq B[ps[i]],
         ps[at] \in DOMAIN C, C[ps[at]] \subseteq B[ps[at]] \cup {ks[at]} \cup B[ps[at + 1]]
  PROVE  RowKeyed(keys, ptrs, C, S)
<1> DEFINE n == Len(ks)
<1>1. /\ n \in Nat /\ Len(ps) = n + 1 /\ at \in 1..n
      /\ \A i \in 1..n : ks[i] \in S
      /\ \A i, k \in 1..n : i <= k => ks[i] <= ks[k]
      /\ \A i \in 1..n + 1 : ps[i] \in DOMAIN B /\ \A k \in B[ps[i]] : k \in S /\ Amid(ks, i, k)
  BY DEF RowKeyed, Rising
<1>2. /\ Len(keys) = n - 1 /\ \A i \in 1..n - 1 : keys[i] = IF i < at THEN ks[i] ELSE ks[i + 1]
      /\ Len(ptrs) = n /\ \A i \in 1..n : ptrs[i] = IF i < at + 1 THEN ps[i] ELSE ps[i + 1]
  <2>1. Len(ps) - 1 = n
    BY <1>1
  <2> QED BY <2>1 DEF IsRemoval
<1> HIDE DEF n
<1>0. n = Len(ks)
  BY DEF n
<1>3. \A i \in 1..n - 1 : keys[i] \in S
  <2> SUFFICES ASSUME NEW i \in 1..n - 1 PROVE keys[i] \in S
    OBVIOUS
  <2>1. i \in 1..n /\ i + 1 \in 1..n
    BY <1>1
  <2> QED BY <1>1, <1>2, <2>1
<1>4. ASSUME NEW i \in 1..n - 1, NEW k \in 1..n - 1, i <= k PROVE keys[i] <= keys[k]
  <2>1. /\ i \in 1..n /\ i + 1 \in 1..n /\ k \in 1..n /\ k + 1 \in 1..n
        /\ i <= k + 1 /\ i + 1 <= k + 1 /\ (i < at \/ i >= at) /\ (i >= at => k >= at)
        /\ (k < at => i < at) /\ ~(k < at /\ k >= at)
    BY <1>1, <1>4
  <2>2. ks[i] <= ks[k] /\ ks[i] <= ks[k + 1] /\ ks[i + 1] <= ks[k + 1]
    BY <1>1, <1>4, <2>1
  <2>3. keys[i] = (IF i < at THEN ks[i] ELSE ks[i + 1]) /\ keys[k] = (IF k < at THEN ks[k] ELSE ks[k + 1])
    BY <1>2
  <2>4. CASE k < at
    BY <2>1, <2>2, <2>3, <2>4
  <2>5. CASE ~(k < at)
    BY <2>2, <2>3, <2>5
  <2> QED BY <2>4, <2>5
<1>5. Rising(keys, S)
  <2>1. Len(keys) \in Nat
    BY <1>1, <1>2
  <2> QED BY <1>2, <1>3, <1>4, <2>1 DEF Rising
<1>6. ASSUME NEW i \in 1..n
      PROVE  ptrs[i] \in DOMAIN C /\ \A k \in C[ptrs[i]] : k \in S /\ Amid(keys, i, k)
  <2>0. i \in Int /\ (i < at \/ i = at \/ i > at)
    BY <1>1
  <2>1. CASE i < at
    <3>1. ptrs[i] = ps[i] /\ i <= n - 1 /\ keys[i] = ks[i] /\ (i > 1 => keys[i - 1] = ks[i - 1])
          /\ i \in 1..n + 1 /\ i # at /\ i # at + 1 /\ i <= n
      <4>1. i < at + 1 /\ i \in 1..n - 1 /\ (i > 1 => i - 1 \in 1..n - 1 /\ i - 1 < at)
            /\ i \in 1..n + 1 /\ i # at /\ i # at + 1 /\ i <= n
        BY <1>1, <2>1
      <4> QED BY <1>2, <2>1, <4>1
    <3>2. ps[i] \in DOMAIN C /\ \A k \in C[ps[i]] : k \in S /\ Amid(ks, i, k)
      BY <1>1, <3>1
    <3> QED BY <1>0, <1>2, <3>1, <3>2 DEF Amid
  <2>2. CASE i = at
    <3>1. /\ ptrs[i] = ps[at] /\ at \in 1..n + 1 /\ at + 1 \in 1..n + 1
          /\ (at > 1 => keys[at - 1] = ks[at - 1] /\ at - 1 \in 1..n /\ ks[at - 1] <= ks[at])
          /\ (at <= n - 1 => keys[at] = ks[at + 1] /\ at + 1 \in 1..n /\ ks[at] <= ks[at + 1])
      <4>1. /\ at < at + 1 /\ at \in 1..n + 1 /\ at + 1 \in 1..n + 1
            /\ (at > 1 => at - 1 \in 1..n - 1 /\ at - 1 < at /\ at - 1 \in 1..n /\ at - 1 <= at)
            /\ (at <= n - 1 => at \in 1..n - 1 /\ ~(at < at) /\ at + 1 \in 1..n /\ at <= at + 1)
        BY <1>1
      <4> QED BY <1>1, <1>2, <2>2, <4>1
    <3>2. /\ ks[at] \in Int /\ (at > 1 => ks[at - 1] \in Int)
          /\ (at <= n - 1 => ks[at + 1] \in Int)
      BY <1>1, <3>1
    <3>3. ASSUME NEW k \in C[ps[at]] PROVE k \in S /\ Amid(keys, at, k)
      <4>1. k \in B[ps[at]] \/ k = ks[at] \/ k \in B[ps[at + 1]]
        OBVIOUS
      <4>2. k \in S /\ k \in Int
        BY <1>1, <3>1, <4>1
      <4>3. CASE k \in B[ps[at]]
        <5>1. Amid(ks, at, k) /\ at <= n
          BY <1>1, <3>1, <4>3
        <5>2. (at > 1 => ks[at - 1] <= k) /\ k <= ks[at]
          BY <1>0, <5>1 DEF Amid
        <5>3. at <= n - 1 => k <= ks[at + 1]
          BY <3>1, <3>2, <4>2, <5>2
        <5> QED BY <1>2, <3>1, <4>2, <5>2, <5>3 DEF Amid
      <4>4. CASE k = ks[at]
        BY <1>2, <3>1, <4>2, <4>4 DEF Amid
      <4>5. CASE k \in B[ps[at + 1]]
        <5>1. Amid(ks, at + 1, k) /\ at + 1 > 1 /\ at + 1 - 1 = at /\ (at <= n - 1 => at + 1 <= n)
          BY <1>1, <3>1, <4>5
        <5>2. ks[at] <= k /\ (at <= n - 1 => k <= ks[at + 1])
          BY <1>0, <5>1 DEF Amid
        <5>3. at > 1 => ks[at - 1] <= k
          BY <3>1, <3>2, <4>2, <5>2
        <5> QED BY <1>2, <3>1, <4>2, <5>2, <5>3 DEF Amid
      <4> QED BY <4>1, <4>3, <4>4, <4>5
    <3> QED BY <2>2, <3>1, <3>3
  <2>3. CASE i > at
    <3> DEFINE m == i + 1
    <3>1. /\ ptrs[i] = ps[m] /\ m \in 1..n + 1 /\ m # at /\ m # at + 1 /\ m > 1 /\ m - 1 = i
          /\ i > 1 /\ keys[i - 1] = ks[m - 1]
          /\ (i <= n - 1 => keys[i] = ks[m] /\ m <= n)
      <4>2. /\ n \in Nat /\ i \in Nat /\ at \in Nat /\ 1 <= at /\ at < i /\ i <= n /\ m = i + 1
        BY <1>1, <2>3
      <4> HIDE DEF m
      <4>3. i - 1 \in 1..n - 1 /\ ~(i - 1 < at) /\ i - 1 + 1 = i /\ i > 1
        BY <4>2
      <4>4. ~(i < at + 1) /\ m \in 1..n + 1 /\ m # at /\ m # at + 1 /\ m > 1 /\ m - 1 = i
        BY <4>2
      <4>5. i <= n - 1 => i \in 1..n - 1 /\ ~(i < at) /\ m <= n
        BY <4>2
      <4>6. keys[i - 1] = ks[i]
        BY <1>2, <4>3
      <4> QED BY <1>2, <4>2, <4>3, <4>4, <4>5, <4>6
    <3> HIDE DEF m
    <3>2. ps[m] \in DOMAIN C /\ \A k \in C[ps[m]] : k \in S /\ Amid(ks, m, k)
      BY <1>1, <3>1
    <3> QED BY <1>0, <1>2, <3>1, <3>2 DEF Amid
  <2> QED BY <2>0, <2>1, <2>2, <2>3
<1>7. Len(ptrs) = Len(keys) + 1
  BY <1>1, <1>2
<1> QED BY <1>2, <1>5, <1>6, <1>7 DEF RowKeyed

\* The entries of a leaf are in order, their keys in S.
LeafKeyed(es, S) ==
  /\ \A i \in 1..Len(es) : es[i].key \in S
  /\ \A i, j \in 1..Len(es) : i <= j => es[i].key <= es[j].key

\* Page n is in order, its keys in S.
PageOrdered(n, B, S) ==
  IF n.leaf THEN LeafKeyed(n.entries, S) ELSE RowKeyed(n.keys, n.ptrs, B, S)

\* The pages g, page 0 with a pointer to the root among them, are in order: the keys on
\* page p and below are in B[p].
Ordered(g, B) ==
  /\ B \in [DOMAIN g -> SUBSET Int]
  /\ \A p \in DOMAIN g : PageOrdered(g[p], B, B[p])

\* A page whose children have fewer keys, in a larger set.
LEMMA PageEased ==
  ASSUME NEW n, NEW B, NEW S, PageOrdered(n, B, S), NEW C, NEW T, S \subseteq T,
         ~n.leaf => \A i \in 1..Len(n.ptrs) :
                      n.ptrs[i] \in DOMAIN C /\ C[n.ptrs[i]] \subseteq B[n.ptrs[i]]
  PROVE  PageOrdered(n, C, T)
<1>1. CASE n.leaf
  BY <1>1 DEF PageOrdered, LeafKeyed
<1>2. CASE ~n.leaf
  BY <1>2, RowEased DEF PageOrdered
<1> QED BY <1>1, <1>2

\* The children of an internal page.
LEMMA ChildrenIn ==
  ASSUME NEW n, ~n.leaf, NEW B, NEW S, PageOrdered(n, B, S)
  PROVE  /\ RowKeyed(n.keys, n.ptrs, B, S)
         /\ \A i \in 1..Len(n.ptrs) : n.ptrs[i] \in DOMAIN B /\ B[n.ptrs[i]] \subseteq S
BY DEF PageOrdered, RowKeyed

\* Page c is divided into c and x, told to page P above it.
DividedBelow(g, h, B, P, j, c, x, s) ==
  /\ c \in DOMAIN g /\ P \in DOMAIN g /\ P # c /\ x \notin DOMAIN g /\ s \in B[c]
  /\ ~g[P].leaf /\ j \in 1..Len(g[P].ptrs) /\ g[P].ptrs[j] = c
  /\ DOMAIN h = DOMAIN g \cup {x} /\ \A q \in DOMAIN g : q # c /\ q # P => h[q] = g[q]
  /\ ~h[P].leaf /\ IsInsertion(h[P].keys, g[P].keys, j, s)
  /\ IsInsertion(h[P].ptrs, g[P].ptrs, j + 1, x)
  /\ PageOrdered(h[c], B, UpTo(B[c], s)) /\ PageOrdered(h[x], B, From(B[c], s))

\* The keys are divided with it.
DividedKeys(g, B, c, x, s) ==
  [p \in DOMAIN g \cup {x} |-> IF p = c THEN UpTo(B[c], s)
                               ELSE IF p = x THEN From(B[c], s) ELSE B[p]]

\* Dividing page c at s, with a new page x beside it for what is from s on, keeps the order.
LEMMA SheetDivided ==
  ASSUME NEW g, NEW B, Ordered(g, B), NEW h, NEW P, NEW j, NEW c, NEW x, NEW s,
         DividedBelow(g, h, B, P, j, c, x, s)
  PROVE  Ordered(h, DividedKeys(g, B, c, x, s))
<1> DEFINE D == DOMAIN g
           C == DividedKeys(g, B, c, x, s)
<1>1. /\ B \in [D -> SUBSET Int] /\ \A p \in D : PageOrdered(g[p], B, B[p])
      /\ c \in D /\ P \in D /\ P # c /\ x \notin D /\ s \in B[c]
      /\ ~g[P].leaf /\ j \in 1..Len(g[P].ptrs) /\ g[P].ptrs[j] = c
      /\ DOMAIN h = D \cup {x} /\ \A q \in D : q # c /\ q # P => h[q] = g[q]
      /\ ~h[P].leaf /\ IsInsertion(h[P].keys, g[P].keys, j, s)
      /\ IsInsertion(h[P].ptrs, g[P].ptrs, j + 1, x)
      /\ PageOrdered(h[c], B, UpTo(B[c], s)) /\ PageOrdered(h[x], B, From(B[c], s))
  BY DEF Ordered, DividedBelow
<1>2. UpTo(B[c], s) \subseteq B[c] /\ From(B[c], s) \subseteq B[c] /\ B[c] \subseteq Int
  BY <1>1 DEF UpTo, From
<1>3. /\ DOMAIN C = D \cup {x} /\ C[c] = UpTo(B[c], s) /\ C[x] = From(B[c], s)
      /\ \A q \in D : q # c => C[q] = B[q]
  BY <1>1 DEF DividedKeys
<1> HIDE DEF D
<1>4. C \in [D \cup {x} -> SUBSET Int]
  BY <1>1, <1>2 DEF DividedKeys, D
<1> HIDE DEF C
<1>5. \A q \in D : q \in DOMAIN C /\ C[q] \subseteq B[q]
  BY <1>2, <1>3
<1>6. DOMAIN B = D
  BY <1>1
<1>7. ASSUME NEW n, NEW S, NEW T, PageOrdered(n, B, S), S \subseteq T
      PROVE  PageOrdered(n, C, T)
  <2>1. ~n.leaf => \A i \in 1..Len(n.ptrs) :
                     n.ptrs[i] \in DOMAIN C /\ C[n.ptrs[i]] \subseteq B[n.ptrs[i]]
    BY <1>5, <1>6, <1>7, ChildrenIn
  <2> QED BY <1>7, <2>1, PageEased
<1>8. ASSUME NEW p \in D \cup {x} PROVE PageOrdered(h[p], C, C[p])
  <2>1. CASE p = c \/ p = x
    BY <1>1, <1>3, <1>7, <2>1
  <2>2. CASE p \in D /\ p # c /\ p # P
    <3>1. h[p] = g[p] /\ C[p] = B[p] /\ PageOrdered(g[p], B, B[p])
      BY <1>1, <1>3, <2>2
    <3> QED BY <1>7, <3>1
  <2>3. CASE p = P
    <3> DEFINE n == g[P]
               m == h[P]
               S == B[P]
    <3>1. RowKeyed(n.keys, n.ptrs, B, S)
      BY <1>1, ChildrenIn
    <3>2. S \subseteq Int
      BY <1>1
    <3>3. \A i \in 1..Len(n.ptrs) : n.ptrs[i] \in DOMAIN C /\ C[n.ptrs[i]] \subseteq B[n.ptrs[i]]
      BY <1>1, <1>5, <1>6, ChildrenIn
    <3>4. n.ptrs[j] = c /\ s \in B[n.ptrs[j]] /\ x \in DOMAIN C
          /\ C[n.ptrs[j]] \subseteq UpTo(B[n.ptrs[j]], s) /\ C[x] \subseteq From(B[n.ptrs[j]], s)
          /\ j \in 1..Len(n.ptrs)
      BY <1>1, <1>3
    <3>5. IsInsertion(m.keys, n.keys, j, s) /\ IsInsertion(m.ptrs, n.ptrs, j + 1, x)
      BY <1>1
    <3>6. ~m.leaf /\ C[P] = S
      BY <1>1, <1>3
    <3> HIDE DEF n, m, S
    <3>7. RowKeyed(m.keys, m.ptrs, C, S)
      BY <3>1, <3>2, <3>3, <3>4, <3>5, RowTold
    <3>8. PageOrdered(m, C, S)
      BY <3>6, <3>7 DEF PageOrdered
    <3> QED BY <2>3, <3>6, <3>8 DEF m, S
  <2> QED BY <2>1, <2>2, <2>3
<1>9. Ordered(h, C)
  BY <1>1, <1>4, <1>8 DEF Ordered
<1> QED BY <1>9 DEF C

\* The pages l and r, next to each other below page P and nowhere else, are joined in l.
JoinedBelow(g, h, B, P, at, l, r) ==
  /\ l \in DOMAIN g /\ r \in DOMAIN g /\ P \in DOMAIN g /\ l # r /\ P # l /\ P # r
  /\ ~g[P].leaf /\ at \in 1..Len(g[P].keys) /\ g[P].ptrs[at] = l /\ g[P].ptrs[at + 1] = r
  /\ \A q \in DOMAIN g : ~g[q].leaf => \A i \in 1..Len(g[q].ptrs) :
        /\ g[q].ptrs[i] = l => q = P /\ i = at
        /\ g[q].ptrs[i] = r => q = P /\ i = at + 1
  /\ DOMAIN h = DOMAIN g \ {r} /\ \A q \in DOMAIN g : q # l /\ q # r /\ q # P => h[q] = g[q]
  /\ ~h[P].leaf /\ IsRemoval(h[P].keys, g[P].keys, at)
  /\ IsRemoval(h[P].ptrs, g[P].ptrs, at + 1)
  /\ PageOrdered(h[l], B, B[l] \cup {g[P].keys[at]} \cup B[r])
  /\ ~h[l].leaf => \A i \in 1..Len(h[l].ptrs) : h[l].ptrs[i] # l /\ h[l].ptrs[i] # r

\* It has the keys of both and their separator.
JoinedKeys(g, B, P, at, l, r) ==
  [p \in DOMAIN g \ {r} |-> IF p = l THEN B[l] \cup {g[P].keys[at]} \cup B[r] ELSE B[p]]

\* Joining page r into its left neighbour l, with the key between them, keeps the order.
LEMMA SheetJoined ==
  ASSUME NEW g, NEW B, Ordered(g, B), NEW h, NEW P, NEW at, NEW l, NEW r,
         JoinedBelow(g, h, B, P, at, l, r)
  PROVE  Ordered(h, JoinedKeys(g, B, P, at, l, r))
<1> DEFINE D == DOMAIN g
           C == JoinedKeys(g, B, P, at, l, r)
           m == g[P].keys[at]
           U == B[l] \cup {m} \cup B[r]
<1>1. /\ B \in [D -> SUBSET Int] /\ \A p \in D : PageOrdered(g[p], B, B[p])
      /\ l \in D /\ r \in D /\ P \in D /\ l # r /\ P # l /\ P # r
      /\ ~g[P].leaf /\ at \in 1..Len(g[P].keys) /\ g[P].ptrs[at] = l /\ g[P].ptrs[at + 1] = r
      /\ \A q \in D : ~g[q].leaf => \A i \in 1..Len(g[q].ptrs) :
            /\ g[q].ptrs[i] = l => q = P /\ i = at
            /\ g[q].ptrs[i] = r => q = P /\ i = at + 1
      /\ DOMAIN h = D \ {r} /\ \A q \in D : q # l /\ q # r /\ q # P => h[q] = g[q]
      /\ ~h[P].leaf /\ IsRemoval(h[P].keys, g[P].keys, at)
      /\ IsRemoval(h[P].ptrs, g[P].ptrs, at + 1)
      /\ PageOrdered(h[l], B, U)
      /\ ~h[l].leaf => \A i \in 1..Len(h[l].ptrs) : h[l].ptrs[i] # l /\ h[l].ptrs[i] # r
  BY DEF Ordered, JoinedBelow
<1>2. RowKeyed(g[P].keys, g[P].ptrs, B, B[P]) /\ B[P] \subseteq Int
  BY <1>1, ChildrenIn
<1>3. m \in Int /\ U \subseteq Int
  BY <1>1, <1>2 DEF RowKeyed, Rising
<1>4. DOMAIN C = D \ {r} /\ C[l] = U /\ \A q \in D : q # l /\ q # r => C[q] = B[q]
  BY <1>1 DEF JoinedKeys
<1>5. C \in [D \ {r} -> SUBSET Int]
  BY <1>1, <1>3 DEF JoinedKeys
<1>6. DOMAIN B = D
  BY <1>1
<1> HIDE DEF D, C, U
<1>7. ASSUME NEW n, NEW S, PageOrdered(n, B, S),
             ~n.leaf => \A i \in 1..Len(n.ptrs) : n.ptrs[i] # l /\ n.ptrs[i] # r
      PROVE  PageOrdered(n, C, S)
  <2>1. ~n.leaf => \A i \in 1..Len(n.ptrs) :
                     n.ptrs[i] \in DOMAIN C /\ C[n.ptrs[i]] \subseteq B[n.ptrs[i]]
    BY <1>4, <1>6, <1>7, ChildrenIn
  <2> QED BY <1>7, <2>1, PageEased
<1>8. ASSUME NEW p \in D \ {r} PROVE PageOrdered(h[p], C, C[p])
  <2>1. CASE p = l
    BY <1>1, <1>4, <1>7, <2>1
  <2>2. CASE p # l /\ p # P
    <3>1. h[p] = g[p] /\ C[p] = B[p] /\ PageOrdered(g[p], B, B[p])
      BY <1>1, <1>4, <2>2
    <3>2. ~g[p].leaf => \A i \in 1..Len(g[p].ptrs) : g[p].ptrs[i] # l /\ g[p].ptrs[i] # r
      BY <1>1, <2>2
    <3> QED BY <1>7, <3>1, <3>2
  <2>3. CASE p = P
    <3> DEFINE n == g[P]
               k == h[P]
               S == B[P]
    <3>1. RowKeyed(n.keys, n.ptrs, B, S) /\ S \subseteq Int /\ at \in 1..Len(n.keys)
          /\ IsRemoval(k.keys, n.keys, at) /\ IsRemoval(k.ptrs, n.ptrs, at + 1)
      BY <1>1, <1>2
    <3>2. \A i \in 1..Len(n.ptrs) : i # at /\ i # at + 1 =>
             n.ptrs[i] \in DOMAIN C /\ C[n.ptrs[i]] \subseteq B[n.ptrs[i]]
      <4> SUFFICES ASSUME NEW i \in 1..Len(n.ptrs), i # at, i # at + 1
                   PROVE  n.ptrs[i] \in DOMAIN C /\ C[n.ptrs[i]] \subseteq B[n.ptrs[i]]
        OBVIOUS
      <4>1. n.ptrs[i] \in D /\ n.ptrs[i] # l /\ n.ptrs[i] # r
        BY <1>1, <1>6, ChildrenIn
      <4> QED BY <1>4, <4>1
    <3>3. /\ n.ptrs[at] \in DOMAIN C
          /\ C[n.ptrs[at]] \subseteq B[n.ptrs[at]] \cup {n.keys[at]} \cup B[n.ptrs[at + 1]]
          /\ n.keys = g[P].keys
      <4>1. n.ptrs[at] = l /\ n.ptrs[at + 1] = r /\ C[l] = U /\ l \in DOMAIN C
        BY <1>1, <1>4
      <4> QED BY <4>1 DEF U
    <3>4. ~k.leaf /\ C[P] = S
      BY <1>1, <1>4
    <3> HIDE DEF n, k, S, m
    <3>5. RowKeyed(k.keys, k.ptrs, C, S)
      BY <3>1, <3>2, <3>3, RowForgets
    <3>6. PageOrdered(k, C, S)
      BY <3>4, <3>5 DEF PageOrdered
    <3> QED BY <2>3, <3>4, <3>6 DEF k, S
  <2> QED BY <2>1, <2>2, <2>3
<1>9. Ordered(h, C)
  BY <1>1, <1>5, <1>8 DEF Ordered
<1> QED BY <1>9 DEF C

-----------------------------------------------------------------------------
\* Two leaves, one behind the other.
LEMMA LeafJoined ==
  ASSUME NEW S, NEW T, S \subseteq Int, T \subseteq Int, NEW m \in Int,
         \A k \in S : k <= m, \A k \in T : m <= k,
         NEW a, NEW b, NEW z, LeafKeyed(a, S), LeafKeyed(b, T), Parts(z, a, b),
         Len(a) \in Nat, Len(b) \in Nat
  PROVE  LeafKeyed(z, S \cup {m} \cup T)
<1> DEFINE n == Len(a)
<1>1. /\ n \in Nat /\ Len(b) \in Nat /\ Len(z) = n + Len(b)
      /\ \A i \in 1..n : z[i] = a[i] /\ a[i].key \in S
      /\ \A i \in 1..Len(b) : z[n + i] = b[i] /\ b[i].key \in T
      /\ \A i, j \in 1..n : i <= j => a[i].key <= a[j].key
      /\ \A i, j \in 1..Len(b) : i <= j => b[i].key <= b[j].key
  BY DEF LeafKeyed, Parts
<1> HIDE DEF n
<1>2. \A i \in 1..Len(z) : i \in 1..n \/ (i - n \in 1..Len(b) /\ n + (i - n) = i)
  BY <1>1
<1>3. \A i \in 1..Len(z) : /\ i \in 1..n => z[i].key \in S /\ z[i] = a[i]
                           /\ i - n \in 1..Len(b) => z[i].key \in T /\ z[i] = b[i - n]
  <2> SUFFICES ASSUME NEW i \in 1..Len(z)
               PROVE  /\ i \in 1..n => z[i].key \in S /\ z[i] = a[i]
                      /\ i - n \in 1..Len(b) => z[i].key \in T /\ z[i] = b[i - n]
    OBVIOUS
  <2>1. i - n \in 1..Len(b) => n + (i - n) = i
    BY <1>1
  <2> QED BY <1>1, <2>1
<1>4. ASSUME NEW i \in 1..Len(z), NEW j \in 1..Len(z), i <= j PROVE z[i].key <= z[j].key
  <2>1. CASE i \in 1..n /\ j \in 1..n
    BY <1>1, <1>3, <1>4, <2>1
  <2>2. CASE i \in 1..n /\ j - n \in 1..Len(b)
    <3>1. z[i].key <= m /\ m <= z[j].key /\ z[i].key \in Int /\ z[j].key \in Int
      BY <1>3, <2>2
    <3> QED BY <3>1
  <2>3. CASE i - n \in 1..Len(b) /\ j - n \in 1..Len(b)
    <3>1. i - n <= j - n
      BY <1>1, <1>4
    <3> QED BY <1>1, <1>3, <2>3, <3>1
  <2>4. ~(i - n \in 1..Len(b) /\ j \in 1..n)
    BY <1>1, <1>4
  <2> QED BY <1>2, <2>1, <2>2, <2>3, <2>4
<1> QED BY <1>2, <1>3, <1>4 DEF LeafKeyed

\* A leaf divided, by the key of an entry next to the cut.
LEMMA LeafDivided ==
  ASSUME NEW S, S \subseteq Int, NEW a, NEW b, NEW z, LeafKeyed(z, S), Parts(z, a, b),
         Len(a) \in Nat, Len(b) \in Nat,
         NEW i \in 1..Len(z), Len(a) <= i, i <= Len(a) + 1, NEW s, s = z[i].key
  PROVE  s \in S /\ LeafKeyed(a, UpTo(S, s)) /\ LeafKeyed(b, From(S, s))
<1> DEFINE n == Len(a)
<1>1. /\ n \in Nat /\ Len(b) \in Nat /\ Len(z) = n + Len(b) /\ n <= i /\ i <= n + 1
      /\ \A j \in 1..n : z[j] = a[j]
      /\ \A j \in 1..Len(b) : z[n + j] = b[j]
      /\ \A j \in 1..Len(z) : z[j].key \in S
      /\ \A j, k \in 1..Len(z) : j <= k => z[j].key <= z[k].key
  BY DEF LeafKeyed, Parts
<1> HIDE DEF n
<1>2. s \in S
  BY <1>1
<1>3. \A j \in 1..n : j \in 1..Len(z) /\ j <= i
  BY <1>1
<1>4. \A j \in 1..Len(b) : n + j \in 1..Len(z) /\ i <= n + j
  BY <1>1
<1>5. \A j \in 1..n : a[j].key \in UpTo(S, s)
  BY <1>1, <1>3 DEF UpTo
<1>6. \A j, k \in 1..n : j <= k => a[j].key <= a[k].key
  BY <1>1, <1>3
<1>7. \A j \in 1..Len(b) : b[j].key \in From(S, s)
  BY <1>1, <1>4 DEF From
<1>8. ASSUME NEW j \in 1..Len(b), NEW k \in 1..Len(b), j <= k PROVE b[j].key <= b[k].key
  <2>1. n + j <= n + k
    BY <1>1, <1>8
  <2> QED BY <1>1, <1>4, <2>1
<1> QED BY <1>2, <1>5, <1>6, <1>7, <1>8 DEF LeafKeyed, n

\* An entry more, at its place.
LEMMA LeafInserted ==
  ASSUME NEW S, S \subseteq Int, NEW es, LeafKeyed(es, S), Len(es) \in Nat, NEW e, e.key \in S,
         NEW at \in 1..Len(es) + 1, NEW v, IsInsertion(v, es, at, e),
         \A i \in 1..Len(es) : (i < at => es[i].key <= e.key) /\ (i >= at => e.key <= es[i].key)
  PROVE  LeafKeyed(v, S)
<1>1. /\ Len(v) = Len(es) + 1 /\ v[at] = e
      /\ \A i \in 1..Len(es) + 1 : (i < at => v[i] = es[i]) /\ (i > at => v[i] = es[i - 1])
      /\ \A i \in 1..Len(es) : es[i].key \in S
      /\ \A i, j \in 1..Len(es) : i <= j => es[i].key <= es[j].key
  BY DEF LeafKeyed, IsInsertion
<1>2. \A i \in 1..Len(v) : \/ i = at /\ v[i] = e
                           \/ i < at /\ i \in 1..Len(es) /\ v[i] = es[i] /\ v[i].key <= e.key
                           \/ /\ i > at /\ i - 1 \in 1..Len(es) /\ v[i] = es[i - 1]
                              /\ e.key <= v[i].key
  <2> SUFFICES ASSUME NEW i \in 1..Len(v)
               PROVE  \/ i = at /\ v[i] = e
                      \/ i < at /\ i \in 1..Len(es) /\ v[i] = es[i] /\ v[i].key <= e.key
                      \/ /\ i > at /\ i - 1 \in 1..Len(es) /\ v[i] = es[i - 1]
                         /\ e.key <= v[i].key
    OBVIOUS
  <2>1. i \in 1..Len(es) + 1 /\ (i < at \/ i = at \/ i > at)
    BY <1>1
  <2>2. i < at => i \in 1..Len(es)
    BY <2>1
  <2>3. i > at => i - 1 \in 1..Len(es) /\ i - 1 >= at
    BY <2>1
  <2> QED BY <1>1, <2>1, <2>2, <2>3
<1>3. \A i \in 1..Len(v) : v[i].key \in S
  BY <1>1, <1>2
<1>4. ASSUME NEW i \in 1..Len(v), NEW j \in 1..Len(v), i <= j PROVE v[i].key <= v[j].key
  <2>1. v[i].key \in Int /\ v[j].key \in Int /\ e.key \in Int
    BY <1>3
  <2>2. CASE i < at /\ j < at
    BY <1>1, <1>2, <1>4, <2>2
  <2>3. CASE i <= at /\ j >= at
    <3>1. v[i].key <= e.key /\ e.key <= v[j].key
      BY <1>2, <2>1, <2>3
    <3> QED BY <2>1, <3>1
  <2>4. CASE i > at /\ j > at
    <3>1. i - 1 <= j - 1 /\ v[i] = es[i - 1] /\ v[j] = es[j - 1]
          /\ i - 1 \in 1..Len(es) /\ j - 1 \in 1..Len(es)
      BY <1>2, <1>4, <2>4
    <3> QED BY <1>1, <3>1
  <2>5. i \in Int /\ j \in Int /\ at \in Int
    BY <1>1
  <2> QED BY <1>4, <2>2, <2>3, <2>4, <2>5
<1> QED BY <1>3, <1>4 DEF LeafKeyed

\* An entry less.
LEMMA LeafRemoved ==
  ASSUME NEW S, NEW es, LeafKeyed(es, S), Len(es) \in Nat, NEW at \in 1..Len(es), NEW v,
         IsRemoval(v, es, at)
  PROVE  LeafKeyed(v, S)
<1>1. /\ Len(v) = Len(es) - 1
      /\ \A i \in 1..Len(v) : v[i] = IF i < at THEN es[i] ELSE es[i + 1]
      /\ \A i \in 1..Len(es) : es[i].key \in S
      /\ \A i, j \in 1..Len(es) : i <= j => es[i].key <= es[j].key
  BY DEF LeafKeyed, IsRemoval
<1>2. \A i \in 1..Len(v) : i \in 1..Len(es) /\ i + 1 \in 1..Len(es)
  BY <1>1
<1>3. ASSUME NEW i \in 1..Len(v), NEW j \in 1..Len(v), i <= j PROVE v[i].key <= v[j].key
  <2>1. i <= j + 1 /\ i + 1 <= j + 1 /\ (j < at => i < at)
    BY <1>3
  <2>2. /\ v[i] = IF i < at THEN es[i] ELSE es[i + 1]
        /\ v[j] = IF j < at THEN es[j] ELSE es[j + 1]
    BY <1>1
  <2>3. /\ i \in 1..Len(es) /\ i + 1 \in 1..Len(es) /\ j \in 1..Len(es) /\ j + 1 \in 1..Len(es)
    BY <1>2
  <2>4. CASE i < at /\ j < at
    BY <1>1, <1>3, <2>2, <2>3, <2>4
  <2>5. CASE i < at /\ ~(j < at)
    BY <1>1, <2>1, <2>2, <2>3, <2>5
  <2>6. CASE ~(i < at) /\ ~(j < at)
    BY <1>1, <2>1, <2>2, <2>3, <2>6
  <2> QED BY <2>1, <2>4, <2>5, <2>6
<1> QED BY <1>1, <1>2, <1>3 DEF LeafKeyed

-----------------------------------------------------------------------------
\* The pages W, page 0 among them, that key k is put below.
Entered(g, W, k) ==
  /\ W \subseteq DOMAIN g /\ k \in Int
  /\ \A p \in DOMAIN g : ~g[p].leaf => \A i \in 1..Len(g[p].ptrs) :
        g[p].ptrs[i] \in W => p \in W /\ Amid(g[p].keys, i, k)

\* The keys with key k.
KeysWith(B, W, k) == [p \in DOMAIN B |-> IF p \in W THEN B[p] \cup {k} ELSE B[p]]

\* Putting key k below some pages, each of which has a place for it, keeps the order.
LEMMA SheetGrown ==
  ASSUME NEW g, NEW B, Ordered(g, B), NEW W, NEW k, Entered(g, W, k)
  PROVE  Ordered(g, KeysWith(B, W, k))
<1> DEFINE C == KeysWith(B, W, k)
<1>1. /\ B \in [DOMAIN g -> SUBSET Int] /\ \A p \in DOMAIN g : PageOrdered(g[p], B, B[p])
      /\ k \in Int
      /\ \A p \in DOMAIN g : ~g[p].leaf => \A i \in 1..Len(g[p].ptrs) :
            g[p].ptrs[i] \in W => p \in W /\ Amid(g[p].keys, i, k)
  BY DEF Ordered, Entered
<1>2. /\ C \in [DOMAIN g -> SUBSET Int] /\ DOMAIN B = DOMAIN g /\ DOMAIN C = DOMAIN g
      /\ \A p \in DOMAIN g : B[p] \subseteq C[p] /\ C[p] = IF p \in W THEN B[p] \cup {k} ELSE B[p]
  BY <1>1 DEF KeysWith
<1> HIDE DEF C
<1>3. ASSUME NEW p \in DOMAIN g PROVE PageOrdered(g[p], C, C[p])
  <2>1. PageOrdered(g[p], B, B[p]) /\ B[p] \subseteq C[p]
    BY <1>1, <1>2
  <2>2. CASE g[p].leaf
    BY <2>1, <2>2, PageEased
  <2>3. CASE ~g[p].leaf
    <3> DEFINE ks == g[p].keys
               ps == g[p].ptrs
    <3>1. RowKeyed(ks, ps, B, B[p])
      BY <2>1, <2>3, ChildrenIn
    <3>2. \A i \in 1..Len(ps) : ps[i] \in W => p \in W /\ Amid(ks, i, k)
      BY <1>1, <2>3
    <3> HIDE DEF ks, ps
    <3>3. /\ Rising(ks, C[p]) /\ Len(ps) = Len(ks) + 1
          /\ \A i \in 1..Len(ps) : ps[i] \in DOMAIN g /\ \A l \in B[ps[i]] : l \in B[p] /\ Amid(ks, i, l)
      BY <1>2, <2>1, <3>1 DEF RowKeyed, Rising
    <3>4. ASSUME NEW i \in 1..Len(ps), NEW l \in C[ps[i]] PROVE l \in C[p] /\ Amid(ks, i, l)
      <4>1. CASE l \in B[ps[i]]
        BY <2>1, <3>3, <4>1
      <4>2. CASE l \notin B[ps[i]]
        <5>1. ps[i] \in W /\ l = k
          BY <1>2, <3>3, <3>4, <4>2
        <5> QED BY <1>2, <3>2, <5>1
      <4> QED BY <4>1, <4>2
    <3>5. RowKeyed(ks, ps, C, C[p])
      BY <1>2, <3>3, <3>4 DEF RowKeyed
    <3> QED BY <2>3, <3>5 DEF PageOrdered, ks, ps
  <2> QED BY <2>2, <2>3
<1>4. Ordered(g, C)
  BY <1>2, <1>3 DEF Ordered
<1> QED BY <1>4 DEF C

\* Only page p changes, and stays in order.
LEMMA SheetChanged ==
  ASSUME NEW g, NEW B, Ordered(g, B), NEW h, DOMAIN h = DOMAIN g, NEW c,
         \A p \in DOMAIN g : p # c => h[p] = g[p], c \in DOMAIN g => PageOrdered(h[c], B, B[c])
  PROVE  Ordered(h, B)
BY DEF Ordered

\* Fewer pages, but all that the others point to.
LEMMA SheetOfFewer ==
  ASSUME NEW g, NEW B, Ordered(g, B), NEW h, DOMAIN h \subseteq DOMAIN g,
         \A p \in DOMAIN h : h[p] = g[p],
         \A p \in DOMAIN h : ~h[p].leaf => \A i \in 1..Len(h[p].ptrs) : h[p].ptrs[i] \in DOMAIN h
  PROVE  Ordered(h, [p \in DOMAIN h |-> B[p]])
<1> DEFINE C == [p \in DOMAIN h |-> B[p]]
<1>1. C \in [DOMAIN h -> SUBSET Int] /\ DOMAIN C = DOMAIN h /\ \A p \in DOMAIN h : C[p] = B[p]
  BY DEF Ordered
<1> HIDE DEF C
<1>2. ASSUME NEW p \in DOMAIN h PROVE PageOrdered(h[p], C, C[p])
  <2>1. PageOrdered(h[p], B, B[p]) /\ B[p] \subseteq C[p]
    BY <1>1 DEF Ordered
  <2>2. ~h[p].leaf => \A i \in 1..Len(h[p].ptrs) :
                        h[p].ptrs[i] \in DOMAIN C /\ C[h[p].ptrs[i]] \subseteq B[h[p].ptrs[i]]
    BY <1>1
  <2> QED BY <2>1, <2>2, PageEased
<1>3. Ordered(h, C)
  BY <1>1, <1>2 DEF Ordered
<1> QED BY <1>3 DEF C

\* A page x above the pages at the top.
LEMMA SheetTopped ==
  ASSUME NEW g, NEW B, Ordered(g, B), 0 \in DOMAIN g, ~g[0].leaf, NEW x, x \notin DOMAIN g,
         NEW h, DOMAIN h = DOMAIN g \cup {x}, \A p \in DOMAIN g : p # 0 => h[p] = g[p],
         h[x] = g[0], ~h[0].leaf, h[0].keys = << >>, h[0].ptrs = <<x>>
  PROVE  Ordered(h, [p \in DOMAIN g \cup {x} |-> IF p = x THEN B[0] ELSE B[p]])
<1> DEFINE C == [p \in DOMAIN g \cup {x} |-> IF p = x THEN B[0] ELSE B[p]]
<1>1. /\ C \in [DOMAIN h -> SUBSET Int] /\ DOMAIN C = DOMAIN g \cup {x} /\ C[x] = B[0]
      /\ \A p \in DOMAIN g : C[p] = B[p]
  BY DEF Ordered
<1>0. /\ \A p \in DOMAIN g : PageOrdered(g[p], B, B[p]) /\ DOMAIN B = DOMAIN g
      /\ B[0] \subseteq Int
  BY DEF Ordered
<1> HIDE DEF C
<1>2. ASSUME NEW p \in DOMAIN g PROVE PageOrdered(g[p], C, B[p])
  <2>1. PageOrdered(g[p], B, B[p])
    BY <1>0
  <2>2. ~g[p].leaf => \A i \in 1..Len(g[p].ptrs) :
                        g[p].ptrs[i] \in DOMAIN C /\ C[g[p].ptrs[i]] \subseteq B[g[p].ptrs[i]]
    BY <1>0, <1>1, ChildrenIn
  <2> QED BY <2>1, <2>2, PageEased
<1>3. ASSUME NEW p \in DOMAIN h PROVE PageOrdered(h[p], C, C[p])
  <2>1. CASE p = x
    BY <1>1, <1>2, <2>1
  <2>2. CASE p # x /\ p # 0
    BY <1>1, <1>2, <2>2
  <2>3. CASE p = 0
    <3> DEFINE n == h[0]
    <3>1. /\ ~n.leaf /\ n.keys = << >> /\ n.ptrs = <<x>> /\ x \in DOMAIN C /\ C[x] = B[0]
          /\ C[0] = B[0]
      BY <1>1
    <3> HIDE DEF n
    <3>2. Rising(n.keys, B[0]) /\ Len(n.ptrs) = Len(n.keys) + 1
      BY <3>1 DEF Rising
    <3>3. \A i \in 1..Len(n.ptrs) : i = 1 /\ n.ptrs[i] = x
      BY <3>1
    <3>4. \A k : Amid(n.keys, 1, k)
      BY <3>1 DEF Amid
    <3>5. RowKeyed(n.keys, n.ptrs, C, B[0])
      BY <3>1, <3>2, <3>3, <3>4 DEF RowKeyed
    <3>6. PageOrdered(n, C, B[0])
      BY <3>1, <3>5 DEF PageOrdered
    <3> QED BY <2>3, <3>1, <3>6 DEF n
  <2> QED BY <2>1, <2>2, <2>3
<1>4. Ordered(h, C)
  BY <1>1, <1>3 DEF Ordered
<1> QED BY <1>4 DEF C

-----------------------------------------------------------------------------
\* Page z is a and b in one, with the separator m.
Merges(z, a, m, b) ==
  IF a.leaf THEN /\ b.leaf /\ z.leaf /\ Parts(z.entries, a.entries, b.entries)
                 /\ Len(a.entries) \in Nat /\ Len(b.entries) \in Nat
  ELSE ~b.leaf /\ ~z.leaf /\ Divided(z.keys, z.ptrs, m, a.keys, a.ptrs, b.keys, b.ptrs)

\* Page z divided into a and b by the separator s.
Splits(z, a, s, b) ==
  IF z.leaf THEN /\ a.leaf /\ b.leaf /\ Parts(z.entries, a.entries, b.entries)
                 /\ Len(a.entries) \in Nat /\ Len(b.entries) \in Nat
                 /\ \E i \in 1..Len(z.entries) : /\ s = z.entries[i].key
                                                 /\ Len(a.entries) <= i /\ i <= Len(a.entries) + 1
  ELSE /\ ~a.leaf /\ ~b.leaf /\ Divided(z.keys, z.ptrs, s, a.keys, a.ptrs, b.keys, b.ptrs)
       /\ Len(a.keys) \in Nat /\ Len(b.keys) \in Nat

\* A page made of two whose keys m divides is in order.
LEMMA PageMerged ==
  ASSUME NEW S, NEW T, S \subseteq Int, T \subseteq Int, NEW m \in Int,
         \A k \in S : k <= m, \A k \in T : m <= k, NEW B,
         NEW a, NEW b, NEW z, PageOrdered(a, B, S), PageOrdered(b, B, T), Merges(z, a, m, b)
  PROVE  PageOrdered(z, B, S \cup {m} \cup T)
<1>1. CASE a.leaf
  <2> DEFINE x == a.entries
             y == b.entries
             v == z.entries
  <2>1. /\ z.leaf /\ Parts(v, x, y) /\ Len(x) \in Nat /\ Len(y) \in Nat
        /\ LeafKeyed(x, S) /\ LeafKeyed(y, T)
    BY <1>1 DEF Merges, PageOrdered
  <2> HIDE DEF x, y, v
  <2>2. LeafKeyed(v, S \cup {m} \cup T)
    BY <2>1, LeafJoined
  <2> QED BY <2>1, <2>2 DEF PageOrdered, v
<1>2. CASE ~a.leaf
  <2> DEFINE ka == a.keys
             pa == a.ptrs
             kb == b.keys
             pb == b.ptrs
             ks == z.keys
             ps == z.ptrs
  <2>1. /\ ~z.leaf /\ Divided(ks, ps, m, ka, pa, kb, pb)
        /\ RowKeyed(ka, pa, B, S) /\ RowKeyed(kb, pb, B, T)
    BY <1>2 DEF Merges, PageOrdered
  <2> HIDE DEF ka, pa, kb, pb, ks, ps
  <2>2. RowKeyed(ks, ps, B, S \cup {m} \cup T)
    BY <2>1, RowJoined
  <2> QED BY <2>1, <2>2 DEF PageOrdered, ks, ps
<1> QED BY <1>1, <1>2

\* A page in order divides into two in order.
LEMMA PageDivides ==
  ASSUME NEW S, S \subseteq Int, NEW B, NEW s, NEW a, NEW b, NEW z, PageOrdered(z, B, S),
         Splits(z, a, s, b)
  PROVE  s \in S /\ PageOrdered(a, B, UpTo(S, s)) /\ PageOrdered(b, B, From(S, s))
<1>1. CASE z.leaf
  <2> DEFINE x == a.entries
             y == b.entries
             v == z.entries
  <2>1. /\ a.leaf /\ b.leaf /\ Parts(v, x, y) /\ Len(x) \in Nat /\ Len(y) \in Nat
        /\ LeafKeyed(v, S)
    BY <1>1 DEF Splits, PageOrdered
  <2>2. PICK i \in 1..Len(v) : s = v[i].key /\ Len(x) <= i /\ i <= Len(x) + 1
    BY <1>1 DEF Splits
  <2> HIDE DEF x, y, v
  <2>3. s \in S /\ LeafKeyed(x, UpTo(S, s)) /\ LeafKeyed(y, From(S, s))
    BY <2>1, <2>2, LeafDivided
  <2> QED BY <2>1, <2>3 DEF PageOrdered, x, y
<1>2. CASE ~z.leaf
  <2> DEFINE ka == a.keys
             pa == a.ptrs
             kb == b.keys
             pb == b.ptrs
             ks == z.keys
             ps == z.ptrs
  <2>1. /\ ~a.leaf /\ ~b.leaf /\ Divided(ks, ps, s, ka, pa, kb, pb)
        /\ Len(ka) \in Nat /\ Len(kb) \in Nat /\ RowKeyed(ks, ps, B, S)
    BY <1>2 DEF Splits, PageOrdered
  <2> HIDE DEF ka, pa, kb, pb, ks, ps
  <2>2. s \in S /\ RowKeyed(ka, pa, B, UpTo(S, s)) /\ RowKeyed(kb, pb, B, From(S, s))
    BY <2>1, RowDivided
  <2> QED BY <2>1, <2>2 DEF PageOrdered, ka, pa, kb, pb
<1> QED BY <1>1, <1>2

\* The pages l and r are neighbours below page P, and below no other page.
Neighboured(g, P, at, l, r) ==
  /\ l \in DOMAIN g /\ r \in DOMAIN g /\ P \in DOMAIN g /\ l # r /\ P # l /\ P # r
  /\ ~g[P].leaf /\ at \in 1..Len(g[P].keys) /\ g[P].ptrs[at] = l /\ g[P].ptrs[at + 1] = r
  /\ \A q \in DOMAIN g : ~g[q].leaf => \A i \in 1..Len(g[q].ptrs) :
        /\ g[q].ptrs[i] = l => q = P /\ i = at
        /\ g[q].ptrs[i] = r => q = P /\ i = at + 1

\* The separator is between the keys of neighbours.
LEMMA NeighboursApart ==
  ASSUME NEW g, NEW B, Ordered(g, B), NEW P, NEW at, NEW l, NEW r, Neighboured(g, P, at, l, r)
  PROVE  /\ B[l] \subseteq Int /\ B[r] \subseteq Int /\ g[P].keys[at] \in Int
         /\ \A k \in B[l] : k <= g[P].keys[at]
         /\ \A k \in B[r] : g[P].keys[at] <= k
         /\ PageOrdered(g[l], B, B[l]) /\ PageOrdered(g[r], B, B[r])
         /\ Len(g[P].ptrs) = Len(g[P].keys) + 1 /\ Len(g[P].keys) \in Nat
<1> DEFINE ks == g[P].keys
           ps == g[P].ptrs
<1>1. /\ l \in DOMAIN g /\ r \in DOMAIN g /\ P \in DOMAIN g /\ ~g[P].leaf
      /\ at \in 1..Len(ks) /\ ps[at] = l /\ ps[at + 1] = r
      /\ B \in [DOMAIN g -> SUBSET Int] /\ \A p \in DOMAIN g : PageOrdered(g[p], B, B[p])
  BY DEF Neighboured, Ordered
<1>2. RowKeyed(ks, ps, B, B[P]) /\ B[P] \subseteq Int
  BY <1>1, ChildrenIn
<1>3. B[l] \subseteq Int /\ B[r] \subseteq Int /\ PageOrdered(g[l], B, B[l]) /\ PageOrdered(g[r], B, B[r])
  BY <1>1
<1> HIDE DEF ks, ps
<1>4. /\ Len(ps) = Len(ks) + 1 /\ Len(ks) \in Nat /\ ks[at] \in Int
      /\ \A i \in 1..Len(ps) : \A k \in B[ps[i]] : Amid(ks, i, k)
  BY <1>1, <1>2 DEF RowKeyed, Rising
<1>5. at \in 1..Len(ps) /\ at + 1 \in 1..Len(ps) /\ at + 1 > 1 /\ at <= Len(ks) /\ at + 1 - 1 = at
  BY <1>1, <1>4
<1>6. \A k \in B[l] : k <= ks[at]
  BY <1>1, <1>4, <1>5 DEF Amid
<1>7. \A k \in B[r] : ks[at] <= k
  BY <1>1, <1>4, <1>5 DEF Amid
<1> QED BY <1>3, <1>4, <1>6, <1>7 DEF ks, ps

\* Neighbours merged.
LEMMA SheetMerged ==
  ASSUME NEW g, NEW B, Ordered(g, B), NEW P, NEW at, NEW l, NEW r, Neighboured(g, P, at, l, r),
         NEW h, DOMAIN h = DOMAIN g \ {r},
         \A q \in DOMAIN g : q # l /\ q # r /\ q # P => h[q] = g[q],
         ~h[P].leaf, IsRemoval(h[P].keys, g[P].keys, at), IsRemoval(h[P].ptrs, g[P].ptrs, at + 1),
         Merges(h[l], g[l], g[P].keys[at], g[r])
  PROVE  Ordered(h, JoinedKeys(g, B, P, at, l, r))
<1>1. PageOrdered(h[l], B, B[l] \cup {g[P].keys[at]} \cup B[r])
  BY NeighboursApart, PageMerged
<1>2. ASSUME ~h[l].leaf, NEW i \in 1..Len(h[l].ptrs)
      PROVE  h[l].ptrs[i] # l /\ h[l].ptrs[i] # r
  <2> DEFINE a == g[l].ptrs
             b == g[r].ptrs
             z == h[l].ptrs
  <2>1. /\ ~g[l].leaf /\ ~g[r].leaf /\ Parts(z, a, b)
        /\ Len(a) = Len(g[l].keys) + 1 /\ Len(b) = Len(g[r].keys) + 1
    BY <1>2 DEF Merges, Divided
  <2>2. Len(a) \in Nat /\ Len(b) \in Nat
    <3>1. RowKeyed(g[l].keys, a, B, B[l]) /\ RowKeyed(g[r].keys, b, B, B[r])
      BY <2>1, NeighboursApart, ChildrenIn
    <3> QED BY <2>1, <3>1 DEF RowKeyed, Rising
  <2>3. (i \in 1..Len(a) /\ z[i] = a[i]) \/ (i - Len(a) \in 1..Len(b) /\ z[i] = b[i - Len(a)])
    <3> HIDE DEF a, b, z
    <3>1. Len(z) = Len(a) + Len(b) /\ i \in 1..Len(z)
      BY <1>2, <2>1 DEF Parts, z
    <3>2. i \in 1..Len(a) \/ (i - Len(a) \in 1..Len(b) /\ Len(a) + (i - Len(a)) = i)
      BY <2>2, <3>1
    <3> QED BY <2>1, <3>2 DEF Parts
  <2> QED BY <2>1, <2>3 DEF Neighboured
<1>3. JoinedBelow(g, h, B, P, at, l, r)
  BY <1>1, <1>2 DEF JoinedBelow, Neighboured
<1> QED BY <1>3, SheetJoined

\* Part of one neighbour moved to the other: the pages are merged to z, and divided at another
\* place.
MovedOver(g, h, P, at, l, r, s, z) ==
  /\ DOMAIN h = DOMAIN g /\ \A q \in DOMAIN g : q # l /\ q # r /\ q # P => h[q] = g[q]
  /\ ~h[P].leaf /\ h[P].ptrs = g[P].ptrs
  /\ Len(h[P].keys) = Len(g[P].keys) /\ h[P].keys[at] = s
  /\ \A i \in 1..Len(g[P].keys) : i # at => h[P].keys[i] = g[P].keys[i]
  /\ Merges(z, g[l], g[P].keys[at], g[r]) /\ Splits(z, h[l], s, h[r])

\* Moving keys over between two neighbours and resetting their separator keeps the order.
LEMMA SheetShifted ==
  ASSUME NEW g, NEW B, Ordered(g, B), NEW P, NEW at, NEW l, NEW r, Neighboured(g, P, at, l, r),
         NEW h, NEW s, NEW z, MovedOver(g, h, P, at, l, r, s, z)
  PROVE  \E C : Ordered(h, C)
<1> DEFINE ks == g[P].keys
           ps == g[P].ptrs
           rk == [i \in 1..Len(ks) - 1 |-> IF i < at THEN ks[i] ELSE ks[i + 1]]
           rp == [i \in 1..Len(ps) - 1 |-> IF i < at + 1 THEN ps[i] ELSE ps[i + 1]]
           n == [leaf |-> FALSE, keys |-> rk, ptrs |-> rp]
           f == [q \in DOMAIN g \ {r} |-> IF q = l THEN z ELSE IF q = P THEN n ELSE g[q]]
           C == JoinedKeys(g, B, P, at, l, r)
<1>1. /\ Len(ps) = Len(ks) + 1 /\ Len(ks) \in Nat /\ at \in 1..Len(ks)
      /\ l \in DOMAIN g /\ r \in DOMAIN g /\ P \in DOMAIN g /\ l # r /\ P # l /\ P # r
      /\ ps[at] = l /\ ps[at + 1] = r
  <2>1. Len(ps) = Len(ks) + 1 /\ Len(ks) \in Nat
    BY NeighboursApart
  <2> QED BY <2>1 DEF Neighboured
<1>2. IsRemoval(rk, ks, at) /\ IsRemoval(rp, ps, at + 1)
  <2>1. Len(ks) - 1 \in Nat /\ Len(ps) - 1 \in Nat
    BY <1>1
  <2> HIDE DEF ks, ps
  <2> QED BY <2>1 DEF IsRemoval
<1>3. f[P] = n /\ f[l] = z /\ DOMAIN f = DOMAIN g \ {r} /\ \A q \in DOMAIN g : q # l /\ q # r /\ q # P => f[q] = g[q]
  BY <1>1
<1>4. n.leaf = FALSE /\ n.keys = rk /\ n.ptrs = rp
  OBVIOUS
<1> HIDE DEF f, n, rk, rp
<1>5. Ordered(f, C)
  <2>1. IsRemoval(f[P].keys, g[P].keys, at) /\ IsRemoval(f[P].ptrs, g[P].ptrs, at + 1) /\ ~f[P].leaf
        /\ Merges(f[l], g[l], g[P].keys[at], g[r])
    BY <1>2, <1>3, <1>4 DEF MovedOver
  <2> QED BY <1>3, <2>1, SheetMerged
<1>6. C[l] \subseteq Int /\ PageOrdered(z, C, C[l])
  BY <1>1, <1>3, <1>5 DEF Ordered
<1>7. s \in C[l] /\ PageOrdered(h[l], C, UpTo(C[l], s)) /\ PageOrdered(h[r], C, From(C[l], s))
  BY <1>6, PageDivides DEF MovedOver
<1> HIDE DEF C
<1>8. IsInsertion(h[P].keys, rk, at, s)
  <2> DEFINE hk == h[P].keys
  <2>1. Len(rk) = Len(ks) - 1 /\ \A i \in 1..Len(ks) - 1 : rk[i] = IF i < at THEN ks[i] ELSE ks[i + 1]
    BY <1>2 DEF IsRemoval
  <2>2. Len(hk) = Len(ks) /\ hk[at] = s /\ \A i \in 1..Len(ks) : i # at => hk[i] = ks[i]
    BY DEF MovedOver
  <2> HIDE DEF hk, ks
  <2>3. ASSUME NEW i \in 1..Len(ks) PROVE (i < at => hk[i] = rk[i]) /\ (i > at => hk[i] = rk[i - 1])
    <3>1. i < at => i \in 1..Len(ks) - 1 /\ i # at
      BY <1>1, <2>3
    <3>2. i > at => i - 1 \in 1..Len(ks) - 1 /\ ~(i - 1 < at) /\ i - 1 + 1 = i /\ i # at
      BY <1>1, <2>3
    <3> QED BY <2>1, <2>2, <3>1, <3>2
  <2>4. Len(rk) + 1 = Len(ks)
    BY <1>1, <2>1
  <2> QED BY <2>2, <2>3, <2>4 DEF IsInsertion, hk
<1>9. IsInsertion(h[P].ptrs, rp, at + 1, r)
  <2>1. Len(rp) = Len(ps) - 1 /\ \A i \in 1..Len(ps) - 1 : rp[i] = IF i < at + 1 THEN ps[i] ELSE ps[i + 1]
    BY <1>2 DEF IsRemoval
  <2>2. h[P].ptrs = ps
    BY DEF MovedOver
  <2> HIDE DEF ps, ks
  <2>3. ASSUME NEW i \in 1..Len(ps)
        PROVE (i < at + 1 => ps[i] = rp[i]) /\ (i > at + 1 => ps[i] = rp[i - 1])
    <3>1. i < at + 1 => i \in 1..Len(ps) - 1
      BY <1>1, <2>3
    <3>2. i > at + 1 => i - 1 \in 1..Len(ps) - 1 /\ ~(i - 1 < at + 1) /\ i - 1 + 1 = i
      BY <1>1, <2>3
    <3> QED BY <2>1, <2>2, <3>1, <3>2
  <2>4. Len(rp) + 1 = Len(ps)
    BY <1>1, <2>1
  <2> QED BY <1>1, <2>2, <2>3, <2>4 DEF IsInsertion
<1>10. at \in 1..Len(rp) /\ rp[at] = l
  <2>1. Len(rp) = Len(ks) /\ rp[at] = ps[at]
    <3>1. Len(rp) = Len(ps) - 1 /\ \A i \in 1..Len(ps) - 1 : rp[i] = IF i < at + 1 THEN ps[i] ELSE ps[i + 1]
      BY <1>2 DEF IsRemoval
    <3>2. Len(ps) - 1 = Len(ks) /\ at \in 1..Len(ps) - 1 /\ at < at + 1
      BY <1>1
    <3> QED BY <3>1, <3>2
  <2> QED BY <1>1, <2>1
<1>11. DividedBelow(f, h, C, P, at, l, r, s)
  <2>1. DOMAIN h = DOMAIN f \cup {r} /\ r \notin DOMAIN f /\ l \in DOMAIN f /\ P \in DOMAIN f
    BY <1>1, <1>3 DEF MovedOver
  <2>2. \A q \in DOMAIN f : q # l /\ q # P => h[q] = f[q]
    BY <1>1, <1>3 DEF MovedOver
  <2>3. ~f[P].leaf /\ f[P].keys = rk /\ f[P].ptrs = rp
    BY <1>3, <1>4
  <2>4. ~h[P].leaf
    BY DEF MovedOver
  <2> QED BY <1>1, <1>7, <1>8, <1>9, <1>10, <2>1, <2>2, <2>3, <2>4 DEF DividedBelow
<1> QED BY <1>5, <1>11, SheetDivided

\* The pages L of a file, with page 0 above the root.
Sheet(ns, root, L) ==
  [p \in L \cup {0} |-> IF p = 0 THEN Internal(<< >>, <<root>>) ELSE ns[p]]

\* The pages L are in key order.
SheetInOrder(ns, root, L) == \E B : Ordered(Sheet(ns, root, L), B)

\* Some pages of the file, from the root down, are in key order.
InOrder(ns, root) == \E L : L \subseteq 1..Len(ns) /\ root \in L /\ SheetInOrder(ns, root, L)

\* The pages that pages in order point to are in order too.
LEMMA OrderedKids ==
  ASSUME NEW ns, NEW lev, Leveled(ns, lev), NEW root, NEW L, L \subseteq 1..Len(ns), root \in L,
         NEW B, Ordered(Sheet(ns, root, L), B), NEW p \in L, ~ns[p].leaf,
         NEW i \in 1..Len(ns[p].ptrs)
  PROVE  ns[p].ptrs[i] \in L
<1> DEFINE g == Sheet(ns, root, L)
<1>1. 0 \notin L /\ p \in 1..Len(ns)
  BY DEF Leveled
<1> HIDE DEF g
<1>2. DOMAIN g = L \cup {0} /\ g[p] = ns[p] /\ p \in DOMAIN g
  BY <1>1 DEF g, Sheet, Internal
<1>3. B \in [DOMAIN g -> SUBSET Int] /\ PageOrdered(g[p], B, B[p])
  BY <1>2 DEF Ordered, g
<1>4. ns[p].ptrs[i] \in DOMAIN B
  BY <1>2, <1>3, ChildrenIn
<1>5. ns[p].ptrs[i] \in 1..Len(ns)
  BY <1>1, PageIs
<1> QED BY <1>2, <1>3, <1>4, <1>5

\* The pages of a picture are among them.
LEMMA PictureWithin ==
  ASSUME NEW ns, NEW lev, Leveled(ns, lev), NEW root, NEW L, NEW H, Picture(ns, root, L, H),
         NEW M, M \subseteq 1..Len(ns), root \in M, NEW B, Ordered(Sheet(ns, root, M), B)
  PROVE  L \subseteq M
<1>1. L \subseteq 1..Len(ns) /\ root \in L
  BY PictureKids
<1>2. \A q \in L : lev[q] \in Nat /\ lev[q] <= lev[root]
  <2>1. \A q \in L : lev[q] \in Nat
    BY <1>1 DEF Leveled
  <2>2. \A q \in L : q # root => lev[q] < lev[root]
    BY TopLevel
  <2> QED BY <1>1, <2>1, <2>2
<1> DEFINE Good == {k \in Nat : \A q \in L : lev[q] >= lev[root] - k => q \in M}
<1>3. 0 \in Good
  <2>1. ASSUME NEW q \in L, lev[q] >= lev[root] - 0 PROVE q \in M
    <3>1. q = root
      BY <1>1, <1>2, <2>1, TopLevel
    <3> QED BY <3>1
  <2> QED BY <2>1
<1>4. ASSUME NEW k \in Nat, k \in Good PROVE k + 1 \in Good
  <2>1. ASSUME NEW q \in L, lev[q] >= lev[root] - (k + 1), q # root PROVE q \in M
    <3>1. PICK p \in L : ~ns[p].leaf /\ q \in Kids(ns[p]) /\ lev[p] = lev[q] + 1
      BY <2>1, ParentIs
    <3>2. lev[p] >= lev[root] - k
      BY <1>1, <1>2, <2>1, <3>1
    <3>3. p \in M /\ p \in 1..Len(ns)
      BY <1>1, <1>4, <3>2
    <3>4. Kids(ns[p]) = InSeq(ns[p].ptrs) /\ InternalFits(ns[p])
      BY <3>1, <3>3, PageIs
    <3>5. PICK i \in DOMAIN ns[p].ptrs : ns[p].ptrs[i] = q
      BY <3>1, <3>4 DEF InSeq
    <3>6. i \in 1..Len(ns[p].ptrs)
      BY <3>4, <3>5 DEF InternalFits
    <3> QED BY <3>1, <3>3, <3>5, <3>6, OrderedKids
  <2> QED BY <2>1, <1>4
<1> HIDE DEF Good
<1>5. \A k \in Nat : k \in Good
  BY <1>3, <1>4, Induct
<1>6. ASSUME NEW q \in L PROVE q \in M
  <2>1. lev[root] \in Nat /\ lev[q] >= lev[root] - lev[root]
    BY <1>1, <1>2
  <2>2. lev[root] \in Good
    BY <1>5, <2>1
  <2> QED BY <2>1, <2>2 DEF Good
<1> QED BY <1>6

\* So the pages of a picture are in order when any pages from the root down are.
LEMMA PictureInOrder ==
  ASSUME NEW ns, NEW lev, Leveled(ns, lev), NEW root, NEW L, NEW H, Picture(ns, root, L, H),
         InOrder(ns, root)
  PROVE  SheetInOrder(ns, root, L)
<1>1. PICK M, B : M \subseteq 1..Len(ns) /\ root \in M /\ Ordered(Sheet(ns, root, M), B)
  BY DEF InOrder, SheetInOrder
<1>2. L \subseteq M
  BY <1>1, PictureWithin
<1>3. /\ L \subseteq 1..Len(ns) /\ root \in L /\ 0 \notin L /\ 0 \notin M
      /\ \A p \in L : ~ns[p].leaf => \A i \in 1..Len(ns[p].ptrs) : ns[p].ptrs[i] \in L
  BY <1>1, PictureKids
<1> DEFINE g == Sheet(ns, root, M)
           h == Sheet(ns, root, L)
<1>5. h[0] = g[0]
  BY DEF Sheet
<1> HIDE DEF g, h
<1>9. DOMAIN g = M \cup {0} /\ \A p \in M : g[p] = ns[p]
  BY <1>3 DEF g, Sheet, Internal
<1>4. /\ DOMAIN h = L \cup {0} /\ DOMAIN g = M \cup {0}
      /\ h[0].leaf = FALSE /\ h[0].keys = << >> /\ h[0].ptrs = <<root>>
      /\ \A p \in M : g[p] = ns[p]
      /\ \A p \in L : h[p] = ns[p]
  <2>1. /\ DOMAIN h = L \cup {0} /\ \A p \in L : h[p] = ns[p]
        /\ h[0].leaf = FALSE /\ h[0].keys = << >> /\ h[0].ptrs = <<root>>
    BY <1>3 DEF h, Sheet, Internal
  <2> QED BY <1>9, <2>1
<1>6. DOMAIN h \subseteq DOMAIN g /\ \A p \in DOMAIN h : h[p] = g[p]
  BY <1>2, <1>4, <1>5
<1>7. ASSUME NEW p \in DOMAIN h, ~h[p].leaf, NEW i \in 1..Len(h[p].ptrs)
      PROVE  h[p].ptrs[i] \in DOMAIN h
  <2>1. CASE p = 0
    <3>1. h[p].ptrs = <<root>>
      BY <1>4, <2>1
    <3>2. Len(<<root>>) = 1
      OBVIOUS
    <3>3. i = 1
      BY <1>7, <3>1, <3>2
    <3> QED BY <1>3, <1>4, <3>1, <3>3
  <2>2. CASE p \in L
    BY <1>3, <1>4, <1>7, <2>2
  <2> QED BY <1>4, <2>1, <2>2
<1>8. Ordered(h, [p \in DOMAIN h |-> B[p]])
  BY <1>1, <1>6, <1>7, SheetOfFewer DEF g
<1> QED BY <1>8 DEF SheetInOrder, h

\* A page of a picture is pointed to at one place.
LEMMA PointedOnce ==
  ASSUME NEW ns, NEW root, NEW L, NEW H, Picture(ns, root, L, H),
         NEW g, g = Sheet(ns, root, L),
         NEW p \in DOMAIN g, ~g[p].leaf, NEW i \in 1..Len(g[p].ptrs),
         NEW q \in DOMAIN g, ~g[q].leaf, NEW j \in 1..Len(g[q].ptrs), g[p].ptrs[i] = g[q].ptrs[j]
  PROVE  p = q /\ i = j
<1>1. PICK kids, right, held : /\ Frame(L, kids, right, held, H) /\ kids[0] = <<root>>
                               /\ \A x \in L : Shows(ns, kids, right, held, x)
  BY DEF Picture
<1>2. Placed(L, kids) /\ 0 \notin L
  BY <1>1, PictureKids DEF Frame
<1>3. /\ DOMAIN g = L \cup {0} /\ g[0].ptrs = <<root>>
      /\ \A x \in L : g[x] = ns[x]
  BY <1>2 DEF Sheet, Internal
<1>4. ASSUME NEW x \in DOMAIN g, ~g[x].leaf PROVE x \in L \cup {0} /\ kids[x] = g[x].ptrs
  <2>1. CASE x = 0
    BY <1>1, <1>3, <2>1
  <2>2. CASE x \in L
    BY <1>1, <1>3, <1>4, <2>2 DEF Shows
  <2> QED BY <1>3, <1>4, <2>1, <2>2
<1>5. p \in L \cup {0} /\ kids[p] = g[p].ptrs /\ q \in L \cup {0} /\ kids[q] = g[q].ptrs
  BY <1>4
<1> QED BY <1>2, <1>5 DEF Placed

\* The first hit is one, and none is before it.
FirstOf(n, hits) == IF hits = {} THEN n + 1 ELSE CHOOSE i \in hits : \A j \in hits : i <= j

\* A search that ends is at a hit or past the end, and has passed no hit.
LEMMA FirstHit ==
  ASSUME NEW n \in Nat, NEW hits, hits \subseteq 1..n
  PROVE  /\ FirstOf(n, hits) \in 1..n + 1 /\ (FirstOf(n, hits) <= n => FirstOf(n, hits) \in hits)
         /\ \A i \in 1..n : i < FirstOf(n, hits) => i \notin hits
<1> DEFINE at == FirstOf(n, hits)
<1>4. at = IF hits = {} THEN n + 1 ELSE CHOOSE i \in hits : \A j \in hits : i <= j
  BY DEF FirstOf
<1> HIDE DEF at
<1>1. at \in 1..n + 1
  BY <1>4, FirstIs
<1>2. CASE hits = {}
  <2>1. at = n + 1
    BY <1>2, <1>4, Zenon
  <2> QED BY <1>1, <1>2, <2>1 DEF at
<1>3. CASE hits # {}
  <2>1. at = CHOOSE i \in hits : \A j \in hits : i <= j
    BY <1>3, <1>4, Zenon
  <2>2. hits \subseteq Nat
    OBVIOUS
  <2>3. \E i \in hits : \A j \in hits : i <= j
    BY <1>3, <2>2, LeastOf
  <2>4. at \in hits /\ \A j \in hits : at <= j
    BY <2>1, <2>3, Zenon
  <2>5. \A i \in 1..n : i < at => i \notin hits
    BY <1>1, <2>4
  <2> QED BY <1>1, <2>4, <2>5 DEF at
<1> QED BY <1>2, <1>3

\* Where findInsertPos puts a key: in front of the first larger one.
LEMMA InsertHit ==
  ASSUME NEW s, s \in Seq(Int), NEW key \in Int
  PROVE  /\ findInsertPos(s, key) \in 1..Len(s) + 1
         /\ findInsertPos(s, key) <= Len(s) => key < s[findInsertPos(s, key)]
         /\ \A i \in 1..Len(s) : i < findInsertPos(s, key) => s[i] <= key
<1> DEFINE keys == s
           hits == {i \in DOMAIN keys : key < keys[i]}
           at   == findInsertPos(keys, key)
<1>1. Len(keys) \in Nat /\ hits \subseteq 1..Len(keys) /\ DOMAIN keys = 1..Len(keys)
  OBVIOUS
<1>2. at = FirstOf(Len(keys), hits)
  BY DEF findInsertPos, FirstKey, FirstOf
<1>3. \A i \in 1..Len(keys) : keys[i] \in Int /\ (i \in hits <=> key < keys[i])
  OBVIOUS
<1> HIDE DEF hits, at, keys
<1>4. /\ at \in 1..Len(keys) + 1 /\ (at <= Len(keys) => at \in hits)
      /\ \A i \in 1..Len(keys) : i < at => i \notin hits
  BY <1>1, <1>2, FirstHit
<1>5. at <= Len(keys) => key < keys[at]
  <2>1. at <= Len(keys) => at \in 1..Len(keys)
    BY <1>1, <1>4
  <2> QED BY <1>3, <1>4, <2>1
<1>6. \A i \in 1..Len(keys) : i < at => keys[i] <= key
  BY <1>3, <1>4
<1> QED BY <1>4, <1>5, <1>6 DEF at, keys

\* So it returns the place of a key in a row in order.
LEMMA InsertPlace ==
  ASSUME NEW s, s \in Seq(Int), \A i, j \in 1..Len(s) : i <= j => s[i] <= s[j],
         NEW key \in Int
  PROVE  /\ findInsertPos(s, key) \in 1..Len(s) + 1
         /\ \A i \in 1..Len(s) : /\ i < findInsertPos(s, key) => s[i] <= key
                                 /\ i >= findInsertPos(s, key) => key <= s[i]
<1> DEFINE at == findInsertPos(s, key)
<1>1. /\ at \in 1..Len(s) + 1 /\ (at <= Len(s) => key < s[at])
      /\ \A i \in 1..Len(s) : i < at => s[i] <= key
  BY InsertHit
<1>2. Len(s) \in Nat /\ \A i \in 1..Len(s) : s[i] \in Int
  BY SeqFacts
<1> HIDE DEF at
<1>6. ASSUME NEW i \in 1..Len(s), i >= at PROVE key <= s[i]
  <2>1. at \in 1..Len(s) /\ at <= Len(s)
    BY <1>1, <1>2, <1>6
  <2>2. s[at] <= s[i] /\ key < s[at] /\ s[at] \in Int /\ s[i] \in Int
    BY <1>1, <1>2, <1>6, <2>1
  <2> QED BY <2>2
<1> QED BY <1>1, <1>6 DEF at

\* The child an insertion descends to is one the key has a place below.
LEMMA ChildAmid ==
  ASSUME NEW n, n.keys \in Seq(Int), NEW key \in Int
  PROVE  /\ findInternalChildIds(n, key) \in 1..Len(n.keys) + 1
         /\ Amid(n.keys, findInternalChildIds(n, key), key)
<1> DEFINE keys == n.keys
           hits == {i \in DOMAIN keys : key < keys[i]}
           at   == findInternalChildIds(n, key)
<1>1. Len(keys) \in Nat /\ hits \subseteq 1..Len(keys) /\ DOMAIN keys = 1..Len(keys)
  OBVIOUS
<1>2. at = FirstOf(Len(keys), hits)
  BY DEF findInternalChildIds, FirstKey, FirstOf
<1>3. \A i \in 1..Len(keys) : keys[i] \in Int /\ (i \in hits <=> key < keys[i])
  OBVIOUS
<1> HIDE DEF hits, at, keys
<1>4. /\ at \in 1..Len(keys) + 1 /\ (at <= Len(keys) => at \in hits)
      /\ \A i \in 1..Len(keys) : i < at => i \notin hits
  BY <1>1, <1>2, FirstHit
<1>5. at > 1 => keys[at - 1] <= key
  <2> SUFFICES ASSUME at > 1 PROVE keys[at - 1] <= key
    OBVIOUS
  <2>1. at - 1 \in 1..Len(keys) /\ at - 1 < at
    BY <1>1, <1>4
  <2> QED BY <1>3, <1>4, <2>1
<1>6. at <= Len(keys) => key <= keys[at]
  <2> SUFFICES ASSUME at <= Len(keys) PROVE key <= keys[at]
    OBVIOUS
  <2>1. at \in 1..Len(keys)
    BY <1>1, <1>4
  <2>2. key < keys[at] /\ keys[at] \in Int
    BY <1>3, <1>4, <2>1
  <2> QED BY <2>2
<1>7. Amid(keys, at, key)
  BY <1>5, <1>6 DEF Amid
<1> QED BY <1>4, <1>7 DEF at, keys

\* A key is put below the pages of the walk to it.
WalkPages(w, n) == {0} \cup {w[i] : i \in 1..n}

\* The pages of the walk to a key are pages where it has a place.
LEMMA WalkEntered ==
  ASSUME NEW ns, NEW lev, Leveled(ns, lev), NEW pick, Picks(ns, pick),
         NEW root, NEW L, NEW H, Picture(ns, root, L, H),
         NEW w, Walk(ns, lev, pick, root, w), NEW key \in Int, Keys \subseteq Int,
         \A p \in 1..Len(ns) : ~ns[p].leaf => pick[p] = findInternalChildIds(ns[p], key)
  PROVE  Entered(Sheet(ns, root, L), WalkPages(w, lev[root] + 1), key)
<1> DEFINE g == Sheet(ns, root, L)
           n == lev[root]
           W == WalkPages(w, n + 1)
<1>1. L \subseteq 1..Len(ns) /\ root \in L /\ 0 \notin L /\ n \in Nat
  BY PictureKids DEF Leveled
<1>2. /\ \A i \in 1..n + 1 : w[i] \in 1..Len(ns) /\ lev[w[i]] = n + 1 - i
      /\ \A i \in 1..n : w[i + 1] = ns[w[i]].ptrs[pick[w[i]]]
      /\ w[1] = root
  BY DEF Walk
<1>3. /\ \A i \in 1..n + 1 : w[i] \in L
      /\ \A i \in 1..n : ChildOf(ns, root, L, w[i], pick[w[i]], w[i + 1])
      /\ \A i \in 1..n : ~ns[w[i]].leaf
  BY WalkDrawn
<1> HIDE DEF n, g
<1>4. /\ DOMAIN g = L \cup {0} /\ \A p \in L : g[p] = ns[p]
      /\ g[0].leaf = FALSE /\ g[0].keys = << >> /\ g[0].ptrs = <<root>>
  BY <1>1 DEF g, Sheet, Internal
<1>5. W \subseteq DOMAIN g /\ 0 \in W
  BY <1>3, <1>4 DEF WalkPages
<1>6. ASSUME NEW p \in DOMAIN g, ~g[p].leaf, NEW i \in 1..Len(g[p].ptrs), g[p].ptrs[i] \in W
      PROVE  p \in W /\ Amid(g[p].keys, i, key)
  <2>1. g[p].ptrs[i] # 0
    <3>1. CASE p = 0
      <4>1. Len(<<root>>) = 1
        OBVIOUS
      <4>2. i = 1
        BY <1>4, <1>6, <3>1, <4>1
      <4> QED BY <1>1, <1>4, <3>1, <4>2
    <3>2. CASE p \in L
      BY <1>1, <1>4, <1>6, <3>2, PictureKids
    <3> QED BY <1>4, <3>1, <3>2
  <2>2. PICK m \in 1..n + 1 : w[m] = g[p].ptrs[i]
    BY <1>6, <2>1 DEF WalkPages
  <2>3. CASE m = 1
    <3>1. 1 \in 1..Len(g[0].ptrs) /\ g[0].ptrs[1] = root /\ 0 \in DOMAIN g /\ ~g[0].leaf
      BY <1>4
    <3>2. p = 0 /\ i = 1
      BY <1>2, <1>6, <2>2, <2>3, <3>1, PointedOnce DEF g
    <3> QED BY <1>4, <1>5, <3>2 DEF Amid
  <2>4. CASE m # 1
    <3>1. m - 1 \in 1..n /\ m - 1 \in 1..n + 1 /\ (m - 1) + 1 = m
      BY <1>1, <2>4
    <3> DEFINE q == w[m - 1]
               j == pick[q]
    <3>2. q \in L /\ ~ns[q].leaf /\ w[m] = ns[q].ptrs[j] /\ q \in 1..Len(ns)
      BY <1>2, <1>3, <3>1
    <3>3. j \in 1..Len(ns[q].ptrs)
      BY <3>2 DEF Picks
    <3>4. q \in DOMAIN g /\ ~g[q].leaf /\ j \in 1..Len(g[q].ptrs) /\ g[p].ptrs[i] = g[q].ptrs[j]
      BY <1>4, <2>2, <3>2, <3>3
    <3> HIDE DEF j, q
    <3>5. p = q /\ i = j
      BY <1>6, <3>4, PointedOnce DEF g
    <3>6. j = findInternalChildIds(ns[q], key)
      BY <3>2 DEF j
    <3>7. InternalFits(ns[q])
      BY <3>2, PageIs
    <3>8. ns[q].keys \in Seq(Int)
      <4> DEFINE ks == ns[q].keys
      <4>1. ks \in Seq(Keys)
        BY <3>7, InternalPage
      <4> HIDE DEF ks
      <4>2. \A x \in 1..Len(ks) : ks[x] \in Int
        <5>1. \A x \in 1..Len(ks) : ks[x] \in Keys
          BY <4>1, SeqFacts
        <5> QED BY <5>1
      <4>3. ks \in Seq(Int)
        BY <4>1, <4>2, SeqIn
      <4> QED BY <4>3 DEF ks
    <3>9. Amid(ns[q].keys, j, key)
      BY <3>6, <3>8, ChildAmid
    <3>10. q \in W
      BY <3>1 DEF WalkPages, q
    <3> QED BY <1>4, <3>2, <3>5, <3>9, <3>10
  <2> QED BY <2>3, <2>4
<1>7. Entered(g, W, key)
  BY <1>5, <1>6 DEF Entered
<1> QED BY <1>7 DEF g, n

\* Page P, or page 0, told of the new page x behind its child j, and the separator s.
KeysAt(ns, P) == IF P = 0 THEN << >> ELSE ns[P].keys

ToldRow(ns, root, P, j, s, x) ==
  Internal(InsertAt(KeysAt(ns, P), j, s), InsertAt(Above(ns, root, P), j + 1, x))

ToldSheet(ns, root, L, P, j, s, x) ==
  [Sheet(ns, root, L) EXCEPT ![P] = ToldRow(ns, root, P, j, s, x)]

\* The keys and pointers of page P, or page 0.
LEMMA RowAbove ==
  ASSUME NEW ns, NEW root \in Nat, NEW P, P # 0 => InternalFits(ns[P]), Keys \subseteq Int
  PROVE  /\ KeysAt(ns, P) \in Seq(Int) /\ Above(ns, root, P) \in Seq(Nat)
         /\ Len(Above(ns, root, P)) = Len(KeysAt(ns, P)) + 1 /\ Len(KeysAt(ns, P)) \in Nat
<1>1. CASE P = 0
  BY <1>1 DEF KeysAt, Above
<1>2. CASE P # 0
  <2> DEFINE ks == ns[P].keys
             ps == ns[P].ptrs
  <2>1. ks \in Seq(Keys) /\ ps \in Seq(Nat) /\ Len(ps) = Len(ks) + 1 /\ Len(ks) \in Nat
    BY <1>2, InternalPage
  <2>2. KeysAt(ns, P) = ks /\ Above(ns, root, P) = ps
    BY <1>2 DEF KeysAt, Above
  <2> HIDE DEF ks, ps
  <2>3. \A i \in 1..Len(ks) : ks[i] \in Keys
    BY <2>1, SeqFacts
  <2>4. ks \in Seq(Int)
    BY <2>1, <2>3, SeqIn
  <2> QED BY <2>1, <2>2, <2>4
<1> QED BY <1>1, <1>2

\* What page P is told.
LEMMA ToldIs ==
  ASSUME NEW ns, NEW root \in Nat, NEW P, P # 0 => InternalFits(ns[P]), Keys \subseteq Int,
         NEW j \in 1..Len(Above(ns, root, P)), NEW s \in Int, NEW x \in Nat
  PROVE  /\ ToldRow(ns, root, P, j, s, x).leaf = FALSE
         /\ IsInsertion(ToldRow(ns, root, P, j, s, x).keys, KeysAt(ns, P), j, s)
         /\ IsInsertion(ToldRow(ns, root, P, j, s, x).ptrs, Above(ns, root, P), j + 1, x)
         /\ ToldRow(ns, root, P, j, s, x).keys \in Seq(Int)
         /\ ToldRow(ns, root, P, j, s, x).ptrs \in Seq(Nat)
<1> DEFINE ks == KeysAt(ns, P)
           ps == Above(ns, root, P)
           u  == InsertAt(ks, j, s)
           v  == InsertAt(ps, j + 1, x)
           r  == ToldRow(ns, root, P, j, s, x)
<1>1. ks \in Seq(Int) /\ ps \in Seq(Nat) /\ Len(ps) = Len(ks) + 1 /\ Len(ks) \in Nat
  BY RowAbove
<1>2. r.leaf = FALSE /\ r.keys = u /\ r.ptrs = v
  BY DEF ToldRow, Internal
<1> HIDE DEF ks, ps, u, v, r
<1>3. j \in 1..Len(ks) + 1 /\ j + 1 \in 1..Len(ps) + 1
  BY <1>1 DEF ps
<1>4. u \in Seq(Int) /\ IsInsertion(u, ks, j, s)
  BY <1>1, <1>3, InsertionIs, Zenon DEF u
<1>5. v \in Seq(Nat) /\ IsInsertion(v, ps, j + 1, x)
  BY <1>1, <1>3, InsertionIs, Zenon DEF v
<1> QED BY <1>2, <1>4, <1>5 DEF ks, ps, r

\* Page c of the sheet g divided, and page P above it, or the top, told of it.
LEMMA SplitTold ==
  ASSUME NEW ns, NEW root \in Nat, NEW L, L \subseteq 1..Len(ns), Keys \subseteq Int,
         NEW P, NEW j, NEW c, ChildOf(ns, root, L, P, j, c), P # 0 => InternalFits(ns[P]),
         NEW new, Grew(ns, new, c), NEW x, x = Len(ns) + 1,
         NEW g, DOMAIN g = L \cup {0}, \A q \in L \cup {0} : q # c => g[q] = Sheet(ns, root, L)[q],
         NEW B, Ordered(g, B), NEW s, Splits(g[c], new[c], s, new[x])
  PROVE  \E C : Ordered(ToldSheet(new, root, L \cup {x}, P, j, s, x), C)
<1> DEFINE ks == KeysAt(ns, P)
           ps == Above(ns, root, P)
           M  == L \cup {x}
           r  == ToldRow(new, root, P, j, s, x)
           h  == ToldSheet(new, root, M, P, j, s, x)
<1>1. /\ P \in L \cup {0} /\ P # c /\ c \in L /\ j \in 1..Len(ps) /\ ps[j] = c
      /\ Len(ns) \in Nat /\ x \in Nat /\ x \notin L /\ x # 0 /\ 0 \notin L
  BY DEF ChildOf, Grew
<1>2. \A q \in L : q # c => new[q] = ns[q]
  BY DEF Grew
<1>3. KeysAt(new, P) = ks /\ Above(new, root, P) = ps /\ (P # 0 => InternalFits(new[P]))
  BY <1>1, <1>2 DEF KeysAt, Above
<1>4. B[c] \subseteq Int /\ PageOrdered(g[c], B, B[c]) /\ c \in DOMAIN g
  BY <1>1 DEF Ordered
<1>5. /\ s \in B[c] /\ PageOrdered(new[c], B, UpTo(B[c], s))
      /\ PageOrdered(new[x], B, From(B[c], s)) /\ s \in Int
  BY <1>4, PageDivides
<1>6. /\ r.leaf = FALSE /\ IsInsertion(r.keys, ks, j, s) /\ IsInsertion(r.ptrs, ps, j + 1, x)
  <2> DEFINE ka == KeysAt(new, P)
             pa == Above(new, root, P)
  <2>1. j \in 1..Len(Above(new, root, P))
    BY <1>1, <1>3
  <2>2. P # 0 => InternalFits(new[P])
    BY <1>3
  <2> HIDE DEF r, ks, ps
  <2>3. /\ ToldRow(new, root, P, j, s, x).leaf = FALSE
        /\ IsInsertion(ToldRow(new, root, P, j, s, x).keys, KeysAt(new, P), j, s)
        /\ IsInsertion(ToldRow(new, root, P, j, s, x).ptrs, Above(new, root, P), j + 1, x)
    <3>1. root \in Nat /\ s \in Int /\ x \in Nat /\ Keys \subseteq Int
      BY <1>1, <1>5
    <3> QED BY ONLY <3>1, <2>1, <2>2, ToldIs, Zenon
  <2> QED BY <1>3, <2>3 DEF r
<1>7. g[P].leaf = FALSE /\ g[P].keys = ks /\ g[P].ptrs = ps
  <2>1. g[P] = Sheet(ns, root, L)[P]
    BY <1>1
  <2>2. CASE P = 0
    <3>1. g[P] = Internal(<< >>, <<root>>)
      BY <2>1, <2>2 DEF Sheet
    <3> QED BY <2>2, <3>1 DEF Internal, KeysAt, Above
  <2>3. CASE P # 0
    <3>1. g[P] = ns[P]
      BY <1>1, <2>1, <2>3 DEF Sheet
    <3>2. ns[P].leaf = FALSE
      BY <2>3, InternalPage
    <3> QED BY <2>3, <3>1, <3>2 DEF KeysAt, Above
  <2> QED BY <2>2, <2>3
<1>8. /\ DOMAIN h = DOMAIN g \cup {x} /\ h[P] = r
      /\ \A q \in M \cup {0} : q # P => h[q] = Sheet(new, root, M)[q]
  <2>1. P \in M \cup {0} /\ DOMAIN Sheet(new, root, M) = M \cup {0}
    BY <1>1 DEF Sheet
  <2>2. h = [Sheet(new, root, M) EXCEPT ![P] = r]
    BY DEF ToldSheet
  <2> HIDE DEF h, r
  <2> QED BY <2>1, <2>2
<1> HIDE DEF h, r, ks, ps
<1>9. h[c] = new[c] /\ h[x] = new[x]
  <2>1. c \in M /\ x \in M /\ c # 0 /\ c # P /\ x # P /\ x # 0
    BY <1>1
  <2>2. Sheet(new, root, M)[c] = new[c] /\ Sheet(new, root, M)[x] = new[x]
    BY <2>1 DEF Sheet
  <2> QED BY <1>8, <2>1, <2>2
<1>10. \A q \in DOMAIN g : q # c /\ q # P => h[q] = g[q]
  <2> SUFFICES ASSUME NEW q \in L \cup {0}, q # c, q # P PROVE h[q] = g[q]
    OBVIOUS
  <2>1. h[q] = Sheet(new, root, M)[q] /\ g[q] = Sheet(ns, root, L)[q]
    BY <1>8
  <2>2. Sheet(new, root, M)[q] = Sheet(ns, root, L)[q]
    BY <1>2 DEF Sheet
  <2> QED BY <2>1, <2>2
<1>11. DividedBelow(g, h, B, P, j, c, x, s)
  <2>1. /\ c \in DOMAIN g /\ P \in DOMAIN g /\ P # c /\ x \notin DOMAIN g /\ s \in B[c]
        /\ ~g[P].leaf /\ j \in 1..Len(g[P].ptrs) /\ g[P].ptrs[j] = c
    BY <1>1, <1>5, <1>7
  <2>2. /\ ~h[P].leaf /\ IsInsertion(h[P].keys, g[P].keys, j, s)
        /\ IsInsertion(h[P].ptrs, g[P].ptrs, j + 1, x)
    BY <1>6, <1>7, <1>8
  <2>3. PageOrdered(h[c], B, UpTo(B[c], s)) /\ PageOrdered(h[x], B, From(B[c], s))
    BY <1>5, <1>9
  <2> QED BY <1>8, <1>10, <2>1, <2>2, <2>3 DEF DividedBelow
<1>12. Ordered(h, DividedKeys(g, B, c, x, s))
  BY <1>11, SheetDivided
<1> QED BY <1>12 DEF h

\* What an insertion has made of the order of the pages, the split of child j of page P still
\* to be told to P.
KeyDrawn(d, L, root, P, j) ==
  \E M : /\ L \subseteq M /\ M \subseteq 1..Len(d.tree.nodes)
         /\ \E B : Ordered(IF d.split = NoSplit THEN Sheet(d.tree.nodes, root, M)
                           ELSE ToldSheet(d.tree.nodes, root, M, P, j, d.split.key, d.split.page), B)

\* A leaf in order with one entry more.
LEMMA MoreInOrder ==
  ASSUME NEW n, LeafFits(n), NEW e \in Entry, Keys \subseteq Int,
         NEW S, S \subseteq Int, LeafKeyed(n.entries, S), e.key \in S
  PROVE  LeafKeyed(More(n, e), S)
<1> DEFINE es == n.entries
           ks == KeysOf(es)
           at == findInsertPos(ks, e.key)
           v  == InsertAt(es, at, e)
<1>1. es \in Seq(Entry) /\ Len(es) \in Nat
  BY LeafPage
<1> HIDE DEF es
<1>2. /\ \A i \in 1..Len(es) : es[i].key \in S
      /\ \A i, j \in 1..Len(es) : i <= j => es[i].key <= es[j].key
  BY DEF LeafKeyed, es
<1>3. ks \in Seq(Int) /\ Len(ks) = Len(es) /\ \A i \in 1..Len(es) : ks[i] = es[i].key
  <2>1. ks = [i \in 1..Len(es) |-> es[i].key]
    BY <1>1 DEF KeysOf
  <2>2. \A i \in 1..Len(es) : es[i].key \in Int
    BY <1>2
  <2> HIDE DEF ks
  <2> QED BY <1>1, <2>1, <2>2
<1> HIDE DEF ks
<1>4. \A i, j \in 1..Len(ks) : i <= j => ks[i] <= ks[j]
  BY <1>2, <1>3
<1>5. e.key \in Int
  BY DEF Entry
<1>6. /\ at \in 1..Len(ks) + 1
      /\ \A i \in 1..Len(ks) : (i < at => ks[i] <= e.key) /\ (i >= at => e.key <= ks[i])
  BY <1>3, <1>4, <1>5, InsertPlace
<1> HIDE DEF at
<1>7. at \in 1..Len(es) + 1
  BY <1>3, <1>6
<1>8. IsInsertion(v, es, at, e)
  BY <1>1, <1>7, InsertionIs
<1>9. \A i \in 1..Len(es) : (i < at => es[i].key <= e.key) /\ (i >= at => e.key <= es[i].key)
  BY <1>3, <1>6
<1> HIDE DEF v
<1>10. LeafKeyed(es, S)
  BY DEF es
<1>11. LeafKeyed(v, S)
  BY <1>1, <1>7, <1>8, <1>9, <1>10, LeafInserted
<1> QED BY <1>11 DEF v, es, More, at, ks

\* It is divided by the first key of its right half.
LEMMA MoreSplits ==
  ASSUME NEW n, LeafFits(n), NEW e \in Entry, NEW x, NEW y, NEW z
  PROVE  Splits(Leaf(More(n, e), z), Leaf(MoreLeftPart(n, e), x), MoreRight(n, e)[1].key,
                Leaf(MoreRight(n, e), y))
<1> DEFINE all  == More(n, e)
           left == MoreLeft(n, e)
           a    == MoreLeftPart(n, e)
           b    == MoreRight(n, e)
<1>1. all \in Seq(Entry) /\ Len(all) = Len(n.entries) + 1 /\ Len(n.entries) \in Nat
  BY MoreIs
<1>2. left = Len(all) \div 2 /\ a = SubSeq(all, 1, left) /\ b = SubSeq(all, left + 1, Len(all))
  BY DEF MoreLeft, MoreLeftPart, MoreRight
<1> HIDE DEF all, left, a, b
<1>3. Len(all) \in Nat /\ Len(all) > 0
  BY <1>1
<1>4. left \in Nat /\ 2 * left <= Len(all)
  BY <1>2, <1>3, HalfIs
<1>5. left + 1 \in 1..Len(all)
  BY <1>3, <1>4
<1>6. /\ 1 \in 1..Len(all) + 1 /\ left \in 0..Len(all) /\ 1 <= left + 1
      /\ left + 1 \in 1..Len(all) + 1 /\ Len(all) \in 0..Len(all) /\ left + 1 <= Len(all) + 1
  BY <1>3, <1>4
<1>7. a \in Seq(Entry) /\ Len(a) = left - 1 + 1 /\ \A i \in 1..left - 1 + 1 : a[i] = all[1 + i - 1]
  BY <1>1, <1>2, <1>6, SubSeqIs
<1>8. /\ b \in Seq(Entry) /\ Len(b) = Len(all) - (left + 1) + 1
      /\ \A i \in 1..Len(all) - (left + 1) + 1 : b[i] = all[(left + 1) + i - 1]
  BY <1>1, <1>2, <1>6, SubSeqIs
<1>9. Len(a) = left /\ \A i \in 1..Len(a) : all[i] = a[i]
  <2>1. \A i \in 1..left : 1 + i - 1 = i /\ i \in 1..left - 1 + 1
    BY <1>4
  <2>2. Len(a) = left
    BY <1>4, <1>7
  <2> QED BY <1>7, <2>1, <2>2
<1>10. Len(b) = Len(all) - left /\ \A i \in 1..Len(b) : all[Len(a) + i] = b[i]
  <2>1. Len(b) = Len(all) - left
    BY <1>3, <1>4, <1>8
  <2>2. \A i \in 1..Len(all) - left :
          (left + 1) + i - 1 = left + i /\ i \in 1..Len(all) - (left + 1) + 1
    BY <1>3, <1>4
  <2> QED BY <1>8, <1>9, <2>1, <2>2
<1>11. Parts(all, a, b)
  <2>1. Len(all) = Len(a) + Len(b)
    BY <1>3, <1>4, <1>9, <1>10
  <2> QED BY <1>9, <1>10, <2>1 DEF Parts
<1>12. b[1].key = all[left + 1].key
  <2>1. 1 \in 1..Len(b)
    BY <1>3, <1>4, <1>5, <1>10
  <2> QED BY <1>9, <1>10, <2>1
<1>13. Len(a) <= left + 1 /\ left + 1 <= Len(a) + 1 /\ Len(a) \in Nat /\ Len(b) \in Nat
  BY <1>3, <1>4, <1>9, <1>10
<1> QED BY <1>5, <1>11, <1>12, <1>13 DEF Splits, Leaf, all, a, b

\* The file with page p changed and page b added.
GrownBy(ns, b, p, a) == [Append(ns, b) EXCEPT ![p] = a]

\* It has grown by page b, and its page p has become a.
LEMMA GrewIs ==
  ASSUME NEW ns, ns \in Seq(Node), NEW p \in 1..Len(ns), NEW a, NEW b \in Node
  PROVE  /\ Grew(ns, GrownBy(ns, b, p, a), p) /\ GrownBy(ns, b, p, a)[p] = a
         /\ GrownBy(ns, b, p, a)[Len(ns) + 1] = b
         /\ Len(GrownBy(ns, b, p, a)) = Len(ns) + 1 /\ Len(ns) \in Nat
<1> DEFINE new == GrownBy(ns, b, p, a)
<1> DEFINE mid == Append(ns, b)
           x   == Len(ns) + 1
<1>1. Len(ns) \in Nat
  OBVIOUS
<1>2. /\ DOMAIN mid = 1..x /\ Len(mid) = x /\ mid[x] = b
      /\ \A q \in 1..Len(ns) : mid[q] = ns[q]
  OBVIOUS
<1>3. mid \in Seq(Node)
  OBVIOUS
<1>4. p \in 1..x /\ x \in 1..x /\ x # p /\ \A q \in 1..Len(ns) : q \in 1..x /\ q # x
  BY <1>1
<1>5. new = [mid EXCEPT ![p] = a]
  BY DEF GrownBy
<1> HIDE DEF mid, x, new
<1>6. Len(new) = Len(mid)
  BY <1>3, <1>5
<1>7. new[p] = a /\ new[x] = b /\ \A q \in 1..Len(ns) : q # p => new[q] = ns[q]
  BY <1>2, <1>4, <1>5
<1> QED BY <1>1, <1>2, <1>6, <1>7 DEF Grew, x, new

\* An entry inserted into a leaf leaves the pages in order.
LEMMA LeafKeyDrawn ==
  ASSUME NumericKeys, Keys \subseteq Int, NEW t \in View, t.count = Len(t.nodes) + 1,
         NEW root \in Nat, NEW L, L \subseteq 1..Len(t.nodes), NEW p, LeafFits(t.nodes[p]),
         NEW P, NEW j, ChildOf(t.nodes, root, L, P, j, p), P # 0 => InternalFits(t.nodes[P]),
         NEW e \in Entry, NEW B, Ordered(Sheet(t.nodes, root, L), B), e.key \in B[p]
  PROVE  KeyDrawn(insertIntoLeaf(t, p, e), L, root, P, j)
<1> DEFINE ns    == t.nodes
           n     == ns[p]
           d     == insertIntoLeaf(t, p, e)
           all   == More(n, e)
           whole == Leaf(all, n.next)
           a     == Leaf(MoreLeftPart(n, e), t.count)
           b     == Leaf(MoreRight(n, e), n.next)
           s     == MoreRight(n, e)[1].key
           x     == Len(ns) + 1
           g0    == Sheet(ns, root, L)
           g     == [g0 EXCEPT ![p] = whole]
<1>1. p \in L /\ p \in 1..Len(ns) /\ 0 \notin L /\ p # 0
  BY DEF ChildOf
<1>2. ns \in Seq(Node) /\ Len(ns) \in Nat /\ DOMAIN ns = 1..Len(ns)
  BY DEF View
<1>3. \/ d.split = NoSplit /\ d.tree.nodes = [ns EXCEPT ![p] = whole]
      \/ /\ d.split = [key |-> s, page |-> t.count] /\ d.split # NoSplit /\ b \in Node
         /\ d.tree.nodes = [Append(ns, b) EXCEPT ![p] = a]
  BY <1>1, LeafInsertIs, SMTT(40)
<1>4. n.leaf = TRUE
  BY LeafPage
<1>5. DOMAIN g0 = L \cup {0} /\ g0[p] = n /\ \A q \in L : g0[q] = ns[q]
  BY <1>1 DEF Sheet
<1> HIDE DEF g0, d, ns
<1>6. Ordered(g0, B)
  BY DEF g0, ns
<1>7. PageOrdered(n, B, B[p]) /\ B[p] \subseteq Int
  BY <1>1, <1>5, <1>6 DEF Ordered
<1>8. LeafKeyed(all, B[p])
  <2>1. LeafKeyed(n.entries, B[p]) /\ LeafFits(n)
    BY <1>4, <1>7 DEF PageOrdered, ns
  <2> HIDE DEF n
  <2> QED BY <1>7, <2>1, MoreInOrder
<1>9. whole.leaf /\ whole.entries = all
  BY DEF Leaf
<1>10. Splits(whole, a, s, b)
  <2>1. LeafFits(n)
    BY DEF ns
  <2> HIDE DEF n
  <2> QED BY <2>1, MoreSplits
<1> HIDE DEF n, all, whole, a, b, s
<1>11. DOMAIN g = L \cup {0} /\ g[p] = whole /\ \A q \in L \cup {0} : q # p => g[q] = g0[q]
  BY <1>1, <1>5
<1> HIDE DEF g
<1>12. Ordered(g, B)
  <2>1. PageOrdered(g[p], B, B[p])
    BY <1>8, <1>9, <1>11 DEF PageOrdered
  <2> QED BY <1>5, <1>6, <1>11, <2>1, SheetChanged
<1>13. CASE d.split = NoSplit /\ d.tree.nodes = [ns EXCEPT ![p] = whole]
  <2> DEFINE new == [ns EXCEPT ![p] = whole]
             h   == Sheet(new, root, L)
  <2>1. new[p] = whole /\ Len(new) = Len(ns) /\ \A q \in 1..Len(ns) : q # p => new[q] = ns[q]
    BY <1>1, <1>2
  <2> HIDE DEF new
  <2>2. h = g
    <3>1. DOMAIN h = L \cup {0} /\ h[0] = g0[0] /\ \A q \in L : h[q] = new[q]
      BY <1>1 DEF Sheet, g0
    <3>2. \A q \in L \cup {0} : h[q] = g[q]
      <4>1. ASSUME NEW q \in L \cup {0} PROVE h[q] = g[q]
        <5> HIDE DEF h
        <5>1. CASE q = 0
          BY <1>1, <1>11, <3>1, <5>1
        <5>2. CASE q = p
          BY <1>1, <1>11, <2>1, <3>1, <5>2
        <5>3. CASE q \in L /\ q # p
          <6>1. q \in 1..Len(ns)
            BY <5>3 DEF ns
          <6> QED BY <1>5, <1>11, <2>1, <3>1, <5>3, <6>1
        <5> QED BY <5>1, <5>2, <5>3
      <4> QED BY <4>1
    <3>3. h = [q \in DOMAIN h |-> h[q]] /\ g = [q \in DOMAIN g |-> g[q]]
      BY DEF g, Sheet
    <3> HIDE DEF h
    <3> QED BY <1>11, <3>1, <3>2, <3>3
  <2>3. Ordered(Sheet(d.tree.nodes, root, L), B)
    BY <1>12, <1>13, <2>2 DEF new
  <2>4. L \subseteq 1..Len(d.tree.nodes)
    BY <1>13, <2>1 DEF new, ns
  <2> QED BY <1>13, <2>3, <2>4 DEF KeyDrawn, d
<1>14. CASE /\ d.split = [key |-> s, page |-> t.count] /\ d.split # NoSplit /\ b \in Node
            /\ d.tree.nodes = [Append(ns, b) EXCEPT ![p] = a]
  <2> DEFINE new == d.tree.nodes
             M   == L \cup {x}
  <2>1. /\ Grew(ns, new, p) /\ new[p] = a /\ new[x] = b
        /\ Len(new) = Len(ns) + 1
    <3>1. new = GrownBy(ns, b, p, a) /\ b \in Node
      BY <1>14 DEF GrownBy
    <3> HIDE DEF new
    <3>2. Grew(ns, new, p) /\ new[p] = a /\ new[Len(ns) + 1] = b /\ Len(new) = Len(ns) + 1
      BY <1>1, <1>2, <3>1, GrewIs
    <3> QED BY <3>2 DEF x
  <2> HIDE DEF new
  <2>2. ChildOf(ns, root, L, P, j, p) /\ (P # 0 => InternalFits(ns[P])) /\ L \subseteq 1..Len(ns)
    BY DEF ns
  <2>3. Splits(g[p], new[p], s, new[x])
    BY <1>10, <1>11, <2>1
  <2>4. \A q \in L \cup {0} : q # p => g[q] = Sheet(ns, root, L)[q]
    BY <1>11 DEF g0
  <2>5. x = Len(ns) + 1
    OBVIOUS
  <2> HIDE DEF x
  <2>6. \E C : Ordered(ToldSheet(new, root, L \cup {x}, P, j, s, x), C)
    BY <1>11, <1>12, <2>1, <2>2, <2>3, <2>4, <2>5, SplitTold, ZenonT(60)
  <2>7. d.split.key = s /\ d.split.page = x /\ t.count = x
    BY <1>14 DEF x, ns
  <2>8. L \subseteq M /\ M \subseteq 1..Len(new)
    <3>1. x \in 1..Len(new) /\ \A q \in 1..Len(ns) : q \in 1..Len(new)
      BY <1>2, <2>1, <2>5
    <3> QED BY <2>2, <3>1
  <2>9. \E C : Ordered(ToldSheet(new, root, M, P, j, d.split.key, d.split.page), C)
    BY <2>6, <2>7
  <2> HIDE DEF M
  <2>10. /\ L \subseteq M /\ M \subseteq 1..Len(d.tree.nodes)
         /\ \E C : Ordered(ToldSheet(d.tree.nodes, root, M, P, j, d.split.key, d.split.page), C)
    BY <2>8, <2>9 DEF new
  <2> QED BY <1>14, <2>10 DEF KeyDrawn, d
<1> QED BY <1>3, <1>13, <1>14

\* The keys and pointers of an internal page with one more, divided at the middle key.
LEMMA HalvesSplit ==
  ASSUME NEW keys \in Seq(Keys), NEW ptrs \in Seq(Nat), Len(ptrs) = Len(keys) + 1, Len(keys) >= 3
  PROVE  Splits(Internal(keys, ptrs), LeftHalf(keys, ptrs), keys[Len(keys) \div 2 + 1],
                RightHalf(keys, ptrs))
<1> DEFINE h  == Len(keys) \div 2
           ka == SubSeq(keys, 1, h)
           kb == SubSeq(keys, h + 2, Len(keys))
           pa == SubSeq(ptrs, 1, h + 1)
           pb == SubSeq(ptrs, h + 2, Len(ptrs))
           a  == LeftHalf(keys, ptrs)
           b  == RightHalf(keys, ptrs)
           z  == Internal(keys, ptrs)
<1>1. Len(keys) \in Nat
  OBVIOUS
<1>2. h \in Nat /\ 2 * h <= Len(keys) /\ Len(keys) <= 2 * h + 1
  BY <1>1, HalfIs
<1>3. /\ a.leaf = FALSE /\ b.leaf = FALSE /\ a.keys = ka /\ a.ptrs = pa /\ b.keys = kb /\ b.ptrs = pb
      /\ z.leaf = FALSE /\ z.keys = keys /\ z.ptrs = ptrs
  BY DEF LeftHalf, RightHalf, Internal
<1>4. Parts(ptrs, a.ptrs, b.ptrs)
  BY HalvesApart
<1> HIDE DEF h, a, b, z
<1>5. /\ 1 \in 1..Len(keys) + 1 /\ h \in 0..Len(keys) /\ 1 <= h + 1
      /\ h + 2 \in 1..Len(keys) + 1 /\ Len(keys) \in 0..Len(keys) /\ h + 2 <= Len(keys) + 1
  BY <1>1, <1>2
<1>6. /\ 1 \in 1..Len(ptrs) + 1 /\ h + 1 \in 0..Len(ptrs) /\ 1 <= (h + 1) + 1
      /\ h + 2 \in 1..Len(ptrs) + 1 /\ Len(ptrs) \in 0..Len(ptrs) /\ h + 2 <= Len(ptrs) + 1
  BY <1>1, <1>2
<1>7. Len(ka) = h - 1 + 1 /\ \A i \in 1..h - 1 + 1 : ka[i] = keys[1 + i - 1]
  BY <1>5, SubSeqIs
<1>8. /\ Len(kb) = Len(keys) - (h + 2) + 1
      /\ \A i \in 1..Len(keys) - (h + 2) + 1 : kb[i] = keys[(h + 2) + i - 1]
  BY <1>5, SubSeqIs
<1>9. Len(pa) = (h + 1) - 1 + 1
  BY <1>6, SubSeqIs
<1>10. Len(pb) = Len(ptrs) - (h + 2) + 1
  BY <1>6, SubSeqIs
<1> HIDE DEF ka, kb, pa, pb
<1>11. Len(ka) = h /\ \A i \in 1..Len(ka) : keys[i] = ka[i]
  <2>1. Len(ka) = h
    BY <1>2, <1>7
  <2>2. \A i \in 1..h : 1 + i - 1 = i /\ i \in 1..h - 1 + 1
    BY <1>2
  <2> QED BY <1>7, <2>1, <2>2
<1>12. /\ Len(kb) = Len(keys) - h - 1
       /\ \A i \in 1..Len(kb) : keys[Len(ka) + 1 + i] = kb[i]
  <2>1. Len(kb) = Len(keys) - h - 1
    BY <1>1, <1>2, <1>8
  <2>2. \A i \in 1..Len(keys) - h - 1 :
          (h + 2) + i - 1 = h + 1 + i /\ i \in 1..Len(keys) - (h + 2) + 1
    BY <1>1, <1>2
  <2> QED BY <1>8, <1>11, <2>1, <2>2
<1>13. /\ Len(keys) = Len(ka) + Len(kb) + 1 /\ Len(pa) = Len(ka) + 1 /\ Len(pb) = Len(kb) + 1
       /\ Len(ka) \in Nat /\ Len(kb) \in Nat
  <2>1. Len(pa) = h + 1 /\ Len(pb) = Len(keys) - h
    BY <1>1, <1>2, <1>9, <1>10
  <2>2. Len(keys) - h - 1 \in Nat
    BY <1>1, <1>2
  <2> QED BY <1>1, <1>2, <1>11, <1>12, <2>1, <2>2
<1>14. Divided(keys, ptrs, keys[h + 1], ka, pa, kb, pb)
  <2>1. Parts(ptrs, pa, pb)
    BY <1>3, <1>4
  <2> QED BY <1>11, <1>12, <1>13, <2>1 DEF Divided
<1>15. Splits(z, a, keys[h + 1], b)
  BY <1>3, <1>13, <1>14 DEF Splits
<1> QED BY <1>15 DEF h, a, b, z

\* A split told to an internal page leaves the pages in order.
LEMMA InternalKeyDrawn ==
  ASSUME NumericKeys, Keys \subseteq Int, NEW t \in View, t.count = Len(t.nodes) + 1,
         NEW root \in Nat, NEW L, NEW M, L \subseteq M, M \subseteq 1..Len(t.nodes),
         NEW s, s.key \in Keys, s.page \in Nat,
         NEW P, P # 0, InternalFits(t.nodes[P]), s.page \notin Kids(t.nodes[P]),
         NEW j, findInsertPos(t.nodes[P].keys, s.key) = j,
         NEW B, Ordered(ToldSheet(t.nodes, root, M, P, j, s.key, s.page), B),
         NEW G, NEW g, ChildOf(t.nodes, root, L, G, g, P), G # 0 => InternalFits(t.nodes[G])
  PROVE  KeyDrawn(insertIntoInternal(t, P, s, 4), L, root, G, g)
<1> DEFINE ns    == t.nodes
           n     == ns[P]
           d     == insertIntoInternal(t, P, s, 4)
           keys  == MoreKeys(n, s)
           ptrs  == MorePtrs(n, s)
           whole == Internal(keys, ptrs)
           a     == LeftHalf(keys, ptrs)
           b     == RightHalf(keys, ptrs)
           m     == keys[Len(keys) \div 2 + 1]
           x     == Len(ns) + 1
           f     == ToldSheet(ns, root, M, P, j, s.key, s.page)
           g0    == Sheet(ns, root, M)
<1>1. P \in L /\ P \in M /\ P \in 1..Len(ns) /\ 0 \notin M
  BY DEF ChildOf
<1>2. ns \in Seq(Node) /\ Len(ns) \in Nat /\ DOMAIN ns = 1..Len(ns)
  BY DEF View
<1>3. \/ d.split = NoSplit /\ d.tree.nodes = [ns EXCEPT ![P] = whole]
      \/ /\ Len(keys) >= 3 /\ d.split = [key |-> m, page |-> t.count]
         /\ d.split # NoSplit /\ b \in Node /\ d.tree.nodes = [Append(ns, b) EXCEPT ![P] = a]
  <2>1. /\ NumericKeys /\ t \in View /\ t.count = Len(t.nodes) + 1 /\ P \in 1..Len(t.nodes)
        /\ InternalFits(t.nodes[P]) /\ s.key \in Keys /\ s.page \in Nat
        /\ s.page \notin Kids(t.nodes[P])
    BY <1>1
  <2> QED BY ONLY <2>1, InternalInsertIs, ZenonT(60)
<1>4. /\ keys \in Seq(Keys) /\ Len(keys) = Len(n.keys) + 1
      /\ ptrs \in Seq(Nat) /\ Len(ptrs) = Len(n.keys) + 2 /\ Len(n.keys) \in Nat
  <2>1. InternalFits(n) /\ s.page \notin Kids(n)
    OBVIOUS
  <2> HIDE DEF n
  <2> QED BY <2>1, MoreKeysAre, InternalPage
<1>5. Len(keys) >= 3 => Splits(whole, a, m, b)
  <2> HIDE DEF keys, ptrs
  <2> SUFFICES ASSUME Len(keys) >= 3 PROVE Splits(whole, a, m, b)
    OBVIOUS
  <2>1. Len(ptrs) = Len(keys) + 1
    BY <1>4
  <2> QED BY <1>4, <2>1, HalvesSplit, ZenonT(60)
<1>6. DOMAIN g0 = M \cup {0} /\ \A q \in M : g0[q] = ns[q]
  BY <1>1 DEF Sheet
<1>7. ToldRow(ns, root, P, j, s.key, s.page) = whole
  BY DEF ToldRow, MoreKeys, MorePtrs, KeysAt, Above
<1> HIDE DEF g0, d, ns, keys, ptrs, whole, a, b, m
<1>8. DOMAIN f = M \cup {0} /\ f[P] = whole /\ \A q \in M \cup {0} : q # P => f[q] = g0[q]
  <2>1. f = [g0 EXCEPT ![P] = whole]
    BY <1>7 DEF ToldSheet, g0
  <2> HIDE DEF f
  <2> QED BY <1>1, <1>6, <2>1
<1>9. Ordered(f, B)
  BY DEF ns
<1>10. CASE d.split = NoSplit /\ d.tree.nodes = [ns EXCEPT ![P] = whole]
  <2> DEFINE new == [ns EXCEPT ![P] = whole]
             h   == Sheet(new, root, M)
  <2>1. new[P] = whole /\ Len(new) = Len(ns) /\ \A q \in 1..Len(ns) : q # P => new[q] = ns[q]
    BY <1>1, <1>2
  <2> HIDE DEF new
  <2>2. h = f
    <3>1. DOMAIN h = M \cup {0} /\ h[0] = g0[0] /\ \A q \in M : h[q] = new[q]
      BY <1>1 DEF Sheet, g0
    <3>2. h = [q \in DOMAIN h |-> h[q]]
      BY DEF Sheet
    <3>4. f = [q \in DOMAIN f |-> f[q]]
      BY DEF ToldSheet, Sheet
    <3> HIDE DEF h, f
    <3>3. ASSUME NEW q \in M \cup {0} PROVE h[q] = f[q]
      <4>1. CASE q = 0
        BY <1>1, <1>8, <3>1, <4>1
      <4>2. CASE q = P
        BY <1>1, <1>8, <2>1, <3>1, <4>2
      <4>3. CASE q \in M /\ q # P
        <5>1. q \in 1..Len(ns)
          BY <4>3 DEF ns
        <5> QED BY <1>6, <1>8, <2>1, <3>1, <4>3, <5>1
      <4> QED BY <4>1, <4>2, <4>3
    <3> QED BY <1>8, <3>1, <3>2, <3>3, <3>4
  <2>3. Ordered(Sheet(d.tree.nodes, root, M), B)
    BY <1>9, <1>10, <2>2 DEF new
  <2>4. M \subseteq 1..Len(d.tree.nodes)
    BY <1>10, <2>1 DEF new, ns
  <2> QED BY <1>10, <2>3, <2>4 DEF KeyDrawn, d
<1>11. CASE /\ Len(keys) >= 3 /\ d.split = [key |-> m, page |-> t.count]
            /\ d.split # NoSplit /\ b \in Node /\ d.tree.nodes = [Append(ns, b) EXCEPT ![P] = a]
  <2> DEFINE new == d.tree.nodes
             N   == M \cup {x}
  <2>1. Grew(ns, new, P) /\ new[P] = a /\ new[x] = b /\ Len(new) = Len(ns) + 1
    <3>1. new = GrownBy(ns, b, P, a) /\ b \in Node
      BY <1>11 DEF GrownBy
    <3> HIDE DEF new
    <3>2. Grew(ns, new, P) /\ new[P] = a /\ new[Len(ns) + 1] = b /\ Len(new) = Len(ns) + 1
      BY <1>1, <1>2, <3>1, GrewIs
    <3> QED BY <3>2 DEF x
  <2> HIDE DEF new
  <2>2. ChildOf(ns, root, M, G, g, P) /\ (G # 0 => InternalFits(ns[G])) /\ M \subseteq 1..Len(ns)
    BY DEF ns, ChildOf
  <2> HIDE DEF f
  <2>3. Splits(f[P], new[P], m, new[x])
    BY <1>5, <1>8, <1>11, <2>1
  <2>4. \A q \in M \cup {0} : q # P => f[q] = Sheet(ns, root, M)[q]
    BY <1>8 DEF g0
  <2>5. x = Len(ns) + 1
    OBVIOUS
  <2> HIDE DEF x
  <2>6. \E C : Ordered(ToldSheet(new, root, M \cup {x}, G, g, m, x), C)
    BY <1>8, <1>9, <2>1, <2>2, <2>3, <2>4, <2>5, SplitTold, ZenonT(60)
  <2>7. d.split.key = m /\ d.split.page = x /\ t.count = x
    BY <1>11 DEF x, ns
  <2>8. L \subseteq N /\ N \subseteq 1..Len(new)
    <3>1. x \in 1..Len(new) /\ \A q \in 1..Len(ns) : q \in 1..Len(new)
      BY <1>2, <2>1, <2>5
    <3> QED BY <2>2, <3>1
  <2>9. \E C : Ordered(ToldSheet(new, root, N, G, g, d.split.key, d.split.page), C)
    BY <2>6, <2>7
  <2> HIDE DEF N
  <2>10. /\ L \subseteq N /\ N \subseteq 1..Len(d.tree.nodes)
         /\ \E C : Ordered(ToldSheet(d.tree.nodes, root, N, G, g, d.split.key, d.split.page), C)
    BY <2>8, <2>9 DEF new
  <2> QED BY <1>11, <2>10 DEF KeyDrawn, d
<1> QED BY <1>3, <1>10, <1>11

\* The climb of insertEntry leaves the pages in order, unless it misplaces a page.
LEMMA ClimbKeyDrawn ==
  ASSUME NumericKeys, Keys \subseteq Int,
         NEW t, NEW lev, NEW L0, GoodView(t, lev, L0), NEW e \in Entry,
         NEW pick, Picks(t.nodes, pick), NEW path, Walk(t.nodes, lev, pick, t.root, path),
         NEW L, NEW H, Picture(t.nodes, t.root, L, H),
         NEW f, IsClimb(t, e, path, f),
         \A k \in 1..Len(path) - 1 : f[k - 1].split # NoSplit =>
            findInsertPos(t.nodes[path[Len(path) - k]].keys, f[k - 1].split.key)
              = pick[path[Len(path) - k]],
         NEW B, Ordered(Sheet(t.nodes, t.root, L), B), e.key \in B[path[Len(path)]]
  PROVE  KeyDrawn(f[Len(path) - 1], L, t.root, 0, 1)
<1> DEFINE ns   == t.nodes
           root == t.root
           n    == lev[root]
           Views == [tree : View, split : Split]
           Stage(k, d) == KeyDrawn(d, L, root, Up(path, n, k), At(path, pick, n, k))
           Good == [k \in 0..n |-> {d \in Views : Stage(k, d)}]
<1>1. /\ Leveled(ns, lev) /\ Tree(ns, L0, {root}) /\ root \in L0 /\ n \in Nat
      /\ L0 \subseteq 1..Len(ns) /\ t \in View /\ t.count = Len(ns) + 1
  <2>1. Leveled(ns, lev) /\ Tree(ns, L0, {root}) /\ t \in View /\ t.count = Len(ns) + 1
    BY DEF GoodView
  <2>2. root \in L0 /\ L0 \subseteq 1..Len(ns)
    BY <2>1 DEF Tree
  <2>3. n \in Nat
    BY <2>1, <2>2 DEF Leveled
  <2> QED BY <2>1, <2>2, <2>3
<1>2. /\ Len(path) = n + 1
      /\ \A i \in 1..n + 1 : path[i] \in L0 /\ lev[path[i]] = n + 1 - i
  <2>1. \A i \in 1..n + 1 : path[i] \in L0
    BY <1>1, WalkStays
  <2> QED BY <2>1 DEF Walk
<1>3. \A k \in 0..n :
           /\ path[n + 1 - k] \in L /\ lev[path[n + 1 - k]] = k
           /\ ChildOf(ns, root, L, Up(path, n, k), At(path, pick, n, k), path[n + 1 - k])
           /\ Up(path, n, k) # 0 => Up(path, n, k) \in 1..Len(ns) /\ lev[Up(path, n, k)] = k + 1
           /\ k > 0 => /\ Up(path, n, k - 1) = path[n + 1 - k]
                       /\ At(path, pick, n, k - 1) = pick[path[n + 1 - k]]
  BY <1>1, UpIs
<1>4. \A k \in 0..n : Grown(f[k], ns, lev, L0, root, k)
  BY ClimbIs
<1>5. KeyLen[e.key] = 4
  BY DEF NumericKeys, Entry
<1>13. L \subseteq 1..Len(ns) /\ root \in Nat
  <2>1. L \subseteq 1..Len(ns) /\ root \in L
    BY PictureKids
  <2>2. root \in Nat
    BY <1>1 DEF View
  <2> QED BY <2>1, <2>2
<1> HIDE DEF ns, root, n
<1>6. /\ f[0] = insertIntoLeaf(t, Last(path), e)
      /\ \A k \in 1..n : f[k] = IF f[k - 1].split = NoSplit THEN f[k - 1]
                                ELSE insertIntoInternal(f[k - 1].tree, path[n + 1 - k],
                                                        f[k - 1].split, 4)
      /\ \A k \in 1..n : f[k - 1].split # NoSplit =>
            findInsertPos(ns[path[n + 1 - k]].keys, f[k - 1].split.key) = pick[path[n + 1 - k]]
  <2>1. Len(path) - 1 = n /\ \A k \in 1..n : Len(path) - k = n + 1 - k
    BY <1>1, <1>2
  <2>2. 0 \in 0..n /\ \A k \in 1..n : k \in 0..n /\ k # 0
    BY <1>1
  <2>3. f[0] = insertIntoLeaf(t, Last(path), e)
    BY <2>1, <2>2 DEF IsClimb
  <2>4. ASSUME NEW k \in 1..n
        PROVE  f[k] = IF f[k - 1].split = NoSplit THEN f[k - 1]
                      ELSE insertIntoInternal(f[k - 1].tree, path[n + 1 - k], f[k - 1].split, 4)
    BY <1>5, <2>1, <2>2 DEF IsClimb
  <2>5. ASSUME NEW k \in 1..n, f[k - 1].split # NoSplit
        PROVE  findInsertPos(ns[path[n + 1 - k]].keys, f[k - 1].split.key) = pick[path[n + 1 - k]]
    BY <2>1, <2>5 DEF ns
  <2> QED BY <2>3, <2>4, <2>5
<1>7. \A k \in 0..n : f[k] \in Views
  BY <1>4 DEF Grown
<1>14. \A q \in 1..Len(ns) : (lev[q] = 0 => LeafFits(ns[q])) /\ (lev[q] # 0 => InternalFits(ns[q]))
  BY <1>1, LeafPageIs, InternalPageIs
<1>8. Stage(0, f[0])
  <2>1. 0 \in 0..n /\ n + 1 - 0 = n + 1 /\ n + 1 \in 1..n + 1
    BY <1>1
  <2> DEFINE p == path[n + 1]
             P == Up(path, n, 0)
             j == At(path, pick, n, 0)
  <2>2. Last(path) = p /\ path[Len(path)] = p
    BY <1>2 DEF Last
  <2>3. /\ lev[p] = 0 /\ ChildOf(ns, root, L, P, j, p) /\ p \in L
        /\ P # 0 => P \in 1..Len(ns) /\ lev[P] = 0 + 1
    <3>1. /\ path[n + 1 - 0] \in L /\ lev[path[n + 1 - 0]] = 0
          /\ ChildOf(ns, root, L, Up(path, n, 0), At(path, pick, n, 0), path[n + 1 - 0])
          /\ Up(path, n, 0) # 0 => Up(path, n, 0) \in 1..Len(ns) /\ lev[Up(path, n, 0)] = 0 + 1
      BY <1>3, <2>1
    <3> QED BY <2>1, <3>1
  <2> HIDE DEF p, P, j
  <2>4. LeafFits(ns[p]) /\ (P # 0 => InternalFits(ns[P]))
    <3>1. p \in 1..Len(ns)
      BY <1>13, <2>3
    <3> QED BY <1>14, <2>3, <3>1
  <2>5. /\ LeafFits(t.nodes[p]) /\ t.count = Len(t.nodes) + 1 /\ (P # 0 => InternalFits(t.nodes[P]))
        /\ ChildOf(t.nodes, root, L, P, j, p) /\ L \subseteq 1..Len(t.nodes)
        /\ Ordered(Sheet(t.nodes, root, L), B) /\ e.key \in B[p]
    BY <1>1, <1>13, <2>2, <2>3, <2>4 DEF ns, root
  <2>6. KeyDrawn(insertIntoLeaf(t, p, e), L, root, P, j)
    BY <1>1, <1>13, <2>5, LeafKeyDrawn
  <2> QED BY <1>6, <2>2, <2>6 DEF P, j
<1>9. ASSUME NEW k \in 1..n, Stage(k - 1, f[k - 1]) PROVE Stage(k, f[k])
  <2>1. k \in Nat /\ k > 0 /\ k - 1 \in 0..n /\ k \in 0..n
    BY <1>1
  <2> DEFINE d == f[k - 1]
             P == path[n + 1 - k]
             j == pick[P]
             G == Up(path, n, k)
             g == At(path, pick, n, k)
  <2>2. /\ P \in L /\ lev[P] = k /\ ChildOf(ns, root, L, G, g, P)
        /\ G # 0 => G \in 1..Len(ns) /\ lev[G] = k + 1
        /\ Up(path, n, k - 1) = P /\ At(path, pick, n, k - 1) = j
    BY <1>3, <2>1
  <2>3. KeyDrawn(d, L, root, P, j)
    BY <1>9, <2>2
  <2>4. P \in L0
    <3>1. n + 1 - k \in 1..n + 1
      BY <1>1
    <3> QED BY <1>2, <3>1
  <2> HIDE DEF P, j, G, g
  <2>5. CASE d.split = NoSplit
    <3>1. f[k] = d
      BY <1>6, <2>5
    <3>2. KeyDrawn(d, L, root, G, g)
      BY <2>3, <2>5 DEF KeyDrawn
    <3> QED BY <3>1, <3>2 DEF G, g
  <2>6. CASE d.split # NoSplit
    <3>1. f[k] = insertIntoInternal(d.tree, P, d.split, 4)
          /\ findInsertPos(ns[P].keys, d.split.key) = j
      BY <1>6, <2>6 DEF P, j
    <3>2. Grown(d, ns, lev, L0, root, k - 1)
      BY <1>4, <2>1
    <3> HIDE DEF d
    <3>3. /\ d.tree \in View /\ d.tree.count = Len(d.tree.nodes) + 1
          /\ d.split.key \in Keys /\ d.split.page \in Nat
          /\ InternalFits(d.tree.nodes[P]) /\ d.split.page \notin Kids(d.tree.nodes[P])
          /\ \A q \in 1..Len(ns) : lev[q] > k - 1 => d.tree.nodes[q] = ns[q]
      <4>1. Told(d, ns, lev, k, P)
        BY <1>1, <2>1, <2>2, <2>4, <2>6, <3>2, ToldOf, ZenonT(60)
      <4> QED BY <4>1 DEF Told
    <3>4. PICK M : /\ L \subseteq M /\ M \subseteq 1..Len(d.tree.nodes)
                   /\ \E C : Ordered(ToldSheet(d.tree.nodes, root, M, P, j, d.split.key, d.split.page), C)
      BY <2>3, <2>6 DEF KeyDrawn
    <3>9. PICK C : Ordered(ToldSheet(d.tree.nodes, root, M, P, j, d.split.key, d.split.page), C)
      BY <3>4
    <3>5. P # 0 /\ P \in 1..Len(ns)
      BY <1>1, <2>4
    <3>10. G # 0 => d.tree.nodes[G] = ns[G]
      <4>1. k + 1 > k - 1
        BY <2>1
      <4> QED BY <2>2, <3>3, <4>1
    <3>6. ChildOf(d.tree.nodes, root, L, G, g, P)
      BY <2>2, <3>10 DEF ChildOf, Above
    <3>11. G # 0 => InternalFits(d.tree.nodes[G])
      <4>1. k + 1 # 0
        BY <2>1
      <4> QED BY <1>14, <2>2, <3>10, <4>1
    <3>7. findInsertPos(d.tree.nodes[P].keys, d.split.key) = j
      <4>1. d.tree.nodes[P] = ns[P]
        <5>1. k > k - 1
          BY <2>1
        <5> QED BY <2>2, <3>3, <3>5, <5>1
      <4> QED BY <3>1, <4>1
    <3>8. KeyDrawn(insertIntoInternal(d.tree, P, d.split, 4), L, root, G, g)
      BY <1>13, <3>3, <3>4, <3>5, <3>6, <3>7, <3>9, <3>11, InternalKeyDrawn, ZenonT(60)
    <3> QED BY <3>1, <3>8 DEF G, g
  <2> QED BY <2>5, <2>6
<1> HIDE DEF Views, Stage
<1>10. \A k \in 0..n : f[k] \in Good[k]
  <2>1. f[0] \in Good[0]
    <3>1. 0 \in 0..n
      BY <1>1
    <3> QED BY <1>7, <1>8, <3>1
  <2>2. ASSUME NEW k \in 1..n, f[k - 1] \in Good[k - 1] PROVE f[k] \in Good[k]
    <3>1. k - 1 \in 0..n /\ k \in 0..n
      BY <1>1
    <3>2. Stage(k - 1, f[k - 1])
      BY <2>2, <3>1
    <3> QED BY <1>7, <1>9, <3>1, <3>2
  <2> HIDE DEF Good
  <2> QED BY <1>1, <2>1, <2>2, Climbing
<1>11. Stage(n, f[n])
  <2>1. n \in 0..n
    BY <1>1
  <2> QED BY <1>10, <2>1
<1>12. Up(path, n, n) = 0 /\ At(path, pick, n, n) = 1 /\ Len(path) - 1 = n
  BY <1>1, <1>2 DEF Up, At
<1> QED BY <1>11, <1>12 DEF Stage, root

\* A new root above a root that has been split leaves the pages in order.
LEMMA TopKeyDrawn ==
  ASSUME NEW ns, NEW lev, NEW L0, NEW root \in Nat, NEW k, NEW d, Grown(d, ns, lev, L0, root, k),
         NEW L, root \in L, KeyDrawn(d, L, root, 0, 1)
  PROVE  IF d.split = NoSplit THEN InOrder(d.tree.nodes, d.tree.root)
         ELSE LET u == AppendNode(d.tree, Internal(<<d.split.key>>, <<d.tree.root, d.split.page>>))
              IN  InOrder(u.nodes, d.tree.count)
<1>1. d.tree \in View /\ d.tree.root = root /\ d.tree.count = Len(d.tree.nodes) + 1
      /\ d \in [tree : View, split : Split]
  BY DEF Grown
<1>2. CASE d.split = NoSplit
  BY <1>1, <1>2 DEF KeyDrawn, InOrder, SheetInOrder
<1>3. CASE d.split # NoSplit
  <2> DEFINE ns1 == d.tree.nodes
             s   == d.split.key
             x   == d.split.page
             n   == Internal(<<s>>, <<d.tree.root, x>>)
             u   == AppendNode(d.tree, n)
             new == Append(ns1, n)
             y   == Len(ns1) + 1
  <2>1. PICK M, B : /\ L \subseteq M /\ M \subseteq 1..Len(ns1)
                    /\ Ordered(ToldSheet(ns1, root, M, 0, 1, s, x), B)
    BY <1>3 DEF KeyDrawn
  <2>2. u.nodes = new
    BY <1>1 DEF AppendNode, View
  <2>3. n = Internal(<<s>>, <<root, x>>)
    BY <1>1
  <2>4. ns1 \in Seq(Node) /\ Len(ns1) \in Nat /\ s \in Int /\ x \in Nat
    BY <1>1 DEF View, Split
  <2> HIDE DEF n
  <2>5. Len(new) = Len(ns1) + 1 /\ new[y] = n /\ \A q \in 1..Len(ns1) : new[q] = ns1[q]
    BY <2>4
  <2> HIDE DEF new, ns1, s, x
  <2> DEFINE g == ToldSheet(ns1, root, M, 0, 1, s, x)
             h == Sheet(new, y, M \cup {y})
             r == ToldRow(ns1, root, 0, 1, s, x)
  <2>6. r = n
    <3>1. InsertAt(<< >>, 1, s) = <<s>>
      <4> DEFINE v == InsertAt(<< >>, 1, s)
      <4>1. << >> \in Seq(Int) /\ 1 \in 1..Len(<< >>) + 1
        OBVIOUS
      <4>2. v \in Seq(Int) /\ IsInsertion(v, << >>, 1, s)
        BY <2>4, <4>1, InsertionIs, Zenon
      <4> HIDE DEF v
      <4>3. Len(v) = 1 /\ v[1] = s
        BY <4>2 DEF IsInsertion
      <4>4. v = <<s>>
        BY <4>2, <4>3
      <4> QED BY <4>4 DEF v
    <3>2. InsertAt(<<root>>, 1 + 1, x) = <<root, x>>
      <4> DEFINE v == InsertAt(<<root>>, 1 + 1, x)
      <4>1. <<root>> \in Seq(Nat) /\ 1 + 1 \in 1..Len(<<root>>) + 1
        OBVIOUS
      <4>2. v \in Seq(Nat) /\ IsInsertion(v, <<root>>, 1 + 1, x)
        BY <2>4, <4>1, InsertionIs, Zenon
      <4> HIDE DEF v
      <4>3. Len(v) = 2 /\ v[1] = root /\ v[2] = x
        BY <4>2 DEF IsInsertion
      <4>4. v = <<root, x>>
        BY <4>2, <4>3
      <4> QED BY <4>4 DEF v
    <3> QED BY <2>3, <3>1, <3>2 DEF ToldRow, KeysAt, Above
  <2>7. 0 \notin M /\ y \notin M /\ y # 0
    BY <2>1, <2>4
  <2>8. /\ DOMAIN g = M \cup {0} /\ g[0] = n /\ \A q \in M : g[q] = ns1[q]
    <3>1. DOMAIN Sheet(ns1, root, M) = M \cup {0} /\ \A q \in M : Sheet(ns1, root, M)[q] = ns1[q]
      BY <2>7 DEF Sheet
    <3>2. g = [Sheet(ns1, root, M) EXCEPT ![0] = n]
      BY <2>6 DEF ToldSheet
    <3> HIDE DEF g
    <3> QED BY <2>7, <3>1, <3>2
  <2> HIDE DEF g, r, y
  <2>9. /\ DOMAIN h = (M \cup {y}) \cup {0} /\ \A q \in M \cup {y} : h[q] = new[q]
        /\ h[0].leaf = FALSE /\ h[0].keys = << >> /\ h[0].ptrs = <<y>>
    BY <2>7 DEF Sheet, Internal
  <2> HIDE DEF h
  <2>10. n.leaf = FALSE
    BY <2>3 DEF Internal
  <2>11. \A q \in M : h[q] = g[q] /\ h[y] = n
    BY <2>1, <2>5, <2>8, <2>9
  <2>12. DOMAIN h = DOMAIN g \cup {y} /\ 0 \in DOMAIN g /\ y \notin DOMAIN g /\ ~g[0].leaf
         /\ h[y] = g[0]
    BY <2>5, <2>7, <2>8, <2>9, <2>10
  <2>13. \A q \in DOMAIN g : q # 0 => h[q] = g[q]
    BY <2>8, <2>11
  <2>14. Ordered(h, [p \in DOMAIN g \cup {y} |-> IF p = y THEN B[0] ELSE B[p]])
    <3>1. Ordered(g, B)
      BY <2>1 DEF g
    <3> QED BY <2>9, <2>12, <2>13, <3>1, SheetTopped
  <2>15. InOrder(new, y)
    <3>1. M \cup {y} \subseteq 1..Len(new)
      <4>1. \A q \in 1..Len(ns1) : q \in 1..Len(new)
        BY <2>4, <2>5
      <4>2. y \in 1..Len(new)
        BY <2>4, <2>5 DEF y
      <4> QED BY <2>1, <4>1, <4>2
    <3> QED BY <2>14, <3>1 DEF InOrder, SheetInOrder, h
  <2>16. d.tree.count = y
    BY <1>1 DEF y, ns1
  <2> QED BY <1>3, <2>2, <2>15, <2>16 DEF n, new, ns1, s, x
<1> QED BY <1>2, <1>3

\* An empty leaf alone is in order.
LEMMA LoneInOrder ==
  ASSUME NEW ns, NEW x \in 1..Len(ns), ns[x].leaf, ns[x].entries = << >>
  PROVE  InOrder(ns, x)
<1> DEFINE g == Sheet(ns, x, {x})
           B == [p \in {x} \cup {0} |-> {}]
<1>1. x # 0
  OBVIOUS
<1>2. DOMAIN g = {x} \cup {0} /\ g[x] = ns[x] /\ g[0] = Internal(<< >>, <<x>>)
  BY <1>1 DEF Sheet
<1> HIDE DEF g
<1>3. B \in [DOMAIN g -> SUBSET Int]
  BY <1>2
<1>4. PageOrdered(g[x], B, B[x])
  <2>1. Len(ns[x].entries) = 0
    OBVIOUS
  <2>2. \A i \in 1..0 : FALSE
    OBVIOUS
  <2> HIDE DEF B
  <2>3. LeafKeyed(ns[x].entries, B[x])
    BY <2>1, <2>2 DEF LeafKeyed
  <2> QED BY <1>2, <2>3 DEF PageOrdered
<1>5. PageOrdered(g[0], B, B[0])
  <2>1. Len(<< >>) = 0 /\ Len(<<x>>) = 1 /\ <<x>>[1] = x
    OBVIOUS
  <2>2. \A i \in 1..0 : FALSE
    OBVIOUS
  <2>5. \A i \in 1..1 : i = 1
    OBVIOUS
  <2>3. Rising(<< >>, B[0])
    BY <2>1, <2>2 DEF Rising
  <2>6. x \in DOMAIN B /\ B[x] = {}
    OBVIOUS
  <2> HIDE DEF B
  <2>4. RowKeyed(<< >>, <<x>>, B, B[0])
    <3>1. ASSUME NEW i \in 1..Len(<<x>>)
          PROVE  /\ <<x>>[i] \in DOMAIN B
                 /\ \A k \in B[<<x>>[i]] : k \in B[0] /\ Amid(<< >>, i, k)
      <4>1. i = 1
        BY <2>1, <2>5
      <4>2. <<x>>[i] = x
        BY <2>1, <4>1
      <4> QED BY <2>6, <4>2
    <3>2. Len(<<x>>) = Len(<< >>) + 1
      BY <2>1
    <3> QED BY <2>3, <3>1, <3>2 DEF RowKeyed
  <2>7. g[0].leaf = FALSE /\ g[0].keys = << >> /\ g[0].ptrs = <<x>>
    BY <1>2 DEF Internal
  <2> QED BY <2>4, <2>7 DEF PageOrdered
<1> HIDE DEF B
<1>6. Ordered(g, B)
  BY <1>2, <1>3, <1>4, <1>5 DEF Ordered
<1> QED BY <1>6 DEF InOrder, SheetInOrder, g

\* The file is in key order from the root down, or holds no tree.
KeyInOrder(t) == t.root # 0 => InOrder(t.nodes, t.root)

\* So is the tree an entry is inserted into.
LEMMA GrownKeyed ==
  ASSUME NEW t, NEW lev, FileView(t, lev), KeyInOrder(t),
         NEW u, u = IF t.root = 0
                    THEN [AppendNode(t, Leaf(<< >>, 0)) EXCEPT !.root = t.count]
                    ELSE t
  PROVE  InOrder(u.nodes, u.root)
<1>1. CASE t.root = 0
  <2> DEFINE n == Leaf(<< >>, 0)
             v == AppendNode(t, n)
             x == Len(t.nodes) + 1
             new == Append(t.nodes, n)
  <2>1. t \in View /\ t.count = x /\ t.nodes \in Seq(Node) /\ Len(t.nodes) \in Nat
    BY DEF FileView, View
  <2>2. n.leaf = TRUE /\ n.entries = << >> /\ n \in Node
    BY DEF Leaf, Node
  <2>3. u = [v EXCEPT !.root = t.count]
    BY <1>1
  <2> HIDE DEF n
  <2>4. v.nodes = new /\ v \in View
    BY <2>1, <2>2, AppendedTo
  <2>5. u.nodes = new /\ u.root = x
    <3> HIDE DEF v, new, x
    <3> QED BY <2>1, <2>3, <2>4 DEF View
  <2>6. Len(new) = x /\ new[x] = n /\ x \in 1..x
    BY <2>1, <2>2
  <2> HIDE DEF new, x
  <2>7. x \in 1..Len(new) /\ new[x].leaf /\ new[x].entries = << >>
    BY <2>2, <2>6
  <2> QED BY <2>5, <2>7, LoneInOrder
<1>2. CASE t.root # 0
  BY <1>2 DEF KeyInOrder
<1> QED BY <1>1, <1>2

\* insertEntry keeps the pages in order, unless it misplaces a page.
LEMMA InsertKeyDrawn ==
  ASSUME NumericKeys, Keys \subseteq Int, NEW t, NEW lev, FileView(t, lev), NEW e \in Entry,
         NEW H, Pictured(t, H), KeyInOrder(t), ~Misplaces(t, e)
  PROVE  InOrder(InsertEntry(t, e).nodes, InsertEntry(t, e).root)
<1> DEFINE grown == IF t.root = 0
                    THEN [AppendNode(t, Leaf(<< >>, 0)) EXCEPT !.root = t.count]
                    ELSE t
           path == Path(grown, e.key, findInternalChildIds)
           Eq(f) == f = [k \in 0..Len(path) - 1 |->
                        IF k = 0 THEN insertIntoLeaf(grown, Last(path), e)
                        ELSE LET d == f[k - 1]
                             IN  IF d.split = NoSplit THEN d
                                 ELSE insertIntoInternal(d.tree, path[Len(path) - k], d.split,
                                                         KeyLen[e.key])]
           climb == CHOOSE f : Eq(f)
           top   == climb[Len(path) - 1]
<1>1. /\ \E lv, L0 : GoodView(grown, lv, L0) /\ (t.root = 0 => lv[grown.root] = 0)
      /\ \E L : Picture(grown.nodes, grown.root, L, H)
  BY GrownDrawn
<1>18. InOrder(grown.nodes, grown.root)
  BY GrownKeyed
<1>2. InsertEntry(t, e) =
        IF top.split = NoSplit THEN top.tree
        ELSE [AppendNode(top.tree, Internal(<<top.split.key>>, <<top.tree.root, top.split.page>>))
                EXCEPT !.root = top.tree.count]
  BY DEF InsertEntry, Climb, InsertPath
<1>3. t.root # 0 => \A k \in 1..Len(path) - 1 : climb[k - 1].split # NoSplit =>
         findInsertPos(grown.nodes[path[Len(path) - k]].keys, climb[k - 1].split.key)
           = findInternalChildIds(grown.nodes[path[Len(path) - k]], e.key)
  <2> SUFFICES ASSUME t.root # 0
               PROVE  \A k \in 1..Len(path) - 1 : climb[k - 1].split # NoSplit =>
                        findInsertPos(grown.nodes[path[Len(path) - k]].keys, climb[k - 1].split.key)
                          = findInternalChildIds(grown.nodes[path[Len(path) - k]], e.key)
    OBVIOUS
  <2>1. grown = t
    OBVIOUS
  <2>2. InsertPath(t, e) = path /\ Climb(t, e) = climb
    BY <2>1 DEF InsertPath, Climb
  <2> HIDE DEF grown, path, climb
  <2> QED BY <2>1, <2>2 DEF Misplaces
<1> HIDE DEF grown
<1>4. PICK lv, L0 : GoodView(grown, lv, L0) /\ (t.root = 0 => lv[grown.root] = 0)
  BY <1>1
<1>5. PICK L : Picture(grown.nodes, grown.root, L, H)
  BY <1>1
<1>6. Leveled(grown.nodes, lv) /\ L \subseteq 1..Len(grown.nodes) /\ grown.root \in L
      /\ grown.root \in 1..Len(grown.nodes)
  BY <1>4, <1>5 DEF GoodView, Picture
<1>7. PICK pick : /\ Picks(grown.nodes, pick)
                  /\ \A p \in 1..Len(grown.nodes) : ~grown.nodes[p].leaf =>
                        pick[p] = findInternalChildIds(grown.nodes[p], e.key)
                  /\ Walk(grown.nodes, lv, pick, grown.root, path)
  BY <1>6, DescentRight
<1> HIDE DEF path
<1>8. /\ \E f : IsClimb(grown, e, path, f)
      /\ \A f : IsClimb(grown, e, path, f) =>
            \A k \in 0..lv[grown.root] : Grown(f[k], grown.nodes, lv, L0, grown.root, k)
  BY <1>4, <1>7, ClimbIs
<1>9. \A f : Eq(f) <=> IsClimb(grown, e, path, f)
  BY DEF IsClimb
<1> HIDE DEF Eq
<1>10. IsClimb(grown, e, path, climb)
  <2>1. Eq(climb)
    BY <1>8, <1>9
  <2> QED BY <1>9, <2>1
<1> HIDE DEF climb
<1>11. Len(path) = lv[grown.root] + 1 /\ lv[grown.root] \in Nat
  BY <1>6, <1>7 DEF Walk, Leveled
<1>12. \A k \in 1..Len(path) - 1 : climb[k - 1].split # NoSplit =>
         findInsertPos(grown.nodes[path[Len(path) - k]].keys, climb[k - 1].split.key)
           = pick[path[Len(path) - k]]
  <2> SUFFICES ASSUME NEW k \in 1..Len(path) - 1, climb[k - 1].split # NoSplit
               PROVE  findInsertPos(grown.nodes[path[Len(path) - k]].keys, climb[k - 1].split.key)
                        = pick[path[Len(path) - k]]
    OBVIOUS
  <2>1. t.root # 0
    BY <1>4, <1>11
  <2>2. Len(path) - k \in 1..lv[grown.root] /\ Len(path) - k \in 1..lv[grown.root] + 1
    BY <1>11
  <2>3. path[Len(path) - k] \in 1..Len(grown.nodes)
    BY <1>7, <2>2 DEF Walk
  <2>4. ~grown.nodes[path[Len(path) - k]].leaf
    BY <1>5, <1>6, <1>7, <2>2, WalkDrawn
  <2> QED BY <1>3, <1>7, <2>1, <2>3, <2>4
<1>19. \E B : Ordered(Sheet(grown.nodes, grown.root, L), B) /\ e.key \in B[path[Len(path)]]
  <2> DEFINE g == Sheet(grown.nodes, grown.root, L)
             W == WalkPages(path, lv[grown.root] + 1)
  <2>1. PICK B : Ordered(g, B)
    BY <1>5, <1>6, <1>18, PictureInOrder DEF SheetInOrder
  <2>2. e.key \in Int
    BY DEF Entry
  <2>3. Entered(g, W, e.key)
    BY <1>5, <1>6, <1>7, <2>2, WalkEntered
  <2>4. path[Len(path)] \in W
    BY <1>11 DEF WalkPages
  <2> HIDE DEF g, W
  <2>5. path[Len(path)] \in DOMAIN B
    BY <2>1, <2>3, <2>4 DEF Entered, Ordered
  <2>6. Ordered(g, KeysWith(B, W, e.key)) /\ e.key \in KeysWith(B, W, e.key)[path[Len(path)]]
    <3>1. Ordered(g, KeysWith(B, W, e.key))
      BY <2>1, <2>3, SheetGrown
    <3>2. e.key \in KeysWith(B, W, e.key)[path[Len(path)]]
      BY <2>4, <2>5 DEF KeysWith
    <3> QED BY <3>1, <3>2
  <2> QED BY <2>6 DEF g
<1>20. PICK B : Ordered(Sheet(grown.nodes, grown.root, L), B) /\ e.key \in B[path[Len(path)]]
  BY <1>19
<1>13. KeyDrawn(climb[Len(path) - 1], L, grown.root, 0, 1)
  <2>1. Picks(grown.nodes, pick) /\ Walk(grown.nodes, lv, pick, grown.root, path)
    BY <1>7
  <2>2. /\ Ordered(Sheet(grown.nodes, grown.root, L), B)
        /\ e.key \in B[path[Len(path)]] /\ e \in Entry
    BY <1>20
  <2>3. NumericKeys /\ Keys \subseteq Int /\ GoodView(grown, lv, L0)
    BY <1>4
  <2> QED BY ONLY <1>5, <1>10, <1>12, <2>1, <2>2, <2>3, ClimbKeyDrawn
<1>14. Grown(top, grown.nodes, lv, L0, grown.root, lv[grown.root])
  <2>1. lv[grown.root] \in 0..lv[grown.root] /\ Len(path) - 1 = lv[grown.root]
    BY <1>11
  <2> QED BY <1>8, <1>10, <2>1
<1>21. grown.root \in Nat
  <2>1. grown \in View
    BY <1>4 DEF GoodView
  <2> QED BY <2>1 DEF View
<1>15. IF top.split = NoSplit THEN InOrder(top.tree.nodes, top.tree.root)
       ELSE LET u == AppendNode(top.tree, Internal(<<top.split.key>>,
                                                   <<top.tree.root, top.split.page>>))
            IN  InOrder(u.nodes, top.tree.count)
  BY <1>6, <1>13, <1>14, <1>21, TopKeyDrawn
<1> HIDE DEF top
<1> DEFINE r == InsertEntry(t, e)
<1>16. InOrder(r.nodes, r.root)
  <2>1. CASE top.split = NoSplit
    BY <1>2, <1>15, <2>1
  <2>2. CASE top.split # NoSplit
    <3> DEFINE u == AppendNode(top.tree, Internal(<<top.split.key>>,
                                                  <<top.tree.root, top.split.page>>))
    <3>1. r = [u EXCEPT !.root = top.tree.count]
      BY <1>2, <2>2
    <3>2. u = [top.tree EXCEPT !.nodes = u.nodes, !.count = u.count]
      BY <1>14 DEF AppendNode, Grown, View
    <3>3. top.tree \in View
      BY <1>14 DEF Grown
    <3>4. r.nodes = u.nodes /\ r.root = top.tree.count
      <4> HIDE DEF r, u
      <4> QED BY <3>1, <3>2, <3>3 DEF View
    <3> QED BY <1>15, <2>2, <3>4
  <2> QED BY <2>1, <2>2
<1> QED BY <1>16 DEF r

\* The keys and the pointers of two pages one behind the other, with a separator between.
LEMMA DividedMade ==
  ASSUME NEW K, NEW ka \in Seq(K), NEW kb \in Seq(K), NEW m \in K,
         NEW Q, NEW pa \in Seq(Q), NEW pb \in Seq(Q),
         Len(pa) = Len(ka) + 1, Len(pb) = Len(kb) + 1
  PROVE  Divided(Append(ka, m) \o kb, pa \o pb, m, ka, pa, kb, pb)
<1> DEFINE k == Append(ka, m)
           z == k \o kb
<1>1. k \in Seq(K) /\ IsAppend(k, ka, m)
  BY AppendIs
<1>2. Len(k) = Len(ka) + 1 /\ k[Len(ka) + 1] = m /\ \A i \in 1..Len(ka) : k[i] = ka[i]
  BY <1>1 DEF IsAppend
<1>3. Len(ka) \in Nat /\ Len(kb) \in Nat
  OBVIOUS
<1> HIDE DEF k
<1>4. z \in Seq(K) /\ Parts(z, k, kb)
  BY <1>1, PartsMade
<1> HIDE DEF z
<1>5. /\ Len(z) = Len(k) + Len(kb) /\ \A i \in 1..Len(k) : z[i] = k[i]
      /\ \A i \in 1..Len(kb) : z[Len(k) + i] = kb[i]
  BY <1>4 DEF Parts
<1>6. Len(z) = Len(ka) + Len(kb) + 1
  BY <1>2, <1>3, <1>5
<1>7. z[Len(ka) + 1] = m
  <2>1. Len(ka) + 1 \in 1..Len(k)
    BY <1>2, <1>3
  <2> QED BY <1>2, <1>5, <2>1
<1>8. \A i \in 1..Len(ka) : z[i] = ka[i]
  <2>1. \A i \in 1..Len(ka) : i \in 1..Len(k)
    BY <1>2, <1>3
  <2> QED BY <1>2, <1>5, <2>1
<1>9. \A i \in 1..Len(kb) : z[Len(ka) + 1 + i] = kb[i]
  BY <1>2, <1>5
<1>10. Parts(pa \o pb, pa, pb)
  BY PartsMade
<1>11. Divided(z, pa \o pb, m, ka, pa, kb, pb)
  BY <1>6, <1>7, <1>8, <1>9, <1>10 DEF Divided
<1> QED BY <1>11 DEF z, k

\* The last key of the left page goes up, and the separator down to the right page.
LEMMA KeysTurnedLeft ==
  ASSUME NEW K, NEW ka \in Seq(K), NEW kb \in Seq(K), NEW m \in K, kb # << >>,
         NEW Q, NEW pa \in Seq(Q), NEW pb \in Seq(Q),
         Len(pa) = Len(ka) + 1, Len(pb) = Len(kb) + 1
  PROVE  /\ Divided(Append(kb, m) \o ka, pb \o pa, Last(kb), Front(kb), Front(pb),
                    Cons(m, ka), Cons(Last(pb), pa))
         /\ Len(Front(kb)) \in Nat /\ Len(Cons(m, ka)) \in Nat
<1> DEFINE A  == Cons(m, ka)
           B  == Front(kb)
           PA == Cons(Last(pb), pa)
           PB == Front(pb)
           z  == Append(kb, m) \o ka
           y  == pb \o pa
<1>1. Divided(z, y, m, kb, pb, ka, pa)
  BY DividedMade
<1>2. A \in Seq(K) /\ IsCons(A, m, ka)
  BY ConsIs DEF Cons
<1>3. B \in Seq(K) /\ IsFront(B, kb) /\ Last(kb) = kb[Len(kb)] /\ Len(kb) > 0
  BY FrontIs
<1>4. Len(ka) \in Nat /\ Len(kb) \in Nat /\ Len(pa) \in Nat /\ Len(pb) \in Nat
  OBVIOUS
<1>5. pb # << >>
  BY <1>4
<1>6. Parts(y, PB, PA)
  BY <1>5, RowTurnedLeft
<1>7. PB \in Seq(Q) /\ IsFront(PB, pb) /\ Last(pb) \in Q
  BY <1>5, FrontIs
<1>8. PA \in Seq(Q) /\ IsCons(PA, Last(pb), pa)
  BY <1>7, ConsIs DEF Cons
<1> HIDE DEF A, B, PA, PB, y, z
<1>9. /\ Len(z) = Len(kb) + Len(ka) + 1 /\ z[Len(kb) + 1] = m
      /\ \A i \in 1..Len(kb) : z[i] = kb[i]
      /\ \A i \in 1..Len(ka) : z[Len(kb) + 1 + i] = ka[i]
  BY <1>1 DEF Divided
<1>10. /\ Len(A) = Len(ka) + 1 /\ A[1] = m /\ \A i \in 1..Len(ka) : A[i + 1] = ka[i]
       /\ Len(B) = Len(kb) - 1 /\ \A i \in 1..Len(kb) - 1 : B[i] = kb[i]
       /\ Len(PA) = Len(pa) + 1 /\ Len(PB) = Len(pb) - 1
  BY <1>2, <1>3, <1>7, <1>8 DEF IsCons, IsFront
<1>11. Len(z) = Len(B) + Len(A) + 1 /\ Len(PB) = Len(B) + 1 /\ Len(PA) = Len(A) + 1
  BY <1>4, <1>9, <1>10
<1>12. z[Len(B) + 1] = Last(kb)
  <2>1. Len(B) + 1 = Len(kb) /\ Len(kb) \in 1..Len(kb)
    BY <1>3, <1>4, <1>10
  <2> QED BY <1>3, <1>9, <2>1
<1>13. \A i \in 1..Len(B) : z[i] = B[i]
  <2>1. \A i \in 1..Len(B) : i \in 1..Len(kb) /\ i \in 1..Len(kb) - 1
    BY <1>4, <1>10
  <2> QED BY <1>9, <1>10, <2>1
<1>14. ASSUME NEW i \in 1..Len(A) PROVE z[Len(B) + 1 + i] = A[i]
  <2>1. CASE i = 1
    <3>1. Len(B) + 1 + i = Len(kb) + 1
      BY <1>4, <1>10, <2>1
    <3> QED BY <1>9, <1>10, <2>1, <3>1
  <2>2. CASE i # 1
    <3>1. i - 1 \in 1..Len(ka) /\ Len(B) + 1 + i = Len(kb) + 1 + (i - 1) /\ (i - 1) + 1 = i
      BY <1>4, <1>10, <2>2
    <3> QED BY <1>9, <1>10, <3>1
  <2> QED BY <2>1, <2>2
<1>15. Divided(z, y, Last(kb), B, PB, A, PA)
  BY <1>6, <1>11, <1>12, <1>13, <1>14 DEF Divided
<1>16. Len(B) \in Nat /\ Len(A) \in Nat
  BY <1>2, <1>3
<1> QED BY <1>15, <1>16 DEF A, B, PA, PB, y, z

\* The first key of the right page goes up, and the separator down to the left page.
LEMMA KeysTurnedRight ==
  ASSUME NEW K, NEW ka \in Seq(K), NEW kb \in Seq(K), NEW m \in K, kb # << >>,
         NEW Q, NEW pa \in Seq(Q), NEW pb \in Seq(Q),
         Len(pa) = Len(ka) + 1, Len(pb) = Len(kb) + 1
  PROVE  /\ Divided(Append(ka, m) \o kb, pa \o pb, Head(kb), Append(ka, m), Append(pa, Head(pb)),
                    Tail(kb), Tail(pb))
         /\ Len(Append(ka, m)) \in Nat /\ Len(Tail(kb)) \in Nat
<1> DEFINE A  == Append(ka, m)
           B  == Tail(kb)
           PA == Append(pa, Head(pb))
           PB == Tail(pb)
           z  == A \o kb
           y  == pa \o pb
<1>2. A \in Seq(K) /\ IsAppend(A, ka, m)
  BY AppendIs
<1>3. B \in Seq(K) /\ IsTail(B, kb) /\ Head(kb) = kb[1] /\ Len(kb) > 0
  BY TailIs
<1>4. Len(ka) \in Nat /\ Len(kb) \in Nat /\ Len(pa) \in Nat /\ Len(pb) \in Nat
  OBVIOUS
<1>5. pb # << >>
  BY <1>4
<1>6. Parts(y, PA, PB)
  BY <1>5, RowTurnedRight
<1>7. PB \in Seq(Q) /\ IsTail(PB, pb) /\ Head(pb) \in Q
  BY <1>5, TailIs
<1>8. PA \in Seq(Q) /\ IsAppend(PA, pa, Head(pb))
  BY <1>7, AppendIs
<1> HIDE DEF A, B, PA, PB, y
<1>1. Parts(z, A, kb)
  BY <1>2, PartsMade
<1> HIDE DEF z
<1>9. /\ Len(z) = Len(A) + Len(kb) /\ \A i \in 1..Len(A) : z[i] = A[i]
      /\ \A i \in 1..Len(kb) : z[Len(A) + i] = kb[i]
  BY <1>1 DEF Parts
<1>10. /\ Len(A) = Len(ka) + 1
       /\ Len(B) = Len(kb) - 1 /\ \A i \in 1..Len(kb) - 1 : B[i] = kb[i + 1]
       /\ Len(PA) = Len(pa) + 1 /\ Len(PB) = Len(pb) - 1
  BY <1>2, <1>3, <1>7, <1>8 DEF IsAppend, IsTail
<1>11. Len(z) = Len(A) + Len(B) + 1 /\ Len(PB) = Len(B) + 1 /\ Len(PA) = Len(A) + 1
  BY <1>4, <1>9, <1>10
<1>12. z[Len(A) + 1] = Head(kb)
  <2>1. 1 \in 1..Len(kb)
    BY <1>3, <1>4
  <2> QED BY <1>3, <1>9, <2>1
<1>13. ASSUME NEW i \in 1..Len(B) PROVE z[Len(A) + 1 + i] = B[i]
  <2>1. i \in 1..Len(kb) - 1 /\ i + 1 \in 1..Len(kb) /\ Len(A) + 1 + i = Len(A) + (i + 1)
    BY <1>4, <1>10
  <2> QED BY <1>9, <1>10, <2>1
<1>14. Divided(z, y, Head(kb), A, PA, B, PB)
  BY <1>6, <1>9, <1>11, <1>12, <1>13 DEF Divided
<1>15. Len(B) \in Nat /\ Len(A) \in Nat
  BY <1>2, <1>3
<1> QED BY <1>14, <1>15 DEF A, B, PA, PB, y, z

\* Two leaves, an entry moved from one to the other.
LEMMA LeavesTurned ==
  ASSUME NEW a \in Seq(Entry), NEW b \in Seq(Entry), b # << >>,
         NEW A, NEW B, NEW z, A.leaf, B.leaf, z.leaf
  PROVE  /\ A.entries = Cons(Last(b), a) /\ B.entries = Front(b) /\ z.entries = b \o a
              => Splits(z, B, Last(b).key, A)
         /\ A.entries = Append(a, Head(b)) /\ B.entries = Tail(b) /\ z.entries = a \o b
              => Splits(z, A, (IF Len(b) = 1 THEN Head(b) ELSE b[2]).key, B)
<1>1. Len(a) \in Nat /\ Len(b) \in Nat
  OBVIOUS
<1>2. Len(b) > 0 /\ Last(b) = b[Len(b)] /\ Head(b) = b[1] /\ Last(b) \in Entry /\ Head(b) \in Entry
  BY FrontIs, TailIs
<1>3. ASSUME A.entries = Cons(Last(b), a), B.entries = Front(b), z.entries = b \o a
      PROVE  Splits(z, B, Last(b).key, A)
  <2>1. Parts(z.entries, B.entries, A.entries)
    BY <1>3, RowTurnedLeft
  <2>2. Len(B.entries) = Len(b) - 1 /\ Len(A.entries) = Len(a) + 1
    BY <1>2, <1>3, FrontIs, ConsIs DEF IsFront, IsCons, Cons
  <2>3. Parts(z.entries, b, a)
    BY <1>3, PartsMade
  <2>4. /\ Len(b) \in 1..Len(z.entries) /\ z.entries[Len(b)] = Last(b)
        /\ Len(B.entries) <= Len(b) /\ Len(b) <= Len(B.entries) + 1
    BY <1>1, <1>2, <2>2, <2>3 DEF Parts
  <2>5. Len(B.entries) \in Nat /\ Len(A.entries) \in Nat
    BY <1>1, <1>2, <2>2
  <2> QED BY <2>1, <2>4, <2>5 DEF Splits
<1>4. ASSUME A.entries = Append(a, Head(b)), B.entries = Tail(b), z.entries = a \o b
      PROVE  Splits(z, A, (IF Len(b) = 1 THEN Head(b) ELSE b[2]).key, B)
  <2>1. Parts(z.entries, A.entries, B.entries)
    BY <1>4, RowTurnedRight
  <2>2. Len(B.entries) = Len(b) - 1 /\ Len(A.entries) = Len(a) + 1
    BY <1>2, <1>4, TailIs, AppendIs DEF IsTail, IsAppend
  <2>3. /\ Len(z.entries) = Len(a) + Len(b)
        /\ \A i \in 1..Len(b) : z.entries[Len(a) + i] = b[i]
    BY <1>4, PartsMade DEF Parts
  <2>5. Len(B.entries) \in Nat /\ Len(A.entries) \in Nat
    BY <1>1, <1>2, <2>2
  <2>6. CASE Len(b) = 1
    <3>1. 1 \in 1..Len(b) /\ Len(a) + 1 \in 1..Len(z.entries)
      BY <1>1, <2>3, <2>6
    <3>2. /\ z.entries[Len(a) + 1] = Head(b)
          /\ Len(A.entries) <= Len(a) + 1 /\ Len(a) + 1 <= Len(A.entries) + 1
      BY <1>1, <1>2, <2>2, <2>3, <3>1
    <3> QED BY <2>1, <2>5, <2>6, <3>1, <3>2 DEF Splits
  <2>7. CASE Len(b) # 1
    <3>0. Len(b) > 1
      <4> DEFINE n == Len(b)
      <4>1. n \in Nat /\ n > 0 /\ n # 1
        BY <1>1, <1>2, <2>7
      <4> HIDE DEF n
      <4>2. n > 1
        BY <4>1
      <4> QED BY <4>2 DEF n
    <3>1. 2 \in 1..Len(b) /\ Len(a) + 2 \in 1..Len(z.entries)
      BY <1>1, <2>3, <3>0
    <3>2. /\ z.entries[Len(a) + 2] = b[2]
          /\ Len(A.entries) <= Len(a) + 2 /\ Len(a) + 2 <= Len(A.entries) + 1
      BY <1>1, <1>2, <2>2, <2>3, <3>1
    <3> QED BY <2>1, <2>5, <2>7, <3>1, <3>2 DEF Splits
  <2> QED BY <2>6, <2>7
<1> QED BY <1>3, <1>4

\* The underflowed page and its sibling, in order next to each other.
LEMMA NeighbouredIs ==
  ASSUME NEW t, NEW lev, NEW M, NEW p, NEW j, NEW c, NEW s, Siblings(t, lev, M, p, j, c, s),
         NEW root, NEW L, NEW H, Picture(t.nodes, root, L, H), p \in L
  PROVE  Neighboured(Sheet(t.nodes, root, L), p, Between(j),
                     t.nodes[p].ptrs[Between(j)], t.nodes[p].ptrs[Between(j) + 1])
<1> DEFINE ns == t.nodes
           at == Between(j)
           l  == ns[p].ptrs[at]
           r  == ns[p].ptrs[at + 1]
           g  == Sheet(ns, root, L)
<1>1. Around(ns, root, L, p, j, c, s, l, r)
  BY AroundIs
<1>2. /\ at \in 1..Len(ns[p].keys) /\ at + 1 \in 1..Len(ns[p].ptrs) /\ at \in 1..Len(ns[p].ptrs)
      /\ c # s
  BY DEF Siblings
<1>3. /\ p # 0 /\ l \in L /\ r \in L /\ p # l /\ p # r /\ ~ns[p].leaf /\ l # r
  BY <1>1, <1>2 DEF Around, ChildOf
<1>4. DOMAIN g = L \cup {0} /\ g[p] = ns[p]
  BY <1>3 DEF Sheet
<1>5. Picture(ns, root, L, H)
  OBVIOUS
<1> HIDE DEF g, ns, at
<1>6. \A q \in DOMAIN g : ~g[q].leaf => \A i \in 1..Len(g[q].ptrs) :
        /\ g[q].ptrs[i] = g[p].ptrs[at] => q = p /\ i = at
        /\ g[q].ptrs[i] = g[p].ptrs[at + 1] => q = p /\ i = at + 1
  <2> SUFFICES ASSUME NEW q \in DOMAIN g, ~g[q].leaf, NEW i \in 1..Len(g[q].ptrs)
               PROVE  /\ g[q].ptrs[i] = g[p].ptrs[at] => q = p /\ i = at
                      /\ g[q].ptrs[i] = g[p].ptrs[at + 1] => q = p /\ i = at + 1
    OBVIOUS
  <2>1. /\ p \in DOMAIN g /\ ~g[p].leaf /\ at \in 1..Len(g[p].ptrs) /\ at + 1 \in 1..Len(g[p].ptrs)
        /\ g = Sheet(ns, root, L)
    BY <1>2, <1>3, <1>4 DEF g
  <2>2. ASSUME NEW k \in 1..Len(g[p].ptrs), g[q].ptrs[i] = g[p].ptrs[k] PROVE q = p /\ i = k
    <3>1. /\ Picture(ns, root, L, H) /\ q \in DOMAIN g /\ ~g[q].leaf
          /\ i \in 1..Len(g[q].ptrs) /\ p \in DOMAIN g /\ ~g[p].leaf /\ k \in 1..Len(g[p].ptrs)
          /\ g[q].ptrs[i] = g[p].ptrs[k]
      BY <1>5, <2>1, <2>2
    <3> QED BY <3>1, PointedOnce DEF g
  <2> QED BY <2>1, <2>2
<1>7. Neighboured(g, p, at, l, r)
  BY <1>2, <1>3, <1>4, <1>6 DEF Neighboured
<1> QED BY <1>7 DEF g, ns, at

\* What moves between the neighbours l and r, and p above them, in the pages.
Shifts(ns, new, p, at, l, r, s, z) ==
  /\ \A q \in 1..Len(ns) : q # l /\ q # r /\ q # p => new[q] = ns[q]
  /\ Len(new) = Len(ns) /\ ~new[p].leaf /\ new[p].ptrs = ns[p].ptrs
  /\ Len(new[p].keys) = Len(ns[p].keys) /\ new[p].keys[at] = s
  /\ \A i \in 1..Len(ns[p].keys) : i # at => new[p].keys[i] = ns[p].keys[i]
  /\ Merges(z, ns[l], ns[p].keys[at], ns[r]) /\ Splits(z, new[l], s, new[r])

\* It leaves the pages in order.
LEMMA ShiftKeyed ==
  ASSUME NEW ns, NEW root, NEW L, NEW H, Picture(ns, root, L, H), SheetInOrder(ns, root, L),
         NEW p \in L, NEW at, NEW l \in L, NEW r \in L,
         Neighboured(Sheet(ns, root, L), p, at, l, r),
         NEW new, NEW s, NEW z, Shifts(ns, new, p, at, l, r, s, z)
  PROVE  InOrder(new, root)
<1> DEFINE g == Sheet(ns, root, L)
           h == Sheet(new, root, L)
<1>1. PICK B : Ordered(g, B)
  BY DEF SheetInOrder
<1>2. L \subseteq 1..Len(ns) /\ root \in L /\ 0 \notin L
  BY PictureKids
<1>3. /\ DOMAIN g = L \cup {0} /\ DOMAIN h = L \cup {0} /\ g[0] = h[0]
      /\ \A q \in L : g[q] = ns[q] /\ h[q] = new[q]
  BY <1>2 DEF Sheet
<1> HIDE DEF g, h
<1>4. \A q \in DOMAIN g : q # l /\ q # r /\ q # p => h[q] = g[q]
  BY <1>2, <1>3 DEF Shifts
<1>5. MovedOver(g, h, p, at, l, r, s, z)
  BY <1>3, <1>4 DEF Shifts, MovedOver
<1>6. \E C : Ordered(h, C)
  <2>1. Neighboured(g, p, at, l, r)
    BY DEF g
  <2> QED BY <1>1, <1>5, <2>1, SheetShifted
<1>7. Len(new) = Len(ns)
  BY DEF Shifts
<1> QED BY <1>2, <1>6, <1>7 DEF InOrder, SheetInOrder, h

\* Page r is merged into l, and p above them told of it.
LEMMA MergeKeyed ==
  ASSUME NEW ns, NEW root, NEW L, NEW H, Picture(ns, root, L, H), SheetInOrder(ns, root, L),
         NEW p \in L, NEW at, NEW l \in L, NEW r \in L,
         Neighboured(Sheet(ns, root, L), p, at, l, r),
         NEW new, Len(new) = Len(ns), \A q \in 1..Len(ns) : q # l /\ q # r /\ q # p => new[q] = ns[q],
         ~new[p].leaf, IsRemoval(new[p].keys, ns[p].keys, at),
         IsRemoval(new[p].ptrs, ns[p].ptrs, at + 1), Merges(new[l], ns[l], ns[p].keys[at], ns[r])
  PROVE  InOrder(new, root)
<1> DEFINE g == Sheet(ns, root, L)
           M == L \ {r}
           h == Sheet(new, root, M)
<1>1. PICK B : Ordered(g, B)
  BY DEF SheetInOrder
<1>2. L \subseteq 1..Len(ns) /\ root \in L /\ 0 \notin L
  BY PictureKids
<1>3. /\ DOMAIN g = L \cup {0} /\ DOMAIN h = (L \ {r}) \cup {0} /\ g[0] = h[0]
      /\ \A q \in L : g[q] = ns[q] /\ (q # r => h[q] = new[q])
      /\ g[0] = Internal(<< >>, <<root>>)
  BY <1>2 DEF Sheet
<1>4. Neighboured(g, p, at, l, r)
  OBVIOUS
<1> HIDE DEF g, h
<1>5. l # r /\ p # l /\ p # r
  BY <1>4 DEF Neighboured
<1>6. root # r
  <2>1. ~g[0].leaf /\ 1 \in 1..Len(g[0].ptrs) /\ g[0].ptrs[1] = root /\ 0 \in DOMAIN g
    BY <1>3 DEF Internal
  <2>2. root = r => 0 = p
    BY <1>4, <2>1 DEF Neighboured
  <2> QED BY <1>2, <2>2
<1>7. DOMAIN h = DOMAIN g \ {r}
  BY <1>2, <1>3
<1>8. \A q \in DOMAIN g : q # l /\ q # r /\ q # p => h[q] = g[q]
  BY <1>2, <1>3
<1>9. /\ ~h[p].leaf /\ IsRemoval(h[p].keys, g[p].keys, at)
      /\ IsRemoval(h[p].ptrs, g[p].ptrs, at + 1) /\ Merges(h[l], g[l], g[p].keys[at], g[r])
  BY <1>3, <1>5
<1>10. Ordered(h, JoinedKeys(g, B, p, at, l, r))
  BY <1>1, <1>4, <1>7, <1>8, <1>9, SheetMerged, ZenonT(60)
<1>11. M \subseteq 1..Len(new) /\ root \in M /\ SheetInOrder(new, root, M)
  BY <1>2, <1>6, <1>10 DEF SheetInOrder, h
<1> HIDE DEF M
<1> QED BY <1>11 DEF InOrder

\* A page merged from two leaves or two internal pages and their separator.
LEMMA MergesMade ==
  ASSUME NEW a, NEW b, NEW m \in Keys,
         \/ LeafFits(a) /\ LeafFits(b)
         \/ InternalFits(a) /\ InternalFits(b)
  PROVE  Merges(mergedNode(a, m, b), a, m, b)
<1> DEFINE z == mergedNode(a, m, b)
<1>1. CASE LeafFits(a) /\ LeafFits(b)
  <2>1. /\ a.leaf = TRUE /\ b.leaf = TRUE /\ a.entries \in Seq(Entry) /\ b.entries \in Seq(Entry)
        /\ Len(a.entries) \in Nat /\ Len(b.entries) \in Nat
    BY <1>1, LeafPage
  <2>2. z.leaf = TRUE /\ z.entries = a.entries \o b.entries
    BY <2>1 DEF mergedNode, Leaf
  <2> HIDE DEF z
  <2>3. Parts(z.entries, a.entries, b.entries)
    BY <2>1, <2>2, PartsMade
  <2>4. Merges(z, a, m, b)
    BY <2>1, <2>2, <2>3 DEF Merges
  <2> QED BY <2>4 DEF z
<1>2. CASE InternalFits(a) /\ InternalFits(b)
  <2>1. /\ a.leaf = FALSE /\ a.keys \in Seq(Keys) /\ a.ptrs \in Seq(Nat) /\ Len(a.ptrs) = Len(a.keys) + 1
        /\ b.leaf = FALSE /\ b.keys \in Seq(Keys) /\ b.ptrs \in Seq(Nat) /\ Len(b.ptrs) = Len(b.keys) + 1
    BY <1>2, InternalPage
  <2>2. z.leaf = FALSE /\ z.keys = Append(a.keys, m) \o b.keys /\ z.ptrs = a.ptrs \o b.ptrs
    BY <2>1 DEF mergedNode, Internal
  <2> DEFINE ak == a.keys
             bk == b.keys
             ap == a.ptrs
             bp == b.ptrs
  <2>3. /\ ak \in Seq(Keys) /\ bk \in Seq(Keys) /\ ap \in Seq(Nat) /\ bp \in Seq(Nat)
        /\ Len(ap) = Len(ak) + 1 /\ Len(bp) = Len(bk) + 1
    BY <2>1
  <2> HIDE DEF z, ak, bk, ap, bp
  <2>4. Divided(Append(ak, m) \o bk, ap \o bp, m, ak, ap, bk, bp)
    BY <2>3, DividedMade
  <2>5. Merges(z, a, m, b)
    BY <2>1, <2>2, <2>4 DEF Merges, ak, bk, ap, bp
  <2> QED BY <2>5 DEF z
<1> QED BY <1>1, <1>2

\* An internal page with one key changed.
KeyNow(m, n, i, k) ==
  /\ ~m.leaf /\ m.ptrs = n.ptrs /\ Len(m.keys) = Len(n.keys) /\ m.keys[i] = k
  /\ \A x \in 1..Len(n.keys) : x # i => m.keys[x] = n.keys[x]

\* Changing a key of an internal page is that change.
LEMMA KeyNowIs ==
  ASSUME NEW n, InternalFits(n), NEW i \in 1..Len(n.keys), NEW k \in Keys
  PROVE  KeyNow([n EXCEPT !.keys[i] = k], n, i, k)
<1> DEFINE m    == [n EXCEPT !.keys[i] = k]
           keys == [n.keys EXCEPT ![i] = k]
<1>1. PageAgain(m, n)
  BY KeyChanged
<1>2. n = Internal(n.keys, n.ptrs) /\ n.keys \in Seq(Keys)
  BY InternalPage DEF InternalFits
<1>3. m.keys = keys
  BY <1>2 DEF Internal
<1>4. Len(keys) = Len(n.keys) /\ keys[i] = k /\ \A x \in 1..Len(n.keys) : x # i => keys[x] = n.keys[x]
  BY <1>2
<1> HIDE DEF m, keys
<1>5. KeyNow(m, n, i, k)
  BY <1>1, <1>3, <1>4 DEF KeyNow, PageAgain
<1> QED BY <1>5 DEF m

\* redistributeLeaves leaves the pages in order.
LEMMA LeavesMovedKeyed ==
  ASSUME NumericKeys, NEW t, NEW lev, NEW M, NEW root, NEW p, NEW j,
         Underflowed(t, lev, M, root, p, j), NEW c, NEW s, Siblings(t, lev, M, p, j, c, s),
         lev[c] = 0, Used(t.nodes[s]) > MIN_DATA_BYTES,
         NEW L, NEW H, Picture(t.nodes, root, L, H), p \in L, SheetInOrder(t.nodes, root, L)
  PROVE  InOrder(redistributeLeaves(t, p, j).nodes, root)
<1> DEFINE ns    == t.nodes
           at    == Between(j)
           l     == ns[p].ptrs[at]
           r     == ns[p].ptrs[at + 1]
           child == ns[c].entries
           sib   == ns[s].entries
           left  == j > 1
           moved == IF left THEN Last(sib) ELSE Head(sib)
           first == IF left \/ Len(sib) = 1 THEN moved ELSE sib[2]
           A     == IF left THEN Cons(moved, child) ELSE Append(child, moved)
           B     == IF left THEN Front(sib) ELSE Tail(sib)
           new   == [ns EXCEPT ![c].entries = A, ![s].entries = B, ![p].keys[at] = first.key]
           u     == redistributeLeaves(t, p, j)
           z     == Leaf(ns[l].entries \o ns[r].entries, 0)
<1>1. /\ ns \in Seq(Node) /\ DOMAIN ns = 1..Len(ns) /\ Len(ns) \in Nat
      /\ p \in 1..Len(ns) /\ c \in 1..Len(ns) /\ s \in 1..Len(ns)
      /\ InternalFits(ns[p]) /\ lev[s] = 0
      /\ c = ns[p].ptrs[j] /\ s = ns[p].ptrs[Sibling(j)]
      /\ c # s /\ c # p /\ s # p /\ at \in 1..Len(ns[p].keys)
  BY DEF Siblings
<1>2. t \in View /\ Leveled(ns, lev) /\ Underflows(ns[c])
  BY <1>1 DEF Underflowed
<1>3. u.nodes = new
  <2>1. u = [t EXCEPT !.nodes = new]
    BY <1>1 DEF redistributeLeaves, Between
  <2> HIDE DEF new, u
  <2> QED BY <1>2, <2>1 DEF View
<1>4. Around(ns, root, L, p, j, c, s, l, r) /\ Neighboured(Sheet(ns, root, L), p, at, l, r)
  BY AroundIs, NeighbouredIs
<1>5. LeafFits(ns[c]) /\ LeafFits(ns[s])
  <2>4. Leveled(ns, lev) /\ c \in 1..Len(ns) /\ s \in 1..Len(ns) /\ lev[c] = 0 /\ lev[s] = 0
    BY <1>1, <1>2
  <2> HIDE DEF ns
  <2>2. \A x \in 1..Len(ns) : lev[x] = 0 => LeafFits(ns[x])
    BY <2>4, LeafPageIs, Zenon
  <2> QED BY <2>2, <2>4
<1>6. \A x \in Entry :
         /\ Cons(x, child) \in Seq(Entry) /\ 10 * Len(Cons(x, child)) <= Room
         /\ Append(child, x) \in Seq(Entry) /\ 10 * Len(Append(child, x)) <= Room
         /\ sib # << >> /\ Last(sib) \in Entry /\ Head(sib) \in Entry
         /\ Len(sib) # 1 => sib[2] \in Entry
         /\ Front(sib) \in Seq(Entry) /\ 10 * Len(Front(sib)) <= Room
         /\ Tail(sib) \in Seq(Entry) /\ 10 * Len(Tail(sib)) <= Room
  BY <1>2, <1>5, EntryMoved
<1>7. \E x : x \in Entry
  <2>1. sib \in Seq(Entry) /\ Len(sib) \in Nat /\ Used(ns[s]) = 10 * Len(sib)
    BY <1>5, LeafPage, FsoIs
  <2>2. Len(sib) > 0
    BY <2>1, SizesAre
  <2>3. sib[1] \in Entry
    BY <2>1, <2>2
  <2> QED BY <2>3
<1>8. moved \in Entry /\ first \in Entry /\ sib # << >>
  BY <1>6, <1>7
<1>9. first.key \in Keys
  BY <1>8 DEF Entry
<1>10. /\ A \in Seq(Entry) /\ 10 * Len(A) <= Room
       /\ B \in Seq(Entry) /\ 10 * Len(B) <= Room
  BY <1>6, <1>8
<1>11. /\ ns[c].leaf /\ ns[s].leaf /\ child \in Seq(Entry) /\ sib \in Seq(Entry)
       /\ Len(child) \in Nat /\ Len(sib) \in Nat
  BY <1>5, LeafPage
<1>12. IF left THEN /\ A = Cons(Last(sib), child) /\ B = Front(sib) /\ first = Last(sib)
       ELSE /\ A = Append(child, Head(sib)) /\ B = Tail(sib)
            /\ first = IF Len(sib) = 1 THEN Head(sib) ELSE sib[2]
  OBVIOUS
<1> HIDE DEF A, B, first, moved
<1>13. /\ Len(new) = Len(ns)
       /\ new[c] = [ns[c] EXCEPT !.entries = A]
       /\ new[s] = [ns[s] EXCEPT !.entries = B]
       /\ new[p] = [ns[p] EXCEPT !.keys[at] = first.key]
       /\ \A x \in 1..Len(ns) : x # c /\ x # s /\ x # p => new[x] = ns[x]
  <2> HIDE DEF ns, at
  <2>1. /\ DOMAIN new = 1..Len(ns) /\ new \in [1..Len(ns) -> {new[x] : x \in 1..Len(ns)}]
        /\ new[c] = [ns[c] EXCEPT !.entries = A]
        /\ new[s] = [ns[s] EXCEPT !.entries = B]
        /\ new[p] = [ns[p] EXCEPT !.keys[at] = first.key]
        /\ \A x \in 1..Len(ns) : x # c /\ x # s /\ x # p => new[x] = ns[x]
    BY <1>1, ZenonT(60)
  <2> HIDE DEF new
  <2>2. Len(new) = Len(ns)
    BY <1>1, <2>1
  <2> QED BY <2>1, <2>2
<1> HIDE DEF new, u, ns, A, B
<1>14. /\ new[c].leaf /\ new[c].entries = A /\ new[s].leaf /\ new[s].entries = B
  <2>1. LeafAgain([ns[c] EXCEPT !.entries = A], ns[c], A) /\ LeafAgain([ns[s] EXCEPT !.entries = B], ns[s], B)
    BY <1>5, <1>10, LeafChanged
  <2> QED BY <1>13, <2>1 DEF LeafAgain
<1> USE DEF ns
<1>15. KeyNow(new[p], ns[p], at, first.key)
  <2> DEFINE n == ns[p]
  <2>1. InternalFits(n) /\ at \in 1..Len(n.keys)
    BY <1>1
  <2>2. new[p] = [n EXCEPT !.keys[at] = first.key]
    BY <1>13
  <2> HIDE DEF n, at
  <2>3. KeyNow(new[p], n, at, first.key)
    BY <1>9, <2>1, <2>2, KeyNowIs
  <2> QED BY <2>3 DEF n
<1>16. IF left THEN l = s /\ r = c ELSE l = c /\ r = s
  BY <1>4 DEF Around
<1>17. l \in L /\ r \in L
  BY <1>4 DEF Around, ChildOf
<1>18. z.leaf = TRUE /\ z.entries = ns[l].entries \o ns[r].entries
  BY DEF Leaf
<1> HIDE DEF z, l, r, ns, at, left
<1>19. Merges(z, ns[l], ns[p].keys[at], ns[r])
  <2>1. /\ ns[l].leaf /\ ns[r].leaf /\ ns[l].entries \in Seq(Entry) /\ ns[r].entries \in Seq(Entry)
        /\ Len(ns[l].entries) \in Nat /\ Len(ns[r].entries) \in Nat
    BY <1>11, <1>16
  <2>2. Parts(z.entries, ns[l].entries, ns[r].entries)
    BY <1>18, <2>1, PartsMade
  <2> QED BY <1>18, <2>1, <2>2 DEF Merges
<1>20. Splits(z, new[l], first.key, new[r])
  <2>1. /\ new[c].entries = Cons(Last(sib), child) /\ new[s].entries = Front(sib) /\ z.entries = sib \o child
             => Splits(z, new[s], Last(sib).key, new[c])
        /\ new[c].entries = Append(child, Head(sib)) /\ new[s].entries = Tail(sib) /\ z.entries = child \o sib
             => Splits(z, new[c], (IF Len(sib) = 1 THEN Head(sib) ELSE sib[2]).key, new[s])
    <3> HIDE DEF child, sib
    <3> QED BY <1>8, <1>11, <1>14, <1>18, LeavesTurned
  <2>2. CASE left
    BY <1>12, <1>14, <1>16, <1>18, <2>1, <2>2
  <2>3. CASE ~left
    BY <1>12, <1>14, <1>16, <1>18, <2>1, <2>3
  <2> QED BY <2>2, <2>3
<1>21. Shifts(ns, new, p, at, l, r, first.key, z)
  <2>1. \A q \in 1..Len(ns) : q # l /\ q # r /\ q # p => new[q] = ns[q]
    BY <1>13, <1>16
  <2> QED BY <1>13, <1>15, <1>19, <1>20, <2>1 DEF Shifts, KeyNow
<1>22. Picture(ns, root, L, H) /\ SheetInOrder(ns, root, L)
  BY DEF ns
<1>23. InOrder(new, root)
  BY <1>4, <1>17, <1>21, <1>22, ShiftKeyed
<1> QED BY <1>3, <1>23 DEF u

\* Two internal pages, a key and a pointer moved from one to the other.
LEMMA PagesTurned ==
  ASSUME NEW a, InternalFits(a), NEW b, InternalFits(b), Len(b.keys) > 0, NEW m \in Keys,
         NEW A, NEW B, NEW z, ~z.leaf
  PROVE  /\ A = Internal(Cons(m, a.keys), Cons(Last(b.ptrs), a.ptrs))
            /\ B = Internal(Front(b.keys), Front(b.ptrs))
            /\ z.keys = Append(b.keys, m) \o a.keys /\ z.ptrs = b.ptrs \o a.ptrs
            => Splits(z, B, Last(b.keys), A)
         /\ A = Internal(Append(a.keys, m), Append(a.ptrs, Head(b.ptrs)))
            /\ B = Internal(Tail(b.keys), Tail(b.ptrs))
            /\ z.keys = Append(a.keys, m) \o b.keys /\ z.ptrs = a.ptrs \o b.ptrs
            => Splits(z, A, Head(b.keys), B)
<1> DEFINE ak == a.keys
           ap == a.ptrs
           bk == b.keys
           bp == b.ptrs
<1>1. /\ ak \in Seq(Keys) /\ bk \in Seq(Keys) /\ ap \in Seq(Nat) /\ bp \in Seq(Nat)
      /\ Len(ap) = Len(ak) + 1 /\ Len(bp) = Len(bk) + 1 /\ Len(bk) > 0
  BY InternalPage
<1> HIDE DEF ak, ap, bk, bp
<1>2. bk # << >>
  BY <1>1
<1>3. /\ Divided(Append(bk, m) \o ak, bp \o ap, Last(bk), Front(bk), Front(bp), Cons(m, ak), Cons(Last(bp), ap))
      /\ Len(Front(bk)) \in Nat /\ Len(Cons(m, ak)) \in Nat
  BY <1>1, <1>2, KeysTurnedLeft
<1>4. /\ Divided(Append(ak, m) \o bk, ap \o bp, Head(bk), Append(ak, m), Append(ap, Head(bp)), Tail(bk), Tail(bp))
      /\ Len(Append(ak, m)) \in Nat /\ Len(Tail(bk)) \in Nat
  BY <1>1, <1>2, KeysTurnedRight
<1>5. \A k, q : /\ Internal(k, q).leaf = FALSE /\ Internal(k, q).keys = k /\ Internal(k, q).ptrs = q
  BY DEF Internal
<1>6. ASSUME A = Internal(Cons(m, ak), Cons(Last(bp), ap)), B = Internal(Front(bk), Front(bp)),
             z.keys = Append(bk, m) \o ak, z.ptrs = bp \o ap
      PROVE  Splits(z, B, Last(bk), A)
  <2>1. /\ A.leaf = FALSE /\ A.keys = Cons(m, ak) /\ A.ptrs = Cons(Last(bp), ap)
        /\ B.leaf = FALSE /\ B.keys = Front(bk) /\ B.ptrs = Front(bp)
    BY <1>5, <1>6
  <2> QED BY <1>3, <1>6, <2>1 DEF Splits
<1>7. ASSUME A = Internal(Append(ak, m), Append(ap, Head(bp))), B = Internal(Tail(bk), Tail(bp)),
             z.keys = Append(ak, m) \o bk, z.ptrs = ap \o bp
      PROVE  Splits(z, A, Head(bk), B)
  <2>1. /\ A.leaf = FALSE /\ A.keys = Append(ak, m) /\ A.ptrs = Append(ap, Head(bp))
        /\ B.leaf = FALSE /\ B.keys = Tail(bk) /\ B.ptrs = Tail(bp)
    BY <1>5, <1>7
  <2> QED BY <1>4, <1>7, <2>1 DEF Splits
<1> USE DEF ak, ap, bk, bp
<1>8. A = Internal(Cons(m, a.keys), Cons(Last(b.ptrs), a.ptrs))
        /\ B = Internal(Front(b.keys), Front(b.ptrs))
        /\ z.keys = Append(b.keys, m) \o a.keys /\ z.ptrs = b.ptrs \o a.ptrs
        => Splits(z, B, Last(b.keys), A)
  BY ONLY <1>6, Zenon DEF ak, ap, bk, bp
<1>9. A = Internal(Append(a.keys, m), Append(a.ptrs, Head(b.ptrs)))
        /\ B = Internal(Tail(b.keys), Tail(b.ptrs))
        /\ z.keys = Append(a.keys, m) \o b.keys /\ z.ptrs = a.ptrs \o b.ptrs
        => Splits(z, A, Head(b.keys), B)
  BY ONLY <1>7, Zenon DEF ak, ap, bk, bp
<1> QED BY ONLY <1>8, <1>9, Zenon

\* redistributeInternals leaves the pages in order.
LEMMA InternalsMovedKeyed ==
  ASSUME NumericKeys, NEW t, NEW lev, NEW M, NEW root, NEW p, NEW j,
         Underflowed(t, lev, M, root, p, j), NEW c, NEW s, Siblings(t, lev, M, p, j, c, s),
         lev[c] # 0, Used(t.nodes[s]) > MIN_DATA_BYTES,
         NEW L, NEW H, Picture(t.nodes, root, L, H), p \in L, SheetInOrder(t.nodes, root, L)
  PROVE  InOrder(redistributeInternals(t, p, j).nodes, root)
<1> DEFINE ns    == t.nodes
           at    == Between(j)
           l     == ns[p].ptrs[at]
           r     == ns[p].ptrs[at + 1]
           child == ns[c]
           sib   == ns[s]
           left  == j > 1
           sep   == ns[p].keys[at]
           A     == IF left
                    THEN Internal(Cons(sep, child.keys), Cons(Last(sib.ptrs), child.ptrs))
                    ELSE Internal(Append(child.keys, sep), Append(child.ptrs, Head(sib.ptrs)))
           B     == IF left THEN Internal(Front(sib.keys), Front(sib.ptrs))
                            ELSE Internal(Tail(sib.keys), Tail(sib.ptrs))
           up    == IF left THEN Last(sib.keys) ELSE Head(sib.keys)
           new   == [ns EXCEPT ![c] = A, ![s] = B, ![p].keys[at] = up]
           u     == redistributeInternals(t, p, j)
           z     == mergedNode(ns[l], sep, ns[r])
<1>1. /\ ns \in Seq(Node) /\ DOMAIN ns = 1..Len(ns) /\ Len(ns) \in Nat
      /\ p \in 1..Len(ns) /\ c \in 1..Len(ns) /\ s \in 1..Len(ns)
      /\ InternalFits(ns[p]) /\ lev[s] # 0
      /\ c = ns[p].ptrs[j] /\ s = ns[p].ptrs[Sibling(j)]
      /\ c # s /\ c # p /\ s # p /\ at \in 1..Len(ns[p].keys)
      /\ ns[s].leaf \/ Len(ns[s].keys) > 0
  BY DEF Siblings
<1>2. t \in View /\ Leveled(ns, lev)
  BY <1>1 DEF Underflowed
<1>3. u.nodes = new
  <2>1. u = [t EXCEPT !.nodes = new]
    BY <1>1 DEF redistributeInternals, Between
  <2> HIDE DEF new, u
  <2> QED BY <1>2, <2>1 DEF View
<1>4. Around(ns, root, L, p, j, c, s, l, r) /\ Neighboured(Sheet(ns, root, L), p, at, l, r)
  BY AroundIs, NeighbouredIs
<1>5. InternalFits(child) /\ InternalFits(sib)
  <2>4. Leveled(ns, lev) /\ c \in 1..Len(ns) /\ s \in 1..Len(ns) /\ lev[c] # 0 /\ lev[s] # 0
    BY <1>1, <1>2
  <2> HIDE DEF ns
  <2>2. \A x \in 1..Len(ns) : lev[x] # 0 => InternalFits(ns[x])
    BY <2>4, InternalPageIs, Zenon
  <2> QED BY <2>2, <2>4
<1>6. sep \in Keys
  <2>1. ns[p].keys \in Seq(Keys)
    BY <1>1, InternalPage
  <2> QED BY <1>1, <2>1
<1>7. Len(sib.keys) > 0 /\ sib.keys \in Seq(Keys) /\ sib.leaf = FALSE /\ child.leaf = FALSE
  BY <1>1, <1>5, InternalPage
<1>8. up \in Keys
  <2>1. sib.keys # << >>
    BY <1>7
  <2> QED BY <1>7, <2>1, FrontIs, TailIs
<1>12. IF left THEN /\ A = Internal(Cons(sep, child.keys), Cons(Last(sib.ptrs), child.ptrs))
                    /\ B = Internal(Front(sib.keys), Front(sib.ptrs)) /\ up = Last(sib.keys)
       ELSE /\ A = Internal(Append(child.keys, sep), Append(child.ptrs, Head(sib.ptrs)))
            /\ B = Internal(Tail(sib.keys), Tail(sib.ptrs)) /\ up = Head(sib.keys)
  OBVIOUS
<1> HIDE DEF A, B, up
<1>13. /\ Len(new) = Len(ns) /\ new[c] = A /\ new[s] = B
       /\ new[p] = [ns[p] EXCEPT !.keys[at] = up]
       /\ \A x \in 1..Len(ns) : x # c /\ x # s /\ x # p => new[x] = ns[x]
  <2> HIDE DEF ns, at
  <2>1. /\ DOMAIN new = 1..Len(ns) /\ new \in [1..Len(ns) -> {new[x] : x \in 1..Len(ns)}]
        /\ new[c] = A /\ new[s] = B /\ new[p] = [ns[p] EXCEPT !.keys[at] = up]
        /\ \A x \in 1..Len(ns) : x # c /\ x # s /\ x # p => new[x] = ns[x]
    BY <1>1
  <2> HIDE DEF new
  <2>2. Len(new) = Len(ns)
    BY <1>1, <2>1
  <2> QED BY <2>1, <2>2
<1> HIDE DEF new, u
<1>15. KeyNow(new[p], ns[p], at, up)
  <2> DEFINE n == ns[p]
  <2>1. InternalFits(n) /\ at \in 1..Len(n.keys)
    BY <1>1
  <2>2. new[p] = [n EXCEPT !.keys[at] = up]
    BY <1>13
  <2> HIDE DEF n, at
  <2>3. KeyNow(new[p], n, at, up)
    BY <1>8, <2>1, <2>2, KeyNowIs
  <2> QED BY <2>3 DEF n
<1>16. IF left THEN l = s /\ r = c ELSE l = c /\ r = s
  BY <1>4 DEF Around
<1>17. l \in L /\ r \in L
  BY <1>4 DEF Around, ChildOf
<1>18. /\ ns[l].leaf = FALSE => /\ z.leaf = FALSE /\ z.ptrs = ns[l].ptrs \o ns[r].ptrs
                                /\ z.keys = Append(ns[l].keys, sep) \o ns[r].keys
  BY DEF mergedNode, Internal
<1>19. Merges(z, ns[l], sep, ns[r])
  <2>1. InternalFits(ns[l]) /\ InternalFits(ns[r])
    BY <1>5, <1>16
  <2> HIDE DEF ns, l, r, sep
  <2> QED BY <1>6, <2>1, MergesMade
<1> HIDE DEF z, l, r, at, left, sep
<1>20. Splits(z, new[l], up, new[r])
  <2>0. ns[l].leaf = FALSE
    BY <1>7, <1>16
  <2>1. /\ new[c] = Internal(Cons(sep, child.keys), Cons(Last(sib.ptrs), child.ptrs))
           /\ new[s] = Internal(Front(sib.keys), Front(sib.ptrs))
           /\ z.keys = Append(sib.keys, sep) \o child.keys /\ z.ptrs = sib.ptrs \o child.ptrs
           => Splits(z, new[s], Last(sib.keys), new[c])
        /\ new[c] = Internal(Append(child.keys, sep), Append(child.ptrs, Head(sib.ptrs)))
           /\ new[s] = Internal(Tail(sib.keys), Tail(sib.ptrs))
           /\ z.keys = Append(child.keys, sep) \o sib.keys /\ z.ptrs = child.ptrs \o sib.ptrs
           => Splits(z, new[c], Head(sib.keys), new[s])
    <3>1. ~z.leaf
      BY <1>18, <2>0
    <3> HIDE DEF child, sib
    <3> QED BY <1>5, <1>6, <1>7, <3>1, PagesTurned
  <2>2. CASE left
    BY <1>12, <1>13, <1>16, <1>18, <2>0, <2>1, <2>2
  <2>3. CASE ~left
    BY <1>12, <1>13, <1>16, <1>18, <2>0, <2>1, <2>3
  <2> QED BY <2>2, <2>3
<1>21. Shifts(ns, new, p, at, l, r, up, z)
  <2>1. \A q \in 1..Len(ns) : q # l /\ q # r /\ q # p => new[q] = ns[q]
    BY <1>13, <1>16
  <2>2. Merges(z, ns[l], ns[p].keys[at], ns[r])
    BY <1>19 DEF sep
  <2> HIDE DEF ns
  <2> QED BY <1>13, <1>15, <2>2, <1>20, <2>1 DEF Shifts, KeyNow
<1>22. Picture(ns, root, L, H) /\ SheetInOrder(ns, root, L)
  BY DEF ns
<1> HIDE DEF ns
<1>23. InOrder(new, root)
  BY <1>4, <1>17, <1>21, <1>22, ShiftKeyed
<1> QED BY <1>3, <1>23 DEF u

\* merge leaves the pages in order.
LEMMA MergedKeyed ==
  ASSUME NumericKeys, NEW t, NEW lev, NEW M, NEW root, NEW p, NEW j,
         Underflowed(t, lev, M, root, p, j), NEW c, NEW s, Siblings(t, lev, M, p, j, c, s),
         NEW L, NEW H, Picture(t.nodes, root, L, H), p \in L, SheetInOrder(t.nodes, root, L)
  PROVE  InOrder(merge(t, p, j).nodes, root)
<1> DEFINE ns == t.nodes
           at == Between(j)
           l  == ns[p].ptrs[at]
           r  == ns[p].ptrs[at + 1]
           x  == ns[p].keys[at]
           m  == mergedNode(ns[l], x, ns[r])
           n  == Internal(RemoveAt(ns[p].keys, at), RemoveAt(ns[p].ptrs, at + 1))
           new == [ns EXCEPT ![l] = m, ![p] = n]
<1>1. merge(t, p, j) = IF Fso(m) > PAGE_SIZE THEN t ELSE [t EXCEPT !.nodes = new]
  BY DEF merge, Between
<1>2. CASE Fso(m) > PAGE_SIZE
  <2>1. merge(t, p, j) = t
    BY <1>1, <1>2
  <2>2. L \subseteq 1..Len(ns) /\ root \in L
    BY PictureKids
  <2> QED BY <2>1, <2>2 DEF InOrder
<1>3. ASSUME ~(Fso(m) > PAGE_SIZE) PROVE merge(t, p, j).nodes = new
  <2>1. t \in View
    BY DEF Underflowed
  <2>2. merge(t, p, j) = [t EXCEPT !.nodes = new]
    BY <1>1, <1>3
  <2> HIDE DEF new
  <2> QED BY <2>1, <2>2 DEF View
<1>4. /\ c \in 1..Len(ns) /\ s \in 1..Len(ns) /\ c # s /\ c # p /\ s # p
      /\ p \in 1..Len(ns) /\ InternalFits(ns[p]) /\ Len(ns) \in Nat /\ DOMAIN ns = 1..Len(ns)
      /\ at \in 1..Len(ns[p].keys) /\ at + 1 \in 1..Len(ns[p].ptrs)
  BY DEF Siblings
<1>5. Around(ns, root, L, p, j, c, s, l, r) /\ Neighboured(Sheet(ns, root, L), p, at, l, r)
  BY AroundIs, NeighbouredIs
<1>6. Leveled(ns, lev)
  BY DEF Underflowed
<1>7. \/ LeafFits(ns[c]) /\ LeafFits(ns[s])
      \/ InternalFits(ns[c]) /\ InternalFits(ns[s])
  <2>1. lev[c] = lev[p] - 1 /\ lev[s] = lev[p] - 1
    BY DEF Siblings
  <2>3. c \in 1..Len(ns) /\ s \in 1..Len(ns) /\ lev[c] = lev[s]
    BY <1>4, <2>1
  <2> HIDE DEF ns
  <2>2. /\ \A y \in 1..Len(ns) : lev[y] = 0 => LeafFits(ns[y])
        /\ \A y \in 1..Len(ns) : lev[y] # 0 => InternalFits(ns[y])
    BY <1>6, LeafPageIs, InternalPageIs, Zenon
  <2> QED BY <2>2, <2>3
<1>8. n.leaf = FALSE /\ n.keys = RemoveAt(ns[p].keys, at) /\ n.ptrs = RemoveAt(ns[p].ptrs, at + 1)
  BY DEF Internal
<1>9. IsRemoval(n.ptrs, ns[p].ptrs, at + 1) /\ IsRemoval(n.keys, ns[p].keys, at)
  <2> DEFINE ps == ns[p].ptrs
             ks == ns[p].keys
             i  == at + 1
  <2>1. ps \in Seq(Nat) /\ i \in 1..Len(ps) /\ ks \in Seq(Keys) /\ at \in 1..Len(ks)
    BY <1>4, InternalPage
  <2> HIDE DEF ps, i, ks, at
  <2>2. IsRemoval(RemoveAt(ps, i), ps, i) /\ IsRemoval(RemoveAt(ks, at), ks, at)
    BY <2>1, RemovalIs, Zenon
  <2> QED BY <1>8, <2>2 DEF ps, i, ks
<1>10. (l = c /\ r = s) \/ (l = s /\ r = c)
  BY <1>5 DEF Around
<1>11. x \in Keys
  <2>1. ns[p].keys \in Seq(Keys)
    BY <1>4, InternalPage
  <2> QED BY <1>4, <2>1
<1>12. Merges(m, ns[l], x, ns[r])
  <2>1. \/ LeafFits(ns[l]) /\ LeafFits(ns[r])
        \/ InternalFits(ns[l]) /\ InternalFits(ns[r])
    BY <1>7, <1>10
  <2> HIDE DEF ns, l, r, x
  <2> QED BY <1>11, <2>1, MergesMade
<1> HIDE DEF m, n, l, r
<1>13. /\ new[l] = m /\ new[p] = n /\ Len(new) = Len(ns)
       /\ \A q \in 1..Len(ns) : q # l /\ q # r /\ q # p => new[q] = ns[q]
  <2>1. l \in 1..Len(ns) /\ l # p
    BY <1>4, <1>10
  <2>2. ns \in Seq(Node)
    BY <1>6 DEF Leveled
  <2> HIDE DEF ns
  <2> QED BY <1>4, <2>1, <2>2
<1> HIDE DEF new
<1>14. Picture(ns, root, L, H) /\ SheetInOrder(ns, root, L)
  OBVIOUS
<1>15. l \in L /\ r \in L
  BY <1>5, <1>10 DEF Around
<1>16. /\ ~new[p].leaf /\ IsRemoval(new[p].keys, ns[p].keys, at)
       /\ IsRemoval(new[p].ptrs, ns[p].ptrs, at + 1) /\ Merges(new[l], ns[l], ns[p].keys[at], ns[r])
  BY <1>8, <1>9, <1>12, <1>13
<1>17. InOrder(new, root)
  <2> HIDE DEF ns, at, x
  <2> QED BY <1>5, <1>13, <1>14, <1>15, <1>16, MergeKeyed
<1>18. CASE ~(Fso(m) > PAGE_SIZE)
  BY <1>3, <1>17, <1>18
<1> QED BY <1>2, <1>18

\* A rotation or a merge leaves the pages in order.
LEMMA RepairKeyed ==
  ASSUME NumericKeys, NEW t, NEW lev, NEW M, NEW root, NEW p, NEW j,
         Underflowed(t, lev, M, root, p, j), NEW L, NEW H, Picture(t.nodes, root, L, H), p \in L,
         InOrder(t.nodes, root)
  PROVE  InOrder(redistributeOrMergeEntries(t, p, j).nodes, root)
<1> DEFINE u == redistributeOrMergeEntries(t, p, j)
<1>1. PICK c, s : Siblings(t, lev, M, p, j, c, s) /\ RepairWays(t, lev, p, j, c, s, u)
  BY RepairChoice
<1> HIDE DEF u
<1>0. SheetInOrder(t.nodes, root, L)
  <2> DEFINE ns == t.nodes
  <2>1. Leveled(ns, lev) /\ Picture(ns, root, L, H) /\ InOrder(ns, root)
    BY DEF Underflowed
  <2> HIDE DEF ns
  <2>2. SheetInOrder(ns, root, L)
    BY <2>1, PictureInOrder
  <2> QED BY <2>2 DEF ns
<1>2. ASSUME u = merge(t, p, j) PROVE InOrder(u.nodes, root)
  <2>1. InOrder(merge(t, p, j).nodes, root)
    BY <1>0, <1>1, MergedKeyed
  <2> QED BY <1>2, <2>1
<1>3. ASSUME Used(t.nodes[s]) > MIN_DATA_BYTES, lev[c] = 0, u = redistributeLeaves(t, p, j)
      PROVE  InOrder(u.nodes, root)
  <2>1. InOrder(redistributeLeaves(t, p, j).nodes, root)
    BY <1>0, <1>1, <1>3, LeavesMovedKeyed
  <2> QED BY <1>3, <2>1
<1>4. ASSUME Used(t.nodes[s]) > MIN_DATA_BYTES, lev[c] # 0, u = redistributeInternals(t, p, j)
      PROVE  InOrder(u.nodes, root)
  <2>1. InOrder(redistributeInternals(t, p, j).nodes, root)
    BY <1>0, <1>1, <1>4, InternalsMovedKeyed
  <2> QED BY <1>4, <2>1
<1>5. InOrder(u.nodes, root)
  BY <1>1, <1>2, <1>3, <1>4 DEF RepairWays
<1> QED BY <1>5 DEF u

\* A leaf with an entry less leaves the pages in order.
LEMMA LessInOrder ==
  ASSUME NEW ns, NEW root, NEW L, L \subseteq 1..Len(ns), SheetInOrder(ns, root, L),
         NEW q \in L, q # 0, ns[q].leaf, Len(ns[q].entries) \in Nat,
         NEW new, new[q].leaf, \A x \in L : x # q => new[x] = ns[x],
         NEW at \in 1..Len(ns[q].entries), IsRemoval(new[q].entries, ns[q].entries, at)
  PROVE  SheetInOrder(new, root, L)
<1> DEFINE g == Sheet(ns, root, L)
           h == Sheet(new, root, L)
<1>1. PICK B : Ordered(g, B)
  BY DEF SheetInOrder
<1>2. DOMAIN g = L \cup {0} /\ DOMAIN h = L \cup {0} /\ g[q] = ns[q] /\ h[q] = new[q]
  BY DEF Sheet
<1>3. \A p \in DOMAIN g : p # q => h[p] = g[p]
  BY DEF Sheet
<1> HIDE DEF g, h
<1>4. LeafKeyed(ns[q].entries, B[q])
  BY <1>1, <1>2 DEF Ordered, PageOrdered
<1>5. LeafKeyed(new[q].entries, B[q])
  <2> DEFINE es == ns[q].entries
             gs == new[q].entries
  <2>1. LeafKeyed(es, B[q]) /\ Len(es) \in Nat /\ at \in 1..Len(es) /\ IsRemoval(gs, es, at)
    BY <1>4
  <2> HIDE DEF es, gs
  <2>2. LeafKeyed(gs, B[q])
    BY <2>1, LeafRemoved
  <2> QED BY <2>2 DEF gs
<1>6. PageOrdered(h[q], B, B[q])
  BY <1>2, <1>5 DEF PageOrdered
<1>7. Ordered(h, B)
  BY <1>1, <1>2, <1>3, <1>6, SheetChanged
<1> QED BY <1>7 DEF SheetInOrder, h

\* So does the cut of deleteEntry.
LEMMA CutKeyed ==
  ASSUME NumericKeys, NEW t, NEW lev, FileView(t, lev), NEW e \in Entry, LeafOf(t, e) # 0,
         NEW L, NEW H, Picture(t.nodes, t.root, L, H), SheetInOrder(t.nodes, t.root, L)
  PROVE  InOrder(Cut(t, e, LeafOf(t, e)).nodes, t.root)
<1> DEFINE ns  == t.nodes
           q   == LeafOf(t, e)
           es  == ns[q].entries
           at  == CutAt(t, e, q)
           new == [ns EXCEPT ![q] = [ns[q] EXCEPT !.entries = RemoveAt(es, at)]]
<1>1. q \in L /\ ns[q].leaf
  BY LeafOfDrawn
<1>2. /\ t \in View /\ Leveled(ns, lev) /\ L \subseteq 1..Len(ns) /\ ns \in Seq(Node)
      /\ lev[q] = 0 /\ t.root \in L
  BY LeafOfIs DEF FileView, Leveled, Picture
<1>3. LeafFits(ns[q])
  <2> HIDE DEF ns, q
  <2> QED BY <1>1, <1>2, LeafPageIs, Zenon
<1>4. es \in Seq(Entry) /\ Len(es) \in Nat
  BY <1>3, LeafPage
<1>5. at \in 1..Len(es)
  BY CutDrawn
<1>6. Cut(t, e, q).nodes = new
  BY <1>2 DEF Cut, View
<1> HIDE DEF at
<1>7. IsRemoval(RemoveAt(es, at), es, at)
  <2> HIDE DEF es
  <2> QED BY <1>4, <1>5, RemovalIs, Zenon
<1>8. /\ Len(new) = Len(ns) /\ new[q] = [ns[q] EXCEPT !.entries = RemoveAt(es, at)]
      /\ \A x \in L : x # q => new[x] = ns[x]
  <2> HIDE DEF q, es, ns
  <2> QED BY <1>1, <1>2
<1>9. new[q].leaf /\ new[q].entries = RemoveAt(es, at)
  <2> DEFINE n == ns[q]
             gs == RemoveAt(es, at)
             m == [n EXCEPT !.entries = gs]
  <2>1. new[q] = m /\ LeafFits(n) /\ n.leaf
    BY <1>1, <1>3, <1>8
  <2> HIDE DEF n, gs
  <2>2. DOMAIN n = {"leaf", "entries", "next"}
    BY <2>1 DEF LeafFits, Leaf
  <2>3. m.leaf = n.leaf /\ m.entries = gs
    BY <2>2
  <2> QED BY <2>1, <2>3 DEF gs
<1>10. SheetInOrder(ns, t.root, L) /\ q # 0
  BY <1>1, <1>2
<1> HIDE DEF new
<1>11. SheetInOrder(new, t.root, L)
  <2> HIDE DEF ns, q
  <2>1. ns[q].leaf /\ Len(ns[q].entries) \in Nat /\ at \in 1..Len(ns[q].entries)
        /\ IsRemoval(new[q].entries, ns[q].entries, at)
    BY <1>1, <1>4, <1>5, <1>7, <1>9
  <2> QED BY <1>1, <1>2, <1>8, <1>9, <1>10, <2>1, LessInOrder
<1>12. InOrder(new, t.root)
  BY <1>2, <1>8, <1>11 DEF InOrder
<1> QED BY <1>6, <1>12

\* A step of the climb of a deletion leaves the pages in order.
LEMMA ClimbKeyedDown ==
  ASSUME NumericKeys, NEW t, NEW lev, NEW L, GoodView(t, lev, L), NEW key,
         NEW pick, Picks(t.nodes, pick),
         \A p \in 1..Len(t.nodes) :
            ~t.nodes[p].leaf => pick[p] = findInternalChildIdsLeft(t.nodes[p], key),
         NEW path, Walk(t.nodes, lev, pick, t.root, path),
         NEW k \in 1..lev[t.root], NEW d, Climbed(d, t, lev, path, k - 1), ~Settled(d, path),
         NEW H, StillDrawn(d, t.root, path, H), InOrder(d.tree.nodes, t.root)
  PROVE  InOrder(UpOne(d, path, key).tree.nodes, t.root)
<1> DEFINE n == lev[t.root]
           p == path[d.at]
           j == findInternalChildIdsLeft(d.tree.nodes[p], key)
           v == UpOne(d, path, key)
<1>1. PICK M : /\ Tree(d.tree.nodes, M, {t.root}) /\ Keyed(d.tree.nodes, M \ {path[d.at + 1]})
               /\ \A i \in 1..d.at + 1 : path[i] \in M
  BY DEF Climbed
<1>2. Underflowed(d.tree, lev, M, t.root, p, j) /\ d.at \in 1..n
  BY <1>1, ClimbAt
<1>3. PICK L1 : Picture(d.tree.nodes, t.root, L1, H) /\ \A i \in 1..d.at + 1 : path[i] \in L1
  BY DEF StillDrawn
<1>4. n \in Nat
  <2>1. Leveled(t.nodes, lev) /\ t.root \in 1..Len(t.nodes)
    BY DEF GoodView, Tree
  <2> DEFINE ns == t.nodes
  <2> HIDE DEF ns
  <2>2. Leveled(ns, lev) /\ t.root \in 1..Len(ns)
    BY <2>1 DEF ns
  <2> QED BY <2>2, PageIs
<1> HIDE DEF n
<1>6. p \in L1
  <2>1. d.at \in 1..d.at + 1
    BY <1>2, <1>4
  <2> QED BY <1>3, <2>1
<1> HIDE DEF p, j
<1>7. InOrder(redistributeOrMergeEntries(d.tree, p, j).nodes, t.root)
  BY <1>2, <1>3, <1>6, RepairKeyed
<1>8. v.tree = redistributeOrMergeEntries(d.tree, p, j)
  BY DEF UpOne, p, j
<1> QED BY <1>7, <1>8

\* deleteEntry leaves the pages in order, before the root is looked at.
LEMMA DelKeyDrawn ==
  ASSUME NumericKeys, NEW t, NEW lev, FileView(t, lev), NEW e \in Entry, LeafOf(t, e) # 0,
         NEW L, NEW H, Picture(t.nodes, t.root, L, H), InOrder(t.nodes, t.root)
  PROVE  InOrder(del(t, e, LeafOf(t, e)).nodes, t.root)
<1> DEFINE ns   == t.nodes
           q    == LeafOf(t, e)
           cut  == Cut(t, e, q)
           n    == lev[t.root]
           G    == H \ {e}
<1>1. /\ t.root # 0 /\ q \in 1..Len(ns) /\ lev[q] = 0
  BY LeafOfIs
<1>2. PICK L0 : GoodView(t, lev, L0)
  BY <1>1 DEF FileView
<1>3. Leveled(ns, lev) /\ t.root \in 1..Len(ns) /\ n \in Nat
  <2>1. Leveled(ns, lev) /\ Tree(ns, L0, {t.root})
    BY <1>2 DEF GoodView
  <2>2. t.root \in 1..Len(ns)
    BY <2>1 DEF Tree
  <2> HIDE DEF ns
  <2> QED BY <2>1, <2>2, PageIs
<1>14. InOrder(cut.nodes, t.root)
  <2>1. SheetInOrder(ns, t.root, L)
    <3>1. Picture(ns, t.root, L, H) /\ InOrder(ns, t.root)
      OBVIOUS
    <3> HIDE DEF ns
    <3> QED BY <1>3, <3>1, PictureInOrder
  <2> QED BY <2>1, CutKeyed
<1>4. /\ Picture(cut.nodes, t.root, L, G)
      /\ CutAt(t, e, q) \in 1..Len(ns[q].entries)
  BY CutDrawn
<1>5. cut \in View
  BY <1>1, <1>2, <1>4, EntryCut DEF Cut, GoodView
<1> HIDE DEF cut, q
<1>12. PICK path : path = DelPath(t, e)
  OBVIOUS
<1>6. PICK pick : /\ Picks(ns, pick)
                  /\ \A p \in 1..Len(ns) :
                       ~ns[p].leaf => pick[p] = findInternalChildIdsLeft(ns[p], e.key)
                  /\ Walk(ns, lev, pick, t.root, path)
  BY <1>3, <1>12, DescentLeft DEF DelPath
<1>7. \A i \in 1..n + 1 : path[i] \in L
  BY <1>3, <1>6, WalkDrawn
<1> DEFINE Extra == {d \in [tree : View, at : Nat] : /\ StillDrawn(d, t.root, path, G)
                                                     /\ InOrder(d.tree.nodes, t.root)}
<1>8. [tree |-> cut, at |-> n] \in Extra
  BY <1>3, <1>4, <1>5, <1>7, <1>14 DEF StillDrawn
<1>9. \A k \in 1..n : \A d \in Extra :
        Climbed(d, t, lev, path, k - 1) /\ ~Settled(d, path) => UpOne(d, path, e.key) \in Extra
  <2> SUFFICES ASSUME NEW k \in 1..n, NEW d \in Extra, Climbed(d, t, lev, path, k - 1),
                      ~Settled(d, path)
               PROVE  UpOne(d, path, e.key) \in Extra
    OBVIOUS
  <2>1. /\ StillDrawn(UpOne(d, path, e.key), t.root, path, G)
        /\ UpOne(d, path, e.key) \in [tree : View, at : Nat]
        /\ InOrder(UpOne(d, path, e.key).tree.nodes, t.root)
    <3>1. StillDrawn(d, t.root, path, G) /\ InOrder(d.tree.nodes, t.root)
      OBVIOUS
    <3> HIDE DEF Extra, G
    <3>2. /\ StillDrawn(UpOne(d, path, e.key), t.root, path, G)
          /\ UpOne(d, path, e.key) \in [tree : View, at : Nat]
      BY <1>2, <1>6, <3>1, ClimbDrawnDown
    <3>3. InOrder(UpOne(d, path, e.key).tree.nodes, t.root)
      BY <1>2, <1>6, <3>1, ClimbKeyedDown
    <3> QED BY <3>2, <3>3
  <2> QED BY <2>1
<1> HIDE DEF Extra
<1>13. ClimbKeeps(Extra, t, e, q, lev, path)
  BY <1>8, <1>9 DEF ClimbKeeps, cut
<1>10. \/ del(t, e, q) = cut
       \/ \E d \in Extra : Climbed(d, t, lev, path, n) /\ del(t, e, q) = d.tree
  <2>1. /\ q \in 1..Len(t.nodes) /\ lev[q] = 0
        /\ CutAt(t, e, q) \in 1..Len(t.nodes[q].entries) /\ Picks(t.nodes, pick)
        /\ \A p \in 1..Len(t.nodes) :
             ~t.nodes[p].leaf => pick[p] = findInternalChildIdsLeft(t.nodes[p], e.key)
        /\ Walk(t.nodes, lev, pick, t.root, path)
    BY <1>1, <1>4, <1>6
  <2> HIDE DEF ns, G
  <2> QED BY <1>2, <1>12, <1>13, <2>1, DelClimbs DEF cut
<1>11. InOrder(del(t, e, q).nodes, t.root)
  <2>1. CASE del(t, e, q) = cut
    BY <1>14, <2>1
  <2>2. CASE \E d \in Extra : del(t, e, q) = d.tree
    BY <2>2 DEF Extra
  <2> QED BY <1>10, <2>1, <2>2
<1> QED BY <1>11 DEF q

\* The child that takes the place of the root is in order.
LEMMA ShrunkInOrder ==
  ASSUME NEW ns, NEW lev, Leveled(ns, lev), NEW root, InOrder(ns, root), ~ns[root].leaf,
         ns[root].keys = << >>, NEW y, ns[root].ptrs = <<y>>
  PROVE  InOrder(ns, y)
<1>1. PICK L : L \subseteq 1..Len(ns) /\ root \in L /\ SheetInOrder(ns, root, L)
  BY DEF InOrder
<1> DEFINE g == Sheet(ns, root, L)
           h == Sheet(ns, y, L)
<1>2. PICK B : Ordered(g, B)
  BY <1>1 DEF SheetInOrder
<1>3. y \in L
  <2>1. 1 \in 1..Len(ns[root].ptrs) /\ ns[root].ptrs[1] = y
    OBVIOUS
  <2> QED BY <1>1, <1>2, <2>1, OrderedKids
<1>0. 0 \notin L
  <2>1. Len(ns) \in Nat
    <3>1. ns \in Seq(Node)
      BY DEF Leveled
    <3> QED BY <3>1
  <2> QED BY <1>1, <2>1
<1>4. DOMAIN g = L \cup {0} /\ DOMAIN h = L \cup {0} /\ 0 \in DOMAIN g /\ root \in DOMAIN g
  BY <1>1 DEF Sheet
<1>5. /\ h[0].leaf = FALSE /\ h[0].keys = << >> /\ h[0].ptrs = <<y>>
      /\ g[root] = ns[root] /\ \A p \in L : g[p] = ns[p] /\ h[p] = ns[p]
  BY <1>0, <1>1 DEF Sheet, Internal
<1>6. \A p \in L : ~ns[p].leaf => \A i \in 1..Len(ns[p].ptrs) : ns[p].ptrs[i] \in L
  BY <1>1, <1>2, OrderedKids
<1> HIDE DEF g, h
<1> DEFINE C == [B EXCEPT ![0] = B[root]]
<1>7. B \in [DOMAIN g -> SUBSET Int] /\ \A p \in DOMAIN g : PageOrdered(g[p], B, B[p])
  BY <1>2 DEF Ordered
<1>8. C \in [DOMAIN h -> SUBSET Int] /\ C[0] = B[root] /\ \A p \in L : C[p] = B[p]
  BY <1>0, <1>4, <1>7
<1>9. ASSUME NEW p \in L PROVE PageOrdered(h[p], C, C[p])
  <2>1. PageOrdered(ns[p], B, B[p])
    BY <1>4, <1>5, <1>7
  <2>2. ~ns[p].leaf => \A i \in 1..Len(ns[p].ptrs) :
           ns[p].ptrs[i] \in DOMAIN C /\ C[ns[p].ptrs[i]] \subseteq B[ns[p].ptrs[i]]
    BY <1>4, <1>6, <1>8
  <2> DEFINE n == ns[p]
  <2>3. h[p] = n /\ C[p] = B[p] /\ B[p] \subseteq B[p]
    BY <1>5, <1>8
  <2> HIDE DEF C, n
  <2>4. PageOrdered(n, C, B[p])
    BY <2>1, <2>2, <2>3, PageEased DEF n
  <2> QED BY <2>3, <2>4
<1>10. PageOrdered(h[0], C, C[0])
  <2>1. /\ DOMAIN C = L \cup {0} /\ y \in DOMAIN C /\ C[y] = B[y]
    BY <1>3, <1>4, <1>8
  <2>2. \A k \in B[y] : k \in B[root]
    <3>1. PageOrdered(ns[root], B, B[root])
      BY <1>4, <1>5, <1>7
    <3>2. 1 \in 1..Len(ns[root].ptrs) /\ ns[root].ptrs[1] = y
      OBVIOUS
    <3> HIDE DEF C
    <3>3. \A i \in 1..Len(ns[root].ptrs) : B[ns[root].ptrs[i]] \subseteq B[root]
      BY ONLY <3>1, ~ns[root].leaf, ChildrenIn
    <3> QED BY <3>2, <3>3
  <2> DEFINE D == C[0]
  <2>3. D = B[root]
    BY <1>8
  <2> HIDE DEF C, D
  <2>4. RowKeyed(h[0].keys, h[0].ptrs, C, D)
    BY <1>5, <2>1, <2>2, <2>3 DEF RowKeyed, Rising, Amid
  <2> QED BY <1>5, <2>4 DEF PageOrdered, D
<1>11. Ordered(h, C)
  BY <1>4, <1>8, <1>9, <1>10 DEF Ordered
<1> QED BY <1>1, <1>3, <1>11 DEF InOrder, SheetInOrder, h

\* deleteEntry leaves the pages in order.
LEMMA DeleteKeyDrawn ==
  ASSUME NumericKeys, NEW t, NEW lev, FileView(t, lev), NEW e \in Entry, LeafOf(t, e) # 0,
         NEW H, Pictured(t, H), KeyInOrder(t)
  PROVE  KeyInOrder(shrinkRoot(del(t, e, LeafOf(t, e))))
<1> DEFINE u == del(t, e, LeafOf(t, e))
           r == u.nodes[u.root]
<1>1. t.root # 0
  BY LeafOfIs
<1>2. PICK L : Picture(t.nodes, t.root, L, H)
  BY <1>1 DEF Pictured
<1>3. InOrder(t.nodes, t.root)
  BY <1>1 DEF KeyInOrder
<1>4. InOrder(u.nodes, t.root)
  BY <1>2, <1>3, DelKeyDrawn
<1>5. PICK M : Rooted(u, lev, M)
  BY DelIs
<1>6. u.root = t.root
  BY DelIs
<1> HIDE DEF u
<1>7. /\ u \in View /\ Leveled(u.nodes, lev) /\ u.root \in 1..Len(u.nodes) /\ u.root # 0
  BY <1>1, <1>5, <1>6 DEF Rooted, Tree
<1>8. shrinkRoot(u) = IF r.leaf
                      THEN IF r.entries = << >> THEN [u EXCEPT !.root = 0] ELSE u
                      ELSE IF r.keys = << >> THEN [u EXCEPT !.root = r.ptrs[1]] ELSE u
  BY DEF shrinkRoot
<1>9. ASSUME NEW x
      PROVE  [u EXCEPT !.root = x].root = x /\ [u EXCEPT !.root = x].nodes = u.nodes
  BY <1>7 DEF View
<1>10. KeyInOrder(u)
  BY <1>4, <1>6 DEF KeyInOrder
<1>11. CASE r.leaf /\ r.entries = << >>
  <2>2. shrinkRoot(u).root = 0
    BY <1>8, <1>9, <1>11
  <2>3. KeyInOrder(shrinkRoot(u))
    BY <2>2 DEF KeyInOrder
  <2> QED BY <2>3 DEF u
<1>12. CASE ~r.leaf /\ r.keys = << >>
  <2> DEFINE y == r.ptrs[1]
  <2>1. InternalFits(r)
    BY <1>7, <1>12, PageIs
  <2>2. r.ptrs = <<y>>
    <3>1. r.ptrs \in Seq(Nat) /\ Len(r.ptrs) = Len(r.keys) + 1
      BY <2>1, InternalPage
    <3>2. Len(r.ptrs) = 1
      BY <1>12, <3>1
    <3> DEFINE s == r.ptrs
    <3> HIDE DEF s
    <3>3. s \in Seq(Nat) /\ Len(s) = 1 => s = <<s[1]>>
      OBVIOUS
    <3> QED BY <3>1, <3>2, <3>3 DEF s
  <2>3. InOrder(u.nodes, y)
    BY <1>4, <1>6, <1>7, <1>12, <2>2, ShrunkInOrder
  <2>5. shrinkRoot(u).root = y /\ shrinkRoot(u).nodes = u.nodes
    BY <1>8, <1>9, <1>12
  <2> HIDE DEF y
  <2>6. KeyInOrder(shrinkRoot(u))
    BY <2>3, <2>5 DEF KeyInOrder
  <2> QED BY <2>6 DEF u
<1>13. CASE ~(r.leaf /\ r.entries = << >>) /\ ~(~r.leaf /\ r.keys = << >>)
  <2>1. shrinkRoot(u) = u
    BY <1>8, <1>13
  <2> QED BY <1>10, <2>1 DEF u
<1> QED BY <1>11, <1>12, <1>13

-----------------------------------------------------------------------------
(* Reading the order of the keys. *)

\* The keys of leaf n.
KeysOn(n) == {n.entries[i].key : i \in 1..Len(n.entries)}

\* The leaves w are in order one behind the other, their keys from S.
InRow(ns, w, S) ==
  /\ w \in Seq(1..Len(ns))
  /\ \A a \in 1..Len(w) : ns[w[a]].leaf /\ LeafKeyed(ns[w[a]].entries, S)
  /\ \A a, b \in 1..Len(w) :
        a < b => \A k \in KeysOn(ns[w[a]]), l \in KeysOn(ns[w[b]]) : k <= l

\* Their keys may be from a larger set.
LEMMA RowWider ==
  ASSUME NEW ns, NEW w, NEW S, InRow(ns, w, S), NEW T, S \subseteq T
  PROVE  InRow(ns, w, T)
BY DEF InRow, LeafKeyed

\* Leaves with keys up to m, and behind them leaves with keys from m on.
LEMMA RowsInRow ==
  ASSUME NEW ns, NEW S, NEW T, NEW U, S \subseteq U, T \subseteq U, U \subseteq Int, NEW m \in Int,
         \A k \in S : k <= m, \A k \in T : m <= k,
         NEW v, InRow(ns, v, S), NEW w, InRow(ns, w, T)
  PROVE  InRow(ns, v \o w, U)
<1> DEFINE z == v \o w
<1>1. v \in Seq(1..Len(ns)) /\ w \in Seq(1..Len(ns))
  BY DEF InRow
<1>2. z \in Seq(1..Len(ns)) /\ Parts(z, v, w)
  <2> DEFINE P == 1..Len(ns)
  <2>1. v \in Seq(P) /\ w \in Seq(P)
    BY <1>1
  <2> HIDE DEF P
  <2>2. v \o w \in Seq(P) /\ Parts(v \o w, v, w)
    BY <2>1, PartsMade
  <2> QED BY <2>2 DEF P
<1>3. Len(v) \in Nat /\ Len(w) \in Nat
  BY <1>1
<1> HIDE DEF z
<1>4. /\ Len(z) = Len(v) + Len(w)
      /\ \A a \in 1..Len(z) : \/ a \in 1..Len(v) /\ z[a] = v[a]
                              \/ a - Len(v) \in 1..Len(w) /\ z[a] = w[a - Len(v)]
  <2>1. /\ Len(z) = Len(v) + Len(w) /\ \A a \in 1..Len(v) : z[a] = v[a]
        /\ \A a \in 1..Len(w) : z[Len(v) + a] = w[a]
    BY <1>2 DEF Parts
  <2>2. ASSUME NEW a \in 1..Len(z), a \notin 1..Len(v)
        PROVE  a - Len(v) \in 1..Len(w) /\ z[a] = w[a - Len(v)]
    <3>1. a - Len(v) \in 1..Len(w) /\ Len(v) + (a - Len(v)) = a
      BY <1>3, <2>1, <2>2
    <3> QED BY <2>1, <3>1
  <2> QED BY <2>1, <2>2
<1>5. /\ \A a \in 1..Len(v) : ns[v[a]].leaf /\ LeafKeyed(ns[v[a]].entries, U)
      /\ \A a \in 1..Len(w) : ns[w[a]].leaf /\ LeafKeyed(ns[w[a]].entries, U)
  BY RowWider DEF InRow
<1>6. ASSUME NEW a \in 1..Len(z) PROVE ns[z[a]].leaf /\ LeafKeyed(ns[z[a]].entries, U)
  BY <1>4, <1>5
<1>7. /\ \A a \in 1..Len(v) : \A k \in KeysOn(ns[v[a]]) : k \in S
      /\ \A a \in 1..Len(w) : \A k \in KeysOn(ns[w[a]]) : k \in T
  BY DEF InRow, LeafKeyed, KeysOn
<1>8. ASSUME NEW a \in 1..Len(z), NEW b \in 1..Len(z), a < b,
             NEW k \in KeysOn(ns[z[a]]), NEW l \in KeysOn(ns[z[b]])
      PROVE  k <= l
  <2>0. a \in Int /\ b \in Int /\ Len(v) \in Nat /\ Len(z) \in Nat
    BY <1>3, <1>4
  <2>1. CASE a \in 1..Len(v) /\ z[a] = v[a] /\ b \in 1..Len(v) /\ z[b] = v[b]
    BY <1>8, <2>1 DEF InRow
  <2>2. CASE /\ a - Len(v) \in 1..Len(w) /\ z[a] = w[a - Len(v)]
             /\ b - Len(v) \in 1..Len(w) /\ z[b] = w[b - Len(v)]
    <3>1. a - Len(v) < b - Len(v)
      BY <1>8, <2>0
    <3> QED BY <1>8, <2>2, <3>1 DEF InRow
  <2>3. CASE /\ a \in 1..Len(v) /\ z[a] = v[a] /\ b - Len(v) \in 1..Len(w) /\ z[b] = w[b - Len(v)]
    <3>1. k \in S /\ l \in T
      BY <1>7, <2>3
    <3>2. k <= m /\ m <= l /\ k \in Int /\ l \in Int
      BY <3>1
    <3> QED BY <3>2
  <2>4. ~(a - Len(v) \in 1..Len(w) /\ b \in 1..Len(v))
    BY <1>3, <1>8, <2>0
  <2> QED BY <1>4, <2>1, <2>2, <2>3, <2>4
<1>9. InRow(ns, z, U)
  BY <1>2, <1>6, <1>8 DEF InRow
<1> QED BY <1>9 DEF z

\* The rows below the children of a page in order are a row.
LEMMA KidsInRow ==
  ASSUME NEW ns, NEW ks, NEW ps, NEW B, NEW S, S \subseteq Int, RowKeyed(ks, ps, B, S),
         NEW ss, Len(ss) = Len(ps), \A i \in 1..Len(ps) : InRow(ns, ss[i], B[ps[i]])
  PROVE  InRow(ns, FlattenSeq(ss), S)
<1> DEFINE n     == Len(ps)
           U(i)  == {x \in S : i <= Len(ks) => x <= ks[i]}
           Good  == [i \in 1..n |-> {w \in Seq(1..Len(ns)) : InRow(ns, w, U(i))}]
<1>1. /\ Len(ks) \in Nat /\ n = Len(ks) + 1 /\ \A i \in 1..Len(ks) : ks[i] \in S
      /\ \A i, j \in 1..Len(ks) : i <= j => ks[i] <= ks[j]
      /\ \A i \in 1..n : \A k \in B[ps[i]] : k \in S /\ Amid(ks, i, k)
  BY DEF RowKeyed, Rising
<1> HIDE DEF n
<1>2. ASSUME NEW i \in 1..n PROVE B[ps[i]] \subseteq U(i)
  BY <1>1 DEF Amid
<1>3. \A i \in 1..n : \A w : InRow(ns, w, U(i)) => w \in Good[i]
  BY DEF InRow
<1>4. ss[1] \in Good[1]
  <2>1. 1 \in 1..n /\ InRow(ns, ss[1], B[ps[1]])
    BY <1>1 DEF n
  <2>2. InRow(ns, ss[1], U(1))
    BY <1>2, <2>1, RowWider
  <2> QED BY <1>3, <2>1, <2>2
<1>5. ASSUME NEW i \in 2..n, NEW w \in Good[i - 1] PROVE w \o ss[i] \in Good[i]
  <2>1. i \in 1..n /\ i - 1 \in 1..n /\ i - 1 \in 1..Len(ks)
    BY <1>1
  <2> DEFINE m == ks[i - 1]
             T == B[ps[i]]
             V == U(i - 1)
             W == U(i)
  <2>2. InRow(ns, w, V) /\ InRow(ns, ss[i], T)
    BY <2>1 DEF n
  <2>3. m \in Int /\ \A k \in V : k <= m
    <3>1. ks[i - 1] \in S
      BY <1>1, <2>1
    <3>2. i - 1 <= Len(ks)
      BY <2>1
    <3> QED BY <3>1, <3>2
  <2>4. \A k \in T : m <= k
    BY <1>1, <2>1 DEF Amid
  <2>5. T \subseteq W
    BY <1>2, <2>1
  <2>6. V \subseteq W
    <3> SUFFICES ASSUME NEW x \in V, i <= Len(ks) PROVE x <= ks[i]
      OBVIOUS
    <3>1. i \in 1..Len(ks) /\ i - 1 <= i
      BY <1>1, <2>1
    <3>2. m <= ks[i] /\ ks[i] \in Int /\ x <= m /\ x \in Int
      BY <1>1, <2>1, <2>3, <3>1
    <3> HIDE DEF m
    <3> QED BY <2>3, <3>2
  <2>7. W \subseteq Int
    OBVIOUS
  <2> HIDE DEF m, T, V, W
  <2>8. InRow(ns, w \o ss[i], W)
    BY <2>2, <2>3, <2>4, <2>5, <2>6, <2>7, RowsInRow
  <2> QED BY <1>3, <2>1, <2>8 DEF W
<1> HIDE DEF Good
<1>6. RowsGood(ss, n, Good)
  BY <1>4, <1>5 DEF RowsGood
<1>7. n \in Nat /\ n > 0 /\ Len(ss) = n
  BY <1>1 DEF n
<1>8. FlattenSeq(ss) \in Good[n]
  BY <1>6, <1>7, FlattenIs
<1>9. InRow(ns, FlattenSeq(ss), U(n))
  <2>1. n \in 1..n
    BY <1>7
  <2> QED BY <1>8, <2>1 DEF Good
<1> QED BY <1>9, RowWider

\* The leaves below each page are a row of its keys.
LEMMA InRowsBelow ==
  ASSUME NEW ns, NEW lev, Leveled(ns, lev), NEW root, NEW L, L \subseteq 1..Len(ns), root \in L,
         NEW B, Ordered(Sheet(ns, root, L), B)
  PROVE  \A p \in L : InRow(ns, LeavesBelow(ns, p), B[p])
<1> DEFINE f == CHOOSE g : IsBelow(ns, g)
           g == Sheet(ns, root, L)
           T == {n \in Nat : \A p \in L : lev[p] = n => InRow(ns, f[p], B[p])}
<1>1. IsBelow(ns, f)
  BY BelowExists
<1>2. \A p \in L : LeavesBelow(ns, p) = f[p]
  BY DEF LeavesBelow
<1> HIDE DEF f
<1>3. /\ DOMAIN ns = 1..Len(ns) /\ \A p \in L : lev[p] \in Nat
  BY DEF Leveled
<1>4. \A p \in L : g[p] = ns[p] /\ p \in DOMAIN g
  <2>1. 0 \notin L
    <3>1. Len(ns) \in Nat
      <4>1. ns \in Seq(Node)
        BY DEF Leveled
      <4> QED BY <4>1
    <3> QED BY <3>1
  <2> QED BY <2>1 DEF Sheet
<1> HIDE DEF g
<1>5. \A p \in L : B[p] \subseteq Int /\ PageOrdered(ns[p], B, B[p])
  BY <1>4 DEF Ordered, g
<1>6. ASSUME NEW p \in L, ns[p].leaf PROVE InRow(ns, f[p], B[p])
  <2> DEFINE s == <<p>>
  <2>1. f[p] = s
    BY <1>1, <1>3, <1>6 DEF IsBelow
  <2>2. s \in Seq(1..Len(ns)) /\ Len(s) = 1 /\ s[1] = p
    OBVIOUS
  <2> HIDE DEF s
  <2>3. LeafKeyed(ns[p].entries, B[p])
    BY <1>5, <1>6 DEF PageOrdered
  <2>4. \A a \in 1..Len(s) : a = 1
    BY <2>2
  <2>5. InRow(ns, s, B[p])
    BY <1>6, <2>2, <2>3, <2>4 DEF InRow
  <2> QED BY <2>1, <2>5
<1>7. ASSUME NEW n \in Nat, n \in T, NEW p \in L, lev[p] = n + 1 PROVE InRow(ns, f[p], B[p])
  <2> DEFINE ps == ns[p].ptrs
             ss == [i \in DOMAIN ps |-> f[ps[i]]]
  <2>1. p \in 1..Len(ns) /\ ~ns[p].leaf
    <3>1. p \in 1..Len(ns)
      OBVIOUS
    <3>2. ns[p].leaf <=> lev[p] = 0
      BY <3>1, PageIs
    <3> QED BY <1>7, <3>1, <3>2
  <2>2. f[p] = FlattenSeq(ss)
    BY <1>1, <1>3, <2>1 DEF IsBelow
  <2>3. /\ Len(ss) = Len(ps)
        /\ \A i \in 1..Len(ps) : ss[i] = f[ps[i]] /\ lev[ps[i]] = lev[p] - 1
    <3>1. ss = [i \in DOMAIN ns[p].ptrs |-> f[ns[p].ptrs[i]]]
      OBVIOUS
    <3> HIDE DEF ss, T
    <3>2. /\ Len(ss) = Len(ns[p].ptrs)
          /\ \A i \in 1..Len(ns[p].ptrs) : /\ ss[i] = f[ns[p].ptrs[i]]
                                           /\ ns[p].ptrs[i] \in 1..Len(ns)
                                           /\ lev[ns[p].ptrs[i]] = lev[p] - 1
      BY <2>1, <3>1, ManyRows
    <3> QED BY <3>2
  <2>4. \A i \in 1..Len(ps) : ps[i] \in L
    <3> HIDE DEF T
    <3> QED BY <2>1, OrderedKids DEF g
  <2>5. \A i \in 1..Len(ps) : InRow(ns, ss[i], B[ps[i]])
    <3>1. \A q \in L : lev[q] = n => InRow(ns, f[q], B[q])
      BY <1>7
    <3> HIDE DEF T, ss, ps
    <3>2. \A i \in 1..Len(ps) : lev[ps[i]] = n
      BY <1>7, <2>3
    <3> QED BY <2>3, <2>4, <3>1, <3>2
  <2>6. RowKeyed(ns[p].keys, ps, B, B[p]) /\ B[p] \subseteq Int
    BY <1>5, <2>1 DEF PageOrdered
  <2> HIDE DEF ss, T, ps
  <2>7. InRow(ns, FlattenSeq(ss), B[p])
    BY <2>3, <2>5, <2>6, KidsInRow
  <2> QED BY <2>2, <2>7
<1>8. 0 \in T
  <2> SUFFICES ASSUME NEW p \in L, lev[p] = 0 PROVE InRow(ns, f[p], B[p])
    OBVIOUS
  <2>1. ns[p].leaf
    <3>1. p \in 1..Len(ns)
      OBVIOUS
    <3>2. ns[p].leaf <=> lev[p] = 0
      BY <3>1, PageIs
    <3> QED BY <3>2
  <2> HIDE DEF T
  <2> QED BY <1>6, <2>1
<1>9. \A n \in Nat : n \in T => n + 1 \in T
  BY <1>7
<1>10. Nat \subseteq T
  <2> HIDE DEF T
  <2> QED BY <1>8, <1>9, Induct
<1> QED BY <1>2, <1>3, <1>10

-----------------------------------------------------------------------------
(* Orderly clients keep the order. *)

\* The inductive invariant with the order of the keys.
KeyedInvariant == OrderInvariant /\ KeyInOrder(NowView)

\* What a step of an orderly client does to the order.
LEMMA KeyedStep ==
  ASSUME NumericKeys, KeyedInvariant, [OrderlyNext]_vars
  PROVE  KeyInOrder(NowView')
<1>0. IndexInvariant /\ \E H : Pictured(NowView, H)
  BY DEF KeyedInvariant, OrderInvariant
<1>10. PICK H : Pictured(NowView, H)
  BY <1>0
<1>11. Root # 0 => InOrder(nodes, Root)
  BY DEF KeyedInvariant, KeyInOrder, NowView
<1>1. ASSUME nodes' = nodes, Root' = Root PROVE KeyInOrder(NowView')
  BY <1>1, <1>11 DEF KeyInOrder, NowView, InOrder, SheetInOrder, Sheet
<1>6. ASSUME NEW t, nodes' = t.nodes, Root' = t.root, KeyInOrder(t)
      PROVE  KeyInOrder(NowView')
  <2>1. NowView'.nodes = t.nodes /\ NowView'.root = t.root
    BY <1>6 DEF NowView
  <2> QED BY <1>6, <2>1 DEF KeyInOrder
<1>7. ASSUME NEW h \in Handles, ViewOf(h).nodes = nodes, ViewOf(h).root = Root
      PROVE  Pictured(ViewOf(h), H) /\ KeyInOrder(ViewOf(h))
  <2>1. NowView.nodes = nodes /\ NowView.root = Root
    BY DEF NowView
  <2> QED BY <1>7, <1>10, <1>11, <2>1 DEF Pictured, KeyInOrder
<1>2. ASSUME NEW h \in Handles, NEW e \in Entry, New(h, e), ~Misplaces(ViewOf(h), e),
             insertEntry(h, e)
      PROVE  KeyInOrder(NowView')
  <2> DEFINE v == ViewOf(h)
             t == InsertEntry(v, e)
  <2>1. Current(h) /\ Becomes(h, t)
    BY <1>2 DEF insertEntry
  <2>2. PICK lev : FileView(v, lev) /\ v.nodes = nodes
    BY <1>0, <2>1, NowIs
  <2>3. v.root = Root
    BY <1>0, <2>1, RootIs DEF IndexInvariant, Current, ViewOf
  <2>5. Pictured(v, H) /\ KeyInOrder(v)
    BY <1>7, <2>2, <2>3
  <2>6. nodes' = t.nodes /\ Root' = t.root
    BY <1>0, <2>1, NowBecomes
  <2>7. ~Misplaces(v, e) /\ Keys \subseteq Int
    BY <1>2, BTreeAssumption
  <2> HIDE DEF v
  <2>8. InOrder(t.nodes, t.root)
    BY <2>2, <2>5, <2>7, InsertKeyDrawn
  <2> HIDE DEF t
  <2>9. KeyInOrder(t)
    BY <2>8 DEF KeyInOrder
  <2> QED BY <1>6, <2>6, <2>9
<1>3. ASSUME NEW h \in Handles, NEW e \in Entry, deleteEntry(h, e)
      PROVE  KeyInOrder(NowView')
  <2> DEFINE v == ViewOf(h)
             t == shrinkRoot(del(v, e, LeafOf(v, e)))
  <2>1. Current(h) /\ Becomes(h, t) /\ LeafOf(v, e) # 0
    BY <1>3 DEF deleteEntry
  <2>2. PICK lev : FileView(v, lev) /\ v.nodes = nodes
    BY <1>0, <2>1, NowIs
  <2>3. v.root = Root
    BY <1>0, <2>1, RootIs DEF IndexInvariant, Current, ViewOf
  <2>4. Pictured(v, H) /\ KeyInOrder(v)
    BY <1>7, <2>2, <2>3
  <2>5. nodes' = t.nodes /\ Root' = t.root
    BY <1>0, <2>1, NowBecomes
  <2> HIDE DEF v
  <2>6. KeyInOrder(t)
    BY <2>1, <2>2, <2>4, DeleteKeyDrawn
  <2> HIDE DEF t
  <2> QED BY <1>6, <2>5, <2>6
<1>4. CASE UNCHANGED vars
  <2>1. nodes' = nodes /\ hidden' = hidden /\ handles' = handles
    BY <1>4 DEF vars
  <2>2. Root' = Root
    BY <2>1 DEF Root
  <2> QED BY <1>1, <2>1, <2>2
<1>5. ASSUME NEW h \in Handles,
             ((\A g \in Handles : ~handles[g].open) /\ openFile(h)) \/ closeFile(h)
      PROVE  KeyInOrder(NowView')
  <2>1. nodes' = nodes /\ Root' = Root
    BY <1>0, <1>5, SameRoot
  <2> QED BY <1>1, <2>1
<1> QED BY <1>2, <1>3, <1>4, <1>5 DEF OrderlyNext

\* The pages of the index, its keys and the levels in order.
KeysNow(lev, L, B) ==
  /\ Leveled(nodes, lev) /\ L \subseteq 1..Len(nodes) /\ Root \in L
  /\ Ordered(Sheet(nodes, Root, L), B)

\* The pages below a root have levels and keys in order.
LEMMA OrderNow ==
  ASSUME KeyedInvariant, Root # 0
  PROVE  \E lev, L, B : KeysNow(lev, L, B)
<1>1. PICK lev : FileNow(lev) /\ Leveled(nodes, lev)
  BY LevelsNow DEF KeyedInvariant, OrderInvariant
<1>2. InOrder(nodes, Root)
  BY DEF KeyedInvariant, KeyInOrder, NowView
<1> QED BY <1>1, <1>2 DEF KeysNow, InOrder, SheetInOrder

\* The keys below a page are its keys.
LEMMA KeysBelowIn ==
  ASSUME NEW lev, NEW L, NEW B, KeysNow(lev, L, B), NEW p \in L
  PROVE  KeysBelow(p) \subseteq B[p]
<1>1. InRow(nodes, LeavesBelow(nodes, p), B[p])
  BY InRowsBelow DEF KeysNow
<1> DEFINE w == LeavesBelow(nodes, p)
<1>2. TreeLeaves(p) = w
  BY ReadNow
<1> HIDE DEF w
<1>3. SUFFICES ASSUME NEW q \in ToSet(w), NEW e \in ToSet(nodes[q].entries)
               PROVE  e.key \in B[p]
  BY <1>2 DEF KeysBelow
<1>4. PICK a \in 1..Len(w) : q = w[a]
  <2>1. w \in Seq(1..Len(nodes))
    BY <1>1 DEF InRow, w
  <2>2. DOMAIN w = 1..Len(w)
    BY <2>1
  <2> QED BY <2>2 DEF ToSet
<1>5. nodes[q].leaf /\ LeafKeyed(nodes[q].entries, B[p]) /\ q \in 1..Len(nodes)
  <2>1. w \in Seq(1..Len(nodes)) /\ nodes[w[a]].leaf /\ LeafKeyed(nodes[w[a]].entries, B[p])
    BY <1>1 DEF InRow, w
  <2> QED BY <1>4, <2>1
<1>6. DOMAIN nodes[q].entries = 1..Len(nodes[q].entries)
  <2>1. LeafFits(nodes[q])
    BY <1>5, PageIs DEF KeysNow
  <2>2. nodes[q].entries \in Seq(Entry)
    BY <2>1, LeafPage
  <2> QED BY <2>2
<1> QED BY <1>5, <1>6 DEF ToSet, LeafKeyed

\* So the separators bound the keys below the pointers next to them.
LEMMA SeparatorsNow ==
  ASSUME KeyedInvariant
  PROVE  SeparatorsBound
<1> SUFFICES ASSUME Root # 0, NEW p \in TreePages(Root), ~nodes[p].leaf,
                    NEW i \in DOMAIN nodes[p].ptrs, NEW k \in KeysBelow(nodes[p].ptrs[i])
             PROVE  /\ i > 1 => nodes[p].keys[i - 1] <= k
                    /\ i <= Len(nodes[p].keys) => k <= nodes[p].keys[i]
  BY DEF SeparatorsBound
<1>1. PICK lev, L, B : KeysNow(lev, L, B)
  BY OrderNow
<1>2. /\ Leveled(nodes, lev) /\ L \subseteq 1..Len(nodes) /\ Root \in L
      /\ Ordered(Sheet(nodes, Root, L), B)
  BY <1>1 DEF KeysNow
<1>3. ASSUME NEW q \in L, ~nodes[q].leaf
      PROVE  /\ DOMAIN nodes[q].ptrs = 1..Len(nodes[q].ptrs)
             /\ \A j \in 1..Len(nodes[q].ptrs) : nodes[q].ptrs[j] \in L
             /\ Kids(nodes[q]) \subseteq L
  <2>1. InternalFits(nodes[q]) /\ Kids(nodes[q]) = InSeq(nodes[q].ptrs)
    BY <1>2, <1>3, PageIs
  <2>2. nodes[q].ptrs \in Seq(Nat)
    BY <2>1, InternalPage
  <2>3. DOMAIN nodes[q].ptrs = 1..Len(nodes[q].ptrs)
    BY <2>2
  <2>4. \A j \in 1..Len(nodes[q].ptrs) : nodes[q].ptrs[j] \in L
    BY <1>2, <1>3, OrderedKids
  <2> QED BY <2>1, <2>3, <2>4 DEF InSeq
<1>4. p \in L
  <2>1. \A q \in L : Kids(nodes[q]) \subseteq L
    <3>1. ASSUME NEW q \in L, nodes[q].leaf PROVE Kids(nodes[q]) = {}
      <4>1. q \in 1..Len(nodes)
        BY <1>2
      <4>2. Leveled(nodes, lev) /\ nodes[q].leaf
        BY <1>2, <3>1
      <4> QED BY ONLY <4>1, <4>2, PageIs, Zenon
    <3> QED BY <1>3, <3>1
  <2>2. TreePages(Root) \subseteq L
    BY <1>2, <2>1, TreePagesIn
  <2> QED BY <2>2
<1>5. i \in 1..Len(nodes[p].ptrs) /\ nodes[p].ptrs[i] \in L
  BY <1>3, <1>4
<1>6. k \in B[nodes[p].ptrs[i]]
  BY <1>1, <1>5, KeysBelowIn
<1>7. RowKeyed(nodes[p].keys, nodes[p].ptrs, B, B[p])
  <2>1. p \in DOMAIN Sheet(nodes, Root, L) /\ Sheet(nodes, Root, L)[p] = nodes[p]
    <3>1. p # 0
      <4>1. Len(nodes) \in Nat
        <5>1. nodes \in Seq(Node)
          BY <1>2 DEF Leveled
        <5> QED BY <5>1
      <4> QED BY <1>2, <1>4, <4>1
    <3> QED BY <1>4, <3>1 DEF Sheet
  <2>2. PageOrdered(nodes[p], B, B[p])
    BY <1>2, <2>1 DEF Ordered
  <2> QED BY <2>2 DEF PageOrdered
<1>8. Amid(nodes[p].keys, i, k)
  BY <1>5, <1>6, <1>7 DEF RowKeyed
<1> QED BY <1>8 DEF Amid

\* The order is kept by every orderly client.
THEOREM KeyedStays ==
  ASSUME NumericKeys
  PROVE  OrderlySpec => []KeyedInvariant
<1>1. Init => KeyedInvariant
  <2> SUFFICES ASSUME Init PROVE KeyedInvariant
    OBVIOUS
  <2>1. IndexInvariant
    BY IndexInit
  <2>2. Root = 0
    BY DEF Init, Root, Closed
  <2>3. Pictured(NowView, {}) /\ KeyInOrder(NowView)
    BY <2>2 DEF Pictured, NowView, KeyInOrder
  <2> QED BY <2>1, <2>3 DEF OrderInvariant, KeyedInvariant
<1>2. KeyedInvariant /\ OrderInvariant' /\ [OrderlyNext]_vars => KeyedInvariant'
  <2> SUFFICES ASSUME KeyedInvariant, OrderInvariant', [OrderlyNext]_vars PROVE KeyedInvariant'
    OBVIOUS
  <2>1. KeyInOrder(NowView')
    BY KeyedStep
  <2>2. KeyInOrder(NowView)'
    BY <2>1 DEF KeyInOrder, InOrder, SheetInOrder, Sheet
  <2> QED BY <2>2 DEF KeyedInvariant
<1> QED BY <1>1, <1>2, OrderlyInvariant, PTL DEF OrderlySpec

\* insertEntry and deleteEntry keep every separator between the keys on its two sides:
\* whatever a split, a rotation or a merge writes into the pages above, a descent by the
\* separators is not led away from a key.
THEOREM SeparatorsStayBounds ==
  ASSUME NumericKeys
  PROVE  OrderlySpec => []SeparatorsBound
<1>1. KeyedInvariant => SeparatorsBound
  BY SeparatorsNow
<1> QED BY <1>1, KeyedStays, PTL

-----------------------------------------------------------------------------
(* Every entry is found. *)

\* The child a deletion or a scan descends to is the first that may hold the key.
LEMMA LeftHit ==
  ASSUME NEW n, n.keys \in Seq(Int), NEW key \in Int
  PROVE  /\ findInternalChildIdsLeft(n, key) \in 1..Len(n.keys) + 1
         /\ \A i \in 1..Len(n.keys) : i < findInternalChildIdsLeft(n, key) => n.keys[i] < key
<1> DEFINE keys == n.keys
           hits == {i \in DOMAIN keys : key <= keys[i]}
           at   == findInternalChildIdsLeft(n, key)
<1>1. Len(keys) \in Nat /\ hits \subseteq 1..Len(keys) /\ DOMAIN keys = 1..Len(keys)
  OBVIOUS
<1>2. at = FirstOf(Len(keys), hits)
  BY DEF findInternalChildIdsLeft, FirstKey, FirstOf
<1>3. \A i \in 1..Len(keys) : keys[i] \in Int /\ (i \in hits <=> key <= keys[i])
  OBVIOUS
<1> HIDE DEF hits, at, keys
<1>4. at \in 1..Len(keys) + 1 /\ \A i \in 1..Len(keys) : i < at => i \notin hits
  BY <1>1, <1>2, FirstHit
<1>5. \A i \in 1..Len(keys) : i < at => keys[i] < key
  BY <1>3, <1>4
<1> QED BY <1>4, <1>5 DEF at, keys

\* The keys on the leaves w up to the one at place m are lower.
AllLower(ns, w, m, key) == \A a \in 1..m : \A k \in KeysOn(ns[w[a]]) : k < key

\* The leaf q is in the row w, and the keys on the leaves in front of it are lower.
LedTo(ns, w, q, key) ==
  \E m \in 1..Len(w) : w[m] = q /\ AllLower(ns, w, m - 1, key)

\* A row behind leaves with lower keys.
LEMMA LedBehind ==
  ASSUME NEW ns, NEW P, NEW v \in Seq(P), NEW w \in Seq(P), NEW key, AllLower(ns, v, Len(v), key)
  PROVE  /\ AllLower(ns, w, Len(w), key) => AllLower(ns, v \o w, Len(v \o w), key)
         /\ \A q : LedTo(ns, w, q, key) => LedTo(ns, v \o w, q, key)
<1> DEFINE z == v \o w
<1>1. z \in Seq(P) /\ Parts(z, v, w)
  BY PartsMade
<1>2. Len(v) \in Nat /\ Len(w) \in Nat
  OBVIOUS
<1> HIDE DEF z
<1>3. /\ Len(z) = Len(v) + Len(w) /\ \A a \in 1..Len(v) : z[a] = v[a]
      /\ \A a \in 1..Len(w) : z[Len(v) + a] = w[a]
  BY <1>1 DEF Parts
<1>4. ASSUME NEW m \in 0..Len(w), AllLower(ns, w, m, key) PROVE AllLower(ns, z, Len(v) + m, key)
  <2> SUFFICES ASSUME NEW a \in 1..Len(v) + m, NEW k \in KeysOn(ns[z[a]]) PROVE k < key
    BY DEF AllLower
  <2>1. CASE a \in 1..Len(v)
    BY <1>3, <2>1 DEF AllLower
  <2>2. CASE a \notin 1..Len(v)
    <3> DEFINE b == a - Len(v)
    <3>1. b \in 1..m /\ b \in 1..Len(w) /\ a = Len(v) + b
      BY <1>2, <2>2
    <3> HIDE DEF b
    <3>2. z[a] = w[b]
      BY <1>3, <3>1
    <3> QED BY <1>4, <3>1, <3>2 DEF AllLower
  <2> QED BY <2>1, <2>2
<1>5. AllLower(ns, w, Len(w), key) => AllLower(ns, z, Len(z), key)
  BY <1>2, <1>3, <1>4
<1>6. ASSUME NEW q, LedTo(ns, w, q, key) PROVE LedTo(ns, z, q, key)
  <2>1. PICK m \in 1..Len(w) : w[m] = q /\ AllLower(ns, w, m - 1, key)
    BY <1>6 DEF LedTo
  <2>2. m - 1 \in 0..Len(w) /\ Len(v) + m \in 1..Len(z) /\ (Len(v) + m) - 1 = Len(v) + (m - 1)
    BY <1>2, <1>3
  <2>3. z[Len(v) + m] = q /\ AllLower(ns, z, (Len(v) + m) - 1, key)
    BY <1>3, <1>4, <2>1, <2>2
  <2> QED BY <2>2, <2>3 DEF LedTo
<1> QED BY <1>5, <1>6 DEF z

\* So is a row in front of others.
LEMMA LedBefore ==
  ASSUME NEW ns, NEW P, NEW v \in Seq(P), NEW w \in Seq(P), NEW key, NEW q, LedTo(ns, v, q, key)
  PROVE  LedTo(ns, v \o w, q, key)
<1> DEFINE z == v \o w
<1>1. z \in Seq(P) /\ Parts(z, v, w)
  BY PartsMade
<1>2. Len(v) \in Nat /\ Len(w) \in Nat
  OBVIOUS
<1> HIDE DEF z
<1>3. Len(z) = Len(v) + Len(w) /\ \A a \in 1..Len(v) : z[a] = v[a]
  BY <1>1 DEF Parts
<1>4. PICK m \in 1..Len(v) : v[m] = q /\ AllLower(ns, v, m - 1, key)
  BY DEF LedTo
<1>5. m \in 1..Len(z) /\ z[m] = q /\ \A a \in 1..m - 1 : a \in 1..Len(v)
  BY <1>2, <1>3, <1>4
<1>6. AllLower(ns, z, m - 1, key)
  BY <1>3, <1>4, <1>5 DEF AllLower
<1>7. LedTo(ns, z, q, key)
  BY <1>5, <1>6 DEF LedTo
<1> QED BY <1>7 DEF z

\* The rows below the children of a page, where a descent goes on at child j, and the keys
\* below the children in front of it are lower.
LEMMA LedInRows ==
  ASSUME NEW ns, NEW n \in Nat, NEW ss, Len(ss) = n, NEW j \in 1..n, NEW q, NEW key,
         \A i \in 1..n : ss[i] \in Seq(1..Len(ns)), LedTo(ns, ss[j], q, key),
         \A i \in 1..n : i < j => AllLower(ns, ss[i], Len(ss[i]), key)
  PROVE  LedTo(ns, FlattenSeq(ss), q, key)
<1> DEFINE P == 1..Len(ns)
           Good == [i \in 1..n |->
                      IF i < j THEN {w \in Seq(P) : AllLower(ns, w, Len(w), key)}
                      ELSE {w \in Seq(P) : LedTo(ns, w, q, key)}]
<1> HIDE DEF P
<1>0. \A i \in 1..n : ss[i] \in Seq(P)
  BY DEF P
<1>1. \A i \in 1..n : \A w \in Seq(P) :
         /\ i < j => (w \in Good[i] <=> AllLower(ns, w, Len(w), key))
         /\ ~(i < j) => (w \in Good[i] <=> LedTo(ns, w, q, key))
  OBVIOUS
<1>2. \A i \in 1..n : Good[i] \subseteq Seq(P)
  OBVIOUS
<1> HIDE DEF Good
<1>3. ss[1] \in Good[1]
  <2>1. 1 \in 1..n /\ (~(1 < j) => j = 1)
    OBVIOUS
  <2> QED BY <1>0, <1>1, <2>1
<1>4. ASSUME NEW i \in 2..n, NEW w \in Good[i - 1] PROVE w \o ss[i] \in Good[i]
  <2> DEFINE s == ss[i]
             z == w \o s
  <2>1. i \in 1..n /\ i - 1 \in 1..n /\ (i < j => i - 1 < j) /\ (i = j => i - 1 < j)
        /\ (~(i < j) /\ i # j => ~(i - 1 < j))
    OBVIOUS
  <2>2. w \in Seq(P) /\ s \in Seq(P)
    BY <1>0, <1>2, <2>1
  <2>9. i < j => AllLower(ns, s, Len(s), key)
    BY <2>1
  <2>10. i = j => LedTo(ns, s, q, key)
    OBVIOUS
  <2> HIDE DEF s
  <2>3. z \in Seq(P)
    BY <2>2
  <2>4. i - 1 < j => /\ AllLower(ns, s, Len(s), key) => AllLower(ns, z, Len(z), key)
                     /\ LedTo(ns, s, q, key) => LedTo(ns, z, q, key)
    <3> SUFFICES ASSUME i - 1 < j
                 PROVE  /\ AllLower(ns, s, Len(s), key) => AllLower(ns, z, Len(z), key)
                        /\ LedTo(ns, s, q, key) => LedTo(ns, z, q, key)
      OBVIOUS
    <3>1. AllLower(ns, w, Len(w), key)
      BY <1>1, <2>1, <2>2
    <3> QED BY <2>2, <3>1, LedBehind
  <2>5. ~(i - 1 < j) => LedTo(ns, z, q, key)
    <3> SUFFICES ASSUME ~(i - 1 < j) PROVE LedTo(ns, z, q, key)
      OBVIOUS
    <3>1. LedTo(ns, w, q, key)
      BY <1>1, <2>1, <2>2
    <3> QED BY <2>2, <3>1, LedBefore
  <2> HIDE DEF z
  <2>6. ASSUME i < j PROVE z \in Good[i]
    BY <1>1, <2>1, <2>3, <2>4, <2>6, <2>9
  <2>7. ASSUME i = j PROVE z \in Good[i]
    BY <1>1, <2>1, <2>3, <2>4, <2>7, <2>10
  <2>8. ASSUME ~(i < j), i # j PROVE z \in Good[i]
    BY <1>1, <2>1, <2>3, <2>5, <2>8
  <2>11. z \in Good[i]
    BY <2>6, <2>7, <2>8
  <2> QED BY <2>11 DEF z, s
<1>5. RowsGood(ss, n, Good)
  BY <1>3, <1>4 DEF RowsGood
<1>6. FlattenSeq(ss) \in Good[n] /\ n > 0
  BY <1>5, FlattenIs
<1>7. n \in 1..n /\ ~(n < j)
  BY <1>6
<1> QED BY <1>1, <1>2, <1>6, <1>7

\* The keys below the children in front of the one a descent takes are lower.
LEMMA LowerBefore ==
  ASSUME NEW ns, NEW n, n.keys \in Seq(Int), NEW B, NEW S, S \subseteq Int,
         RowKeyed(n.keys, n.ptrs, B, S), NEW key \in Int,
         NEW i \in 1..Len(n.ptrs), i < findInternalChildIdsLeft(n, key),
         NEW w, InRow(ns, w, B[n.ptrs[i]])
  PROVE  AllLower(ns, w, Len(w), key)
<1> DEFINE j == findInternalChildIdsLeft(n, key)
<1>1. j \in 1..Len(n.keys) + 1 /\ \A x \in 1..Len(n.keys) : x < j => n.keys[x] < key
  BY LeftHit
<1>2. i \in 1..Len(n.keys) /\ i < j
  <2>1. Len(n.keys) \in Nat
    OBVIOUS
  <2> HIDE DEF j
  <2>2. i < j => i \in 1..Len(n.keys)
    BY <1>1, <2>1
  <2> QED BY <2>2 DEF j
<1> HIDE DEF j
<1>3. n.keys[i] < key /\ n.keys[i] \in Int
  BY <1>1, <1>2
<1>4. \A k \in B[n.ptrs[i]] : k \in Int /\ k <= n.keys[i]
  <2>1. \A k \in B[n.ptrs[i]] : k \in S /\ Amid(n.keys, i, k)
    BY DEF RowKeyed
  <2>2. i <= Len(n.keys)
    BY <1>2
  <2> QED BY <2>1, <2>2 DEF Amid
<1> SUFFICES ASSUME NEW a \in 1..Len(w), NEW k \in KeysOn(ns[w[a]]) PROVE k < key
  BY DEF AllLower
<1>5. k \in B[n.ptrs[i]]
  BY DEF InRow, LeafKeyed, KeysOn
<1>6. k \in Int /\ k <= n.keys[i]
  BY <1>4, <1>5
<1> QED BY <1>3, <1>6

\* A descent leads to a leaf that no leaf in front of has the key on it.
LEMMA DescentLeads ==
  ASSUME NEW ns, NEW lev, Leveled(ns, lev), NEW root, NEW L, NEW H, Picture(ns, root, L, H),
         NEW B, Ordered(Sheet(ns, root, L), B), NEW key \in Int,
         NEW pick, Picks(ns, pick), NEW w, Walk(ns, lev, pick, root, w),
         \A p \in 1..Len(ns) : ~ns[p].leaf => pick[p] = findInternalChildIdsLeft(ns[p], key)
  PROVE  LedTo(ns, LeavesBelow(ns, root), w[lev[root] + 1], key)
<1> DEFINE f == CHOOSE g : IsBelow(ns, g)
           n == lev[root]
           q == w[n + 1]
           T == {k \in Nat : k <= n => LedTo(ns, f[w[n + 1 - k]], q, key)}
<1>1. /\ L \subseteq 1..Len(ns) /\ root \in L /\ 0 \notin L
      /\ \A p \in L : ~ns[p].leaf => \A i \in 1..Len(ns[p].ptrs) : ns[p].ptrs[i] \in L
  BY PictureKids
<1>2. n \in Nat /\ DOMAIN ns = 1..Len(ns)
  <2>1. root \in 1..Len(ns)
    BY <1>1
  <2> QED BY <2>1, PageIs
<1>3. /\ \A i \in 1..n + 1 : w[i] \in L /\ lev[w[i]] = n + 1 - i
      /\ \A i \in 1..n : w[i + 1] = ns[w[i]].ptrs[pick[w[i]]]
  <2>1. \A i \in 1..n + 1 : w[i] \in L
    BY WalkDrawn
  <2>2. \A i \in 1..n + 1 : lev[w[i]] = n + 1 - i
    BY DEF Walk
  <2>3. \A i \in 1..n : w[i + 1] = ns[w[i]].ptrs[pick[w[i]]]
    BY DEF Walk
  <2> QED BY <2>1, <2>2, <2>3
<1>4. \A p \in L : InRow(ns, LeavesBelow(ns, p), B[p])
  BY <1>1, InRowsBelow
<1>5. IsBelow(ns, f)
  BY BelowExists
<1>6. \A p \in L : InRow(ns, f[p], B[p])
  BY <1>4 DEF LeavesBelow
<1>7. LeavesBelow(ns, root) = f[root]
  BY DEF LeavesBelow
<1> HIDE DEF f, n, q
<1>8. 0 \in T
  <2>1. n + 1 \in 1..n + 1 /\ n + 1 - 0 = n + 1 /\ n + 1 - (n + 1) = 0
    BY <1>2
  <2>2. q \in L /\ lev[q] = 0
    BY <1>3, <2>1 DEF q
  <2>3. ns[q].leaf /\ q \in 1..Len(ns)
    <3>1. q \in 1..Len(ns)
      BY <1>1, <2>2
    <3> QED BY <2>2, <3>1, PageIs
  <2> DEFINE s == <<q>>
  <2>4. f[q] = s
    BY <1>2, <1>5, <2>3 DEF IsBelow
  <2>5. Len(s) = 1 /\ s[1] = q
    OBVIOUS
  <2> HIDE DEF s
  <2>6. AllLower(ns, s, 1 - 1, key)
    BY DEF AllLower
  <2>7. LedTo(ns, s, q, key)
    BY <2>5, <2>6 DEF LedTo
  <2> QED BY <2>1, <2>4, <2>7 DEF q
<1>9. ASSUME NEW k \in Nat, k \in T PROVE k + 1 \in T
  <2> SUFFICES ASSUME k + 1 <= n PROVE LedTo(ns, f[w[n + 1 - (k + 1)]], q, key)
    OBVIOUS
  <2> DEFINE i == n - k
             p == w[i]
             j == pick[p]
             c == ns[p].ptrs[j]
             ps == ns[p].ptrs
             ss == [x \in DOMAIN ps |-> f[ps[x]]]
  <2>1. /\ i \in 1..n /\ i \in 1..n + 1 /\ i + 1 \in 1..n + 1 /\ n + 1 - (k + 1) = i
        /\ n + 1 - k = i + 1 /\ n + 1 - i = k + 1 /\ k + 1 # 0
    BY <1>2
  <2>2. LedTo(ns, f[w[i + 1]], q, key)
    BY <1>2, <1>9, <2>1
  <2>3. p \in L /\ lev[p] = k + 1 /\ w[i + 1] = c
    BY <1>3, <2>1
  <2> HIDE DEF T, i
  <2>4. p \in 1..Len(ns) /\ ~ns[p].leaf /\ InternalFits(ns[p])
    <3>1. p \in 1..Len(ns)
      BY <1>1, <2>3
    <3>2. (ns[p].leaf <=> lev[p] = 0) /\ (~ns[p].leaf => InternalFits(ns[p]))
      BY <3>1, PageIs
    <3> QED BY <2>1, <2>3, <3>1, <3>2
  <2>5. j \in 1..Len(ps) /\ j = findInternalChildIdsLeft(ns[p], key)
    BY <2>4 DEF Picks
  <2> HIDE DEF p, j
  <2>6. f[p] = FlattenSeq(ss)
    BY <1>2, <1>5, <2>4 DEF IsBelow
  <2>7. Len(ss) = Len(ps) /\ Len(ps) \in Nat /\ \A x \in 1..Len(ps) : ss[x] = f[ps[x]]
    <3>1. ss = [x \in DOMAIN ns[p].ptrs |-> f[ns[p].ptrs[x]]]
      OBVIOUS
    <3> HIDE DEF ss
    <3>2. /\ Len(ss) = Len(ns[p].ptrs) /\ Len(ss) \in Nat
          /\ \A x \in 1..Len(ns[p].ptrs) : ss[x] = f[ns[p].ptrs[x]]
      BY <2>4, <3>1, ManyRows
    <3> QED BY <3>2
  <2> HIDE DEF ss
  <2>8. \A x \in 1..Len(ps) : InRow(ns, ss[x], B[ps[x]])
    <3>1. \A x \in 1..Len(ps) : ps[x] \in L
      BY <1>1, <2>3, <2>4
    <3> HIDE DEF ps
    <3> QED BY <1>6, <2>7, <3>1
  <2>9. RowKeyed(ns[p].keys, ps, B, B[p]) /\ B[p] \subseteq Int
    <3>1. p \in DOMAIN Sheet(ns, root, L) /\ Sheet(ns, root, L)[p] = ns[p]
      BY <1>1, <2>3 DEF Sheet
    <3> QED BY <2>4, <3>1 DEF Ordered, PageOrdered
  <2>10. ns[p].keys \in Seq(Int)
    <3>1. ns[p].keys \in Seq(Keys) /\ Keys \subseteq Int
      BY <2>4, InternalPage, BTreeAssumption
    <3> DEFINE s == ns[p].keys
    <3> HIDE DEF s
    <3>2. s \in Seq(Keys) /\ \A x \in 1..Len(s) : s[x] \in Int
      BY <3>1, SeqFacts DEF s
    <3>3. s \in Seq(Int)
      BY <3>2, SeqIn, Zenon
    <3> QED BY <3>3 DEF s
  <2>11. ASSUME NEW x \in 1..Len(ps), x < j PROVE AllLower(ns, ss[x], Len(ss[x]), key)
    <3>1. InRow(ns, ss[x], B[ns[p].ptrs[x]])
      BY <2>8
    <3>2. x < findInternalChildIdsLeft(ns[p], key) /\ x \in 1..Len(ns[p].ptrs)
      BY <2>5, <2>11
    <3>3. RowKeyed(ns[p].keys, ns[p].ptrs, B, B[p]) /\ B[p] \subseteq Int
      BY <2>9
    <3> DEFINE m == ns[p]
               z == ss[x]
    <3> HIDE DEF m, z
    <3>4. /\ InRow(ns, z, B[m.ptrs[x]]) /\ x < findInternalChildIdsLeft(m, key)
          /\ x \in 1..Len(m.ptrs) /\ RowKeyed(m.keys, m.ptrs, B, B[p]) /\ B[p] \subseteq Int
          /\ m.keys \in Seq(Int)
      BY <2>10, <3>1, <3>2, <3>3 DEF m, z
    <3>5. AllLower(ns, z, Len(z), key)
      BY <3>4, LowerBefore
    <3> QED BY <3>5 DEF z
  <2>12. LedTo(ns, ss[j], q, key)
    BY <2>2, <2>3, <2>5, <2>7
  <2>13. \A x \in 1..Len(ps) : ss[x] \in Seq(1..Len(ns))
    BY <2>8 DEF InRow
  <2> HIDE DEF ps
  <2>14. LedTo(ns, FlattenSeq(ss), q, key)
    BY <2>5, <2>7, <2>11, <2>12, <2>13, LedInRows
  <2> QED BY <2>1, <2>6, <2>14 DEF p
<1>10. Nat \subseteq T
  <2> HIDE DEF T
  <2> QED BY <1>8, <1>9, Induct
<1>11. n + 1 - n = 1 /\ n <= n /\ w[1] = root
  BY <1>2 DEF Walk
<1>12. LedTo(ns, f[root], q, key)
  BY <1>2, <1>10, <1>11
<1> QED BY <1>7, <1>12 DEF q, n

\* The walk of deleteEntry along the chain goes on until it meets the entry.
LEMMA WalkMeets ==
  ASSUME NumericKeys, NEW t, NEW lev, Leveled(t.nodes, lev), t.root # 0, NEW e \in Entry,
         NEW w, NEW a0, Run(t.nodes, w, a0, 0), NEW S, S \subseteq Int, InRow(t.nodes, w, S),
         NEW b \in 1..Len(w), e \in ToSet(t.nodes[w[b]].entries),
         LedTo(t.nodes, w, Last(Path(t, e.key, findInternalChildIdsLeft)), e.key)
  PROVE  LeafOf(t, e) # 0
<1> DEFINE ns == t.nodes
           Past(p) == ns[p].entries # << >> /\ ns[p].entries[1].key > e.key
           Has(p)  == \E x \in ToSet(ns[p].entries) : Matches(x, e)
           follow == [p \in DOMAIN ns |->
                        LET next == ns[p].next
                        IN  IF Has(p) \/ next = 0 \/ Past(next) THEN p ELSE next]
           a     == Last(Path(t, e.key, findInternalChildIdsLeft))
           Eq(f) == f = [i \in 0..Len(ns) |-> IF i = 0 THEN a ELSE follow[f[i - 1]]]
           leaf  == CHOOSE f : Eq(f)
           stop  == leaf[Len(ns)]
<1>1. LeafOf(t, e) = IF t.root # 0 /\ Has(stop) THEN stop ELSE 0
  BY DEF LeafOf
<1>2. DOMAIN ns = 1..Len(ns) /\ Len(ns) \in Nat
  <2>1. ns \in Seq(Node)
    BY DEF Leveled
  <2> QED BY <2>1
<1>3. /\ w \in Seq(1..Len(ns)) /\ Len(w) \in Nat /\ \A i \in 1..Len(w) : w[i] \in 1..Len(ns)
      /\ \A i \in 1..Len(w) - 1 : ns[w[i]].next = w[i + 1]
  <2>1. w \in Seq(1..Len(ns)) /\ \A i \in 1..Len(w) - 1 : ns[w[i]].next = w[i + 1]
    BY DEF Run
  <2> QED BY <2>1, SeqFacts
<1>4. Len(w) <= Len(ns)
  <2>1. Run(ns, w, a0, 0) /\ Len(ns) \in Nat
    BY <1>2
  <2> HIDE DEF ns
  <2> QED BY <2>1, RunLength
<1>5. \A i \in 1..Len(w) : /\ ns[w[i]].leaf /\ LeafKeyed(ns[w[i]].entries, S)
                           /\ ns[w[i]].entries \in Seq(Entry)
  <2> SUFFICES ASSUME NEW i \in 1..Len(w)
               PROVE  /\ ns[w[i]].leaf /\ LeafKeyed(ns[w[i]].entries, S)
                      /\ ns[w[i]].entries \in Seq(Entry)
    OBVIOUS
  <2>1. ns[w[i]].leaf /\ LeafKeyed(ns[w[i]].entries, S)
    BY DEF InRow
  <2>2. w[i] \in 1..Len(ns) /\ Leveled(ns, lev)
    BY <1>3
  <2> DEFINE p == w[i]
  <2> HIDE DEF ns, p
  <2>3. ns[p].leaf /\ p \in 1..Len(ns)
    BY <2>1, <2>2 DEF p
  <2>4. LeafFits(ns[p])
    BY <2>2, <2>3, PageIs
  <2>5. ns[p].entries \in Seq(Entry)
    BY <2>4, LeafPage
  <2> QED BY <2>1, <2>5 DEF p
<1>6. Has(w[b])
  <2>1. Matches(e, e)
    BY DEF Matches
  <2> QED BY <2>1
<1>7. PICK y \in 1..Len(ns[w[b]].entries) : ns[w[b]].entries[y] = e
  <2>1. ns[w[b]].entries \in Seq(Entry)
    BY <1>5
  <2>2. DOMAIN ns[w[b]].entries = 1..Len(ns[w[b]].entries)
    BY <2>1
  <2> QED BY <2>2 DEF ToSet
<1>8. e.key \in KeysOn(ns[w[b]]) /\ e.key \in Int
  <2>1. e.key \in KeysOn(ns[w[b]])
    BY <1>7 DEF KeysOn
  <2>2. e.key \in S
    BY <1>5, <1>7 DEF LeafKeyed
  <2> QED BY <2>1, <2>2
\* No leaf up to the one of the entry starts with a larger key.
<1>9. ASSUME NEW i \in 1..Len(w), i <= b PROVE ~Past(w[i])
  <2> SUFFICES ASSUME ns[w[i]].entries # << >> PROVE ~(ns[w[i]].entries[1].key > e.key)
    OBVIOUS
  <2> DEFINE es == ns[w[i]].entries
  <2>1. es \in Seq(Entry) /\ LeafKeyed(es, S) /\ es # << >>
    BY <1>5
  <2>2. 1 \in 1..Len(es) /\ Len(es) \in Nat
    <3> HIDE DEF es
    <3> QED BY <2>1
  <2>3. es[1].key \in Int
    <3> HIDE DEF es
    <3> QED BY <2>1, <2>2 DEF LeafKeyed
  <2>4. es[1].key <= e.key
    <3>1. CASE i < b
      <4>1. es[1].key \in KeysOn(ns[w[i]])
        BY <2>2 DEF KeysOn
      <4> QED BY <1>8, <3>1, <4>1 DEF InRow
    <3>2. CASE i = b
      <4>1. y \in 1..Len(es) /\ es[y] = e
        BY <1>7, <3>2
      <4> HIDE DEF es
      <4>2. 1 <= y
        BY <2>2, <4>1
      <4>3. es[1].key <= es[y].key
        BY <2>1, <2>2, <4>1, <4>2 DEF LeafKeyed
      <4> QED BY <4>1, <4>3
    <3>3. i < b \/ i = b
      BY <1>3, <1>9
    <3> QED BY <3>1, <3>2, <3>3
  <2> HIDE DEF es
  <2>5. ~(es[1].key > e.key)
    BY <1>8, <2>3, <2>4
  <2> QED BY <2>5 DEF es
\* The walk starts in front of it.
<1>10. PICK m \in 1..Len(w) : w[m] = a /\ m <= b
  <2>1. PICK m \in 1..Len(w) : w[m] = a /\ AllLower(ns, w, m - 1, e.key)
    BY DEF LedTo
  <2>2. m <= b
    <3>1. SUFFICES ASSUME b < m PROVE FALSE
      BY <1>3
    <3>2. b \in 1..m - 1
      BY <1>3, <3>1
    <3>3. e.key < e.key
      BY <1>8, <2>1, <3>2 DEF AllLower
    <3> QED BY <1>8, <3>3
  <2> QED BY <2>1, <2>2
<1> DEFINE n == Len(ns)
           Qe(f) == IsFollowed(f, n, a, follow)
           Good == [i \in 0..n |-> {q \in DOMAIN ns : Has(q) \/ (m + i <= b /\ q = w[m + i])}]
<1>11. \A i \in 0..n : \A q \in DOMAIN ns : q \in Good[i] <=> Has(q) \/ (m + i <= b /\ q = w[m + i])
  OBVIOUS
<1>12. \A i \in 0..n : Good[i] \subseteq DOMAIN ns
  OBVIOUS
<1>13. \A p \in DOMAIN ns : follow[p] = IF Has(p) \/ ns[p].next = 0 \/ Past(ns[p].next) THEN p
                                        ELSE ns[p].next
  OBVIOUS
<1> HIDE DEF Good, follow, Has, Past, a
<1>14. a \in Good[0]
  <2>1. m + 0 = m /\ 0 \in 0..n /\ a \in DOMAIN ns
    BY <1>2, <1>3, <1>10
  <2> QED BY <1>10, <1>11, <2>1
<1>15. ASSUME NEW k \in 1..n, NEW q \in Good[k - 1] PROVE follow[q] \in Good[k]
  <2>1. k \in 0..n /\ k - 1 \in 0..n /\ q \in DOMAIN ns
    <3>1. k \in 0..n /\ k - 1 \in 0..n
      BY <1>2
    <3> QED BY <1>12, <3>1
  <2>2. CASE Has(q)
    BY <1>11, <1>13, <2>1, <2>2
  <2>3. CASE ~Has(q)
    <3> DEFINE i == m + (k - 1)
    <3>1. i <= b /\ q = w[i]
      BY <1>11, <2>1, <2>3
    <3>2. i # b
      BY <1>6, <2>3, <3>1
    <3>3. /\ i \in 1..Len(w) /\ i \in 1..Len(w) - 1 /\ i + 1 \in 1..Len(w) /\ i + 1 <= b
          /\ i + 1 = m + k
      BY <1>2, <1>3, <3>1, <3>2
    <3> HIDE DEF i
    <3>4. ns[q].next = w[i + 1] /\ w[i + 1] \in 1..Len(ns)
      BY <1>3, <3>1, <3>3
    <3>5. ~Past(w[i + 1])
      BY <1>9, <3>3
    <3>6. w[i + 1] # 0
      BY <1>2, <3>4
    <3>7. follow[q] = w[i + 1]
      BY <1>13, <2>1, <2>3, <3>4, <3>5, <3>6
    <3> QED BY <1>2, <1>11, <2>1, <3>3, <3>4, <3>7
  <2> QED BY <2>2, <2>3
<1>16. (\E f : Qe(f)) /\ \A f : Qe(f) => f[n] \in Good[n]
  <2>1. n \in Nat /\ a \in Good[0] /\ \A k \in 1..n : \A x \in Good[k - 1] : follow[x] \in Good[k]
    BY <1>2, <1>14, <1>15
  <2> HIDE DEF n
  <2> QED BY <2>1, Followed, Zenon
<1>17. Eq(leaf)
  <2>1. \A f : Qe(f) <=> Eq(f)
    BY DEF IsFollowed
  <2>2. \E f : Eq(f)
    <3> HIDE DEF Eq, Qe
    <3> QED BY <1>16, <2>1
  <2> HIDE DEF Eq
  <2> QED BY <2>2
<1>18. stop \in Good[n]
  <2>1. Qe(leaf)
    BY <1>17 DEF IsFollowed
  <2> HIDE DEF Qe, leaf
  <2> QED BY <1>16, <2>1
<1> HIDE DEF leaf, stop
<1>19. Has(stop) /\ stop \in DOMAIN ns
  <2>1. n \in 0..n /\ ~(m + n <= b)
    BY <1>2, <1>3, <1>4
  <2> QED BY <1>11, <1>12, <1>18, <2>1
<1>20. LeafOf(t, e) = stop /\ stop # 0
  BY <1>1, <1>2, <1>19
<1> QED BY <1>20

\* So every entry of the index is found.
LEMMA FindableNow ==
  ASSUME NumericKeys, KeyedInvariant
  PROVE  Findable
<1> DEFINE t == [nodes |-> nodes, root |-> Root]
           w == LeavesBelow(nodes, Root)
<1> SUFFICES ASSUME Root # 0, NEW p \in ToSet(TreeLeaves(Root)), NEW e \in ToSet(nodes[p].entries)
             PROVE  LeafOf(t, e) # 0
  BY DEF Findable
<1>1. PICK lev : FileNow(lev) /\ Leveled(nodes, lev)
  BY LevelsNow DEF KeyedInvariant, OrderInvariant
<1>2. PICK L, H : Picture(nodes, Root, L, H)
  BY DEF KeyedInvariant, OrderInvariant, Pictured, NowView
<1>3. PICK B : Ordered(Sheet(nodes, Root, L), B)
  <2>1. InOrder(nodes, Root)
    BY DEF KeyedInvariant, KeyInOrder, NowView
  <2>2. SheetInOrder(nodes, Root, L)
    BY <1>1, <1>2, <2>1, PictureInOrder
  <2> QED BY <2>2 DEF SheetInOrder
<1>4. L \subseteq 1..Len(nodes) /\ Root \in L
  BY <1>2, PictureKids
<1>5. Run(nodes, w, First(nodes, Root), 0)
  BY <1>1, <1>2, RootRun
<1>6. InRow(nodes, w, B[Root]) /\ B[Root] \subseteq Int
  <2>1. InRow(nodes, w, B[Root])
    BY <1>1, <1>3, <1>4, InRowsBelow
  <2>2. Root \in DOMAIN Sheet(nodes, Root, L)
    BY <1>4 DEF Sheet
  <2> QED BY <1>3, <2>1, <2>2 DEF Ordered
<1>7. TreeLeaves(Root) = w
  BY ReadNow
<1> HIDE DEF w
<1>8. PICK b \in 1..Len(w) : p = w[b]
  <2>1. w \in Seq(1..Len(nodes))
    BY <1>6 DEF InRow
  <2>2. DOMAIN w = 1..Len(w)
    BY <2>1
  <2> QED BY <1>7, <2>2 DEF ToSet
<1>9. e \in Entry /\ e.key \in Int
  <2>1. nodes[p].leaf /\ p \in 1..Len(nodes) /\ LeafKeyed(nodes[p].entries, B[Root])
    <3>1. w[b] \in 1..Len(nodes)
      <4>1. w \in Seq(1..Len(nodes))
        BY <1>6 DEF InRow
      <4> QED BY <4>1, SeqFacts
    <3> QED BY <1>6, <1>8, <3>1 DEF InRow
  <2>2. nodes[p].entries \in Seq(Entry)
    BY <1>1, <2>1, PageIs, LeafPage
  <2>3. DOMAIN nodes[p].entries = 1..Len(nodes[p].entries)
    BY <2>2
  <2>4. PICK i \in 1..Len(nodes[p].entries) : e = nodes[p].entries[i]
    BY <2>3 DEF ToSet
  <2>5. e \in Entry
    BY <2>2, <2>4, SeqFacts
  <2> QED BY <1>6, <2>1, <2>4, <2>5 DEF LeafKeyed
<1>10. t.nodes = nodes /\ t.root = Root
  OBVIOUS
<1> HIDE DEF t
<1>11. LedTo(nodes, w, Last(Path(t, e.key, findInternalChildIdsLeft)), e.key)
  <2> DEFINE path == Path(t, e.key, findInternalChildIdsLeft)
             n    == lev[Root]
  <2>1. Leveled(t.nodes, lev) /\ t.root \in 1..Len(t.nodes)
    BY <1>1, <1>4, <1>10
  <2>2. PICK pick : /\ Picks(nodes, pick)
                    /\ \A x \in 1..Len(nodes) :
                         ~nodes[x].leaf => pick[x] = findInternalChildIdsLeft(nodes[x], e.key)
                    /\ Walk(nodes, lev, pick, Root, path)
    BY <1>10, <2>1, DescentLeft
  <2> HIDE DEF path
  <2>3. LedTo(nodes, w, path[n + 1], e.key)
    BY <1>1, <1>2, <1>3, <1>9, <2>2, DescentLeads DEF w
  <2>4. Last(path) = path[n + 1]
    BY <2>2 DEF Walk, Last
  <2> QED BY <2>3, <2>4 DEF path
<1>12. /\ Leveled(t.nodes, lev) /\ t.root # 0 /\ Run(t.nodes, w, First(nodes, Root), 0)
       /\ InRow(t.nodes, w, B[Root]) /\ e \in ToSet(t.nodes[w[b]].entries)
       /\ LedTo(t.nodes, w, Last(Path(t, e.key, findInternalChildIdsLeft)), e.key)
  BY <1>1, <1>5, <1>6, <1>8, <1>10, <1>11
<1> QED BY <1>6, <1>9, <1>12, WalkMeets

\* deleteEntry and a scan find every entry of the index: the descent to its key ends at its
\* leaf or in front of it, and the walk along the chain does not stop before it.
THEOREM EntriesStayFindable ==
  ASSUME NumericKeys
  PROVE  OrderlySpec => []Findable
<1>1. KeyedInvariant => Findable
  BY FindableNow
<1> QED BY <1>1, KeyedStays, PTL

-----------------------------------------------------------------------------
(* A scan returns the entries in order. *)

\* For every set s of places in the row w, f has the entries of the leaves at them, one leaf
\* behind the other.
IsFold(ns, w, f) ==
  f = [s \in SUBSET (DOMAIN w) |->
         IF s = {} THEN << >> ELSE f[s \ {Max(s)}] \o ns[w[Max(s)]].entries]

\* The entries of the leaves w, one leaf behind the other.
Folded(ns, w) == LET f == CHOOSE g : IsFold(ns, w, g) IN f[DOMAIN w]

\* A set of numbers with a bound has a greatest.
LEMMA GreatestIs ==
  ASSUME NEW n \in Nat, NEW s, s \subseteq 1..n, s # {}
  PROVE  Max(s) \in s /\ \A x \in s : x <= Max(s)
<1> DEFINE T == {n - x : x \in s}
<1>1. T \subseteq Nat /\ T # {}
  <2>1. \A x \in s : x \in 1..n /\ n - x \in Nat
    OBVIOUS
  <2> QED BY <2>1
<1>2. PICK d \in T : \A m \in T : d <= m
  BY <1>1, LeastOf
<1>3. PICK z \in s : d = n - z
  BY <1>2
<1>4. \A x \in s : z >= x
  <2> SUFFICES ASSUME NEW x \in s PROVE z >= x
    OBVIOUS
  <2>1. n - x \in T
    OBVIOUS
  <2>2. d <= n - x
    BY <1>2, <2>1
  <2>3. x \in 1..n /\ z \in 1..n
    OBVIOUS
  <2> QED BY <1>3, <2>2, <2>3
<1> HIDE DEF T
<1>5. Max(s) = CHOOSE x \in s : \A y \in s : x >= y
  BY DEF Max
<1>6. Max(s) \in s /\ \A y \in s : Max(s) >= y
  BY <1>4, <1>5
<1>7. s \subseteq Int
  OBVIOUS
<1> QED BY <1>6, <1>7

\* The entries of all sets of leaves are defined.
LEMMA FoldExists ==
  ASSUME NEW ns, NEW w, w \in Seq(1..Len(ns)),
         \A a \in 1..Len(w) : ns[w[a]].entries \in Seq(Entry)
  PROVE  \E f : IsFold(ns, w, f)
<1> DEFINE n == Len(w)
           P == SUBSET (1..n)
           V == Seq(Entry)
           lev == [s \in P |-> IF s = {} THEN 0 ELSE Max(s)]
           G == [s \in P |-> [g \in [P -> V] |->
                   IF s = {} THEN << >> ELSE g[s \ {Max(s)}] \o ns[w[Max(s)]].entries]]
<1>1. n \in Nat /\ DOMAIN w = 1..n
  OBVIOUS
<1>2. ASSUME NEW s \in P, s # {}
      PROVE  /\ Max(s) \in 1..n /\ s \ {Max(s)} \in P
             /\ lev[s] = Max(s) /\ lev[s \ {Max(s)}] < lev[s]
  <2>1. Max(s) \in s /\ \A x \in s : x <= Max(s)
    BY <1>1, <1>2, GreatestIs
  <2> DEFINE r == s \ {Max(s)}
  <2>2. Max(s) \in 1..n /\ r \in P /\ lev[s] = Max(s)
    BY <1>2, <2>1
  <2>3. lev[r] < Max(s)
    <3>1. CASE r = {}
      BY <2>2, <3>1
    <3>2. CASE r # {}
      <4>1. Max(r) \in r
        BY <1>1, <2>2, <3>2, GreatestIs
      <4>2. Max(r) \in s /\ Max(r) # Max(s) /\ Max(r) \in 1..n
        BY <2>2, <4>1
      <4>3. Max(r) <= Max(s)
        BY <2>1, <4>2
      <4>4. lev[r] = Max(r)
        BY <2>2, <3>2
      <4> QED BY <2>2, <4>2, <4>3, <4>4
    <3> QED BY <3>1, <3>2
  <2> QED BY <2>2, <2>3
<1>3. lev \in [P -> Nat]
  <2>1. ASSUME NEW s \in P PROVE (IF s = {} THEN 0 ELSE Max(s)) \in Nat
    <3>1. CASE s = {}
      BY <3>1
    <3>2. CASE s # {}
      <4>1. Max(s) \in 1..n
        BY <1>2, <3>2
      <4> QED BY <1>1, <3>2, <4>1
    <3> QED BY <3>1, <3>2
  <2> QED BY <2>1
<1>4. \A s \in P : \A g \in [P -> V] :
        G[s][g] = IF s = {} THEN << >> ELSE g[s \ {Max(s)}] \o ns[w[Max(s)]].entries
  OBVIOUS
<1>5. \A s \in P : s # {} => ns[w[Max(s)]].entries \in V
  BY <1>2
<1>6. << >> \in V /\ V # {}
  <2>1. << >> \in V
    OBVIOUS
  <2> HIDE DEF V
  <2> QED BY <2>1
<1>7. \A a, b \in V : a \o b \in V
  OBVIOUS
<1> HIDE DEF V, G, lev
<1>8. \A s \in P : \A g \in [P -> V] : G[s][g] \in V
  <2> SUFFICES ASSUME NEW s \in P, NEW g \in [P -> V] PROVE G[s][g] \in V
    OBVIOUS
  <2>1. CASE s = {}
    BY <1>4, <1>6, <2>1
  <2>2. CASE s # {}
    <3>1. g[s \ {Max(s)}] \in V /\ ns[w[Max(s)]].entries \in V
      BY <1>2, <1>5, <2>2
    <3> QED BY <1>4, <1>7, <2>2, <3>1
  <2> QED BY <2>1, <2>2
<1>9. \A s \in P : \A g, h \in [P -> V] :
        (\A q \in P : lev[q] < lev[s] => g[q] = h[q]) => G[s][g] = G[s][h]
  <2> SUFFICES ASSUME NEW s \in P, NEW g \in [P -> V], NEW h \in [P -> V],
                      \A q \in P : lev[q] < lev[s] => g[q] = h[q]
               PROVE  G[s][g] = G[s][h]
    OBVIOUS
  <2>1. CASE s = {}
    BY <1>4, <2>1
  <2>2. CASE s # {}
    <3>1. g[s \ {Max(s)}] = h[s \ {Max(s)}]
      BY <1>2, <2>2
    <3> QED BY <1>4, <2>2, <3>1
  <2> QED BY <2>1, <2>2
<1>10. Descends(P, lev, V, G)
  BY <1>3, <1>6, <1>8, <1>9 DEF Descends
<1>11. PICK f \in [P -> V] : IsFixpoint(P, G, f)
  BY <1>10, ByLevel
<1>12. \A s \in P : f[s] = IF s = {} THEN << >> ELSE f[s \ {Max(s)}] \o ns[w[Max(s)]].entries
  BY <1>4, <1>11 DEF IsFixpoint
<1>13. f = [s \in P |-> f[s]]
  OBVIOUS
<1>14. IsFold(ns, w, f)
  BY <1>1, <1>12, <1>13 DEF IsFold
<1> QED BY <1>14

\* The entries v are in order, and each of their keys is on one of the first k leaves.
FoldedTo(ns, w, k, v) ==
  /\ v \in Seq(Entry)
  /\ \A i, j \in 1..Len(v) : i <= j => v[i].key <= v[j].key
  /\ \A i \in 1..Len(v) : \E a \in 1..k : v[i].key \in KeysOn(ns[w[a]])

\* The entries of one more leaf behind them.
LEMMA FoldedOn ==
  ASSUME NEW ns, NEW w, NEW S, InRow(ns, w, S), NEW k \in Nat, k + 1 <= Len(w),
         ns[w[k + 1]].entries \in Seq(Entry), NEW v, FoldedTo(ns, w, k, v)
  PROVE  FoldedTo(ns, w, k + 1, v \o ns[w[k + 1]].entries)
<1> DEFINE es == ns[w[k + 1]].entries
           z  == v \o es
<1>1. v \in Seq(Entry) /\ es \in Seq(Entry) /\ Len(v) \in Nat /\ Len(es) \in Nat
  BY DEF FoldedTo
<1>2. z \in Seq(Entry) /\ Parts(z, v, es)
  BY <1>1, PartsMade
<1>3. Len(w) \in Nat /\ k + 1 \in 1..Len(w)
  BY DEF InRow
<1>4. \A i, j \in 1..Len(es) : i <= j => es[i].key <= es[j].key
  BY <1>3 DEF InRow, LeafKeyed
<1>5. \A j \in 1..Len(es) : es[j].key \in KeysOn(ns[w[k + 1]])
  BY DEF KeysOn
<1>6. \A i \in 1..Len(v), j \in 1..Len(es) : v[i].key <= es[j].key
  <2> SUFFICES ASSUME NEW i \in 1..Len(v), NEW j \in 1..Len(es) PROVE v[i].key <= es[j].key
    OBVIOUS
  <2>1. PICK a \in 1..k : v[i].key \in KeysOn(ns[w[a]])
    BY DEF FoldedTo
  <2>2. a \in 1..Len(w) /\ a < k + 1
    BY <1>3
  <2> QED BY <1>3, <1>5, <2>1, <2>2 DEF InRow
<1> HIDE DEF es
<1>7. /\ Len(z) = Len(v) + Len(es)
      /\ \A i \in 1..Len(v) : z[i] = v[i]
      /\ \A i \in 1..Len(es) : z[Len(v) + i] = es[i]
  BY <1>2 DEF Parts
<1> HIDE DEF z
<1>8. ASSUME NEW i \in 1..Len(z), ~(i <= Len(v))
      PROVE  i - Len(v) \in 1..Len(es) /\ z[i] = es[i - Len(v)]
  <2>1. i - Len(v) \in 1..Len(es) /\ Len(v) + (i - Len(v)) = i
    BY <1>1, <1>7, <1>8
  <2> QED BY <1>7, <2>1
<1>9. ASSUME NEW i \in 1..Len(z), NEW j \in 1..Len(z), i <= j
      PROVE  z[i].key <= z[j].key
  <2>1. CASE j <= Len(v)
    <3>1. i \in 1..Len(v) /\ j \in 1..Len(v)
      BY <1>1, <1>7, <1>9, <2>1
    <3> QED BY <1>7, <1>9, <3>1 DEF FoldedTo
  <2>2. CASE i <= Len(v) /\ ~(j <= Len(v))
    <3>1. i \in 1..Len(v)
      BY <1>1, <1>7, <2>2
    <3> QED BY <1>6, <1>7, <1>8, <2>2, <3>1
  <2>3. CASE ~(i <= Len(v))
    <3>1. ~(j <= Len(v))
      BY <1>1, <1>7, <1>9, <2>3
    <3>2. i - Len(v) <= j - Len(v)
      BY <1>1, <1>7, <1>9
    <3> QED BY <1>4, <1>8, <2>3, <3>1, <3>2
  <2> QED BY <2>1, <2>2, <2>3
<1>10. ASSUME NEW i \in 1..Len(z)
       PROVE  \E a \in 1..k + 1 : z[i].key \in KeysOn(ns[w[a]])
  <2>1. CASE i <= Len(v)
    <3>1. i \in 1..Len(v)
      BY <1>1, <1>7, <2>1
    <3>2. PICK a \in 1..k : v[i].key \in KeysOn(ns[w[a]])
      BY <3>1 DEF FoldedTo
    <3>3. a \in 1..k + 1
      OBVIOUS
    <3> QED BY <1>7, <3>1, <3>2, <3>3
  <2>2. CASE ~(i <= Len(v))
    <3>1. k + 1 \in 1..k + 1
      OBVIOUS
    <3> QED BY <1>5, <1>8, <2>2, <3>1
  <2> QED BY <2>1, <2>2
<1>11. FoldedTo(ns, w, k + 1, z)
  BY <1>2, <1>9, <1>10 DEF FoldedTo
<1> QED BY <1>11 DEF z, es

\* The entries of a row of leaves are in order.
LEMMA RowFolded ==
  ASSUME NEW ns, NEW w, NEW S, InRow(ns, w, S),
         \A a \in 1..Len(w) : ns[w[a]].entries \in Seq(Entry)
  PROVE  /\ Folded(ns, w) \in Seq(Entry)
         /\ \A i, j \in 1..Len(Folded(ns, w)) :
               i <= j => Folded(ns, w)[i].key <= Folded(ns, w)[j].key
<1> DEFINE n == Len(w)
           f == CHOOSE g : IsFold(ns, w, g)
           T == {k \in Nat : k <= n => FoldedTo(ns, w, k, f[1..k])}
<1>1. w \in Seq(1..Len(ns)) /\ n \in Nat /\ DOMAIN w = 1..n
  BY DEF InRow
<1>2. IsFold(ns, w, f)
  BY <1>1, FoldExists
<1>3. Folded(ns, w) = f[1..n]
  BY <1>1 DEF Folded
<1> HIDE DEF f
<1>4. \A s \in SUBSET (1..n) :
        f[s] = IF s = {} THEN << >> ELSE f[s \ {Max(s)}] \o ns[w[Max(s)]].entries
  BY <1>1, <1>2 DEF IsFold
<1>5. 0 \in T
  <2>1. {} \in SUBSET (1..n) /\ 1..0 = {}
    OBVIOUS
  <2>2. f[1..0] = << >>
    BY <1>4, <2>1
  <2>3. << >> \in Seq(Entry) /\ Len(<< >>) = 0
    OBVIOUS
  <2>4. FoldedTo(ns, w, 0, << >>)
    BY <2>3 DEF FoldedTo
  <2> QED BY <2>2, <2>4
<1>6. ASSUME NEW k \in Nat, k \in T PROVE k + 1 \in T
  <2> SUFFICES ASSUME k + 1 <= n PROVE FoldedTo(ns, w, k + 1, f[1..(k + 1)])
    OBVIOUS
  <2>1. FoldedTo(ns, w, k, f[1..k])
    BY <1>1, <1>6
  <2> DEFINE s == 1..(k + 1)
  <2>2. s \in SUBSET (1..n) /\ s # {} /\ k + 1 \in s
    <3>1. k + 1 \in s
      OBVIOUS
    <3>2. \A x \in s : x \in 1..n
      BY <1>1
    <3> HIDE DEF s
    <3> QED BY <3>1, <3>2
  <2>3. Max(s) \in s /\ \A x \in s : x <= Max(s)
    BY <1>1, <2>2, GreatestIs
  <2>4. Max(s) = k + 1
    BY <2>2, <2>3
  <2>5. s \ {k + 1} = 1..k
    OBVIOUS
  <2>6. f[s] = f[1..k] \o ns[w[k + 1]].entries
    BY <1>4, <2>2, <2>4, <2>5
  <2>7. ns[w[k + 1]].entries \in Seq(Entry)
    BY <1>1
  <2> HIDE DEF s
  <2>8. FoldedTo(ns, w, k + 1, f[1..k] \o ns[w[k + 1]].entries)
    BY <2>1, <2>7, FoldedOn
  <2> QED BY <2>6, <2>8 DEF s
<1>7. n \in T
  <2> HIDE DEF T
  <2> QED BY <1>1, <1>5, <1>6, Induct
<1>8. FoldedTo(ns, w, n, f[1..n])
  BY <1>1, <1>7
<1> QED BY <1>3, <1>8 DEF FoldedTo

\* What a scan meets is the entries of the leaves along the chain.
LEMMA ScanFolds ==
  \A r : r # 0 => ScanOrder(r) = Folded(nodes, Chain(FirstLeaf(r)))
BY DEF ScanOrder, FoldLeft, MapThenFoldSet, Folded, IsFold

\* So a scan meets the entries in order.
LEMMA SortedNow ==
  ASSUME NumericKeys, KeyedInvariant
  PROVE  ScanSorted
<1> DEFINE order == ScanOrder(Root)
<1>1. CASE Root = 0
  <2>1. order = << >>
    BY <1>1 DEF ScanOrder
  <2>2. Len(<< >>) = 0
    OBVIOUS
  <2> QED BY <2>1, <2>2 DEF ScanSorted
<1>2. CASE Root # 0
  <2> DEFINE w == LeavesBelow(nodes, Root)
  <2>1. PICK lev : FileNow(lev) /\ Leveled(nodes, lev)
    BY LevelsNow DEF KeyedInvariant, OrderInvariant
  <2>2. PICK L, H : Picture(nodes, Root, L, H)
    BY <1>2 DEF KeyedInvariant, OrderInvariant, Pictured, NowView
  <2>3. PICK B : Ordered(Sheet(nodes, Root, L), B)
    <3>1. InOrder(nodes, Root)
      BY <1>2 DEF KeyedInvariant, KeyInOrder, NowView
    <3>2. SheetInOrder(nodes, Root, L)
      BY <2>1, <2>2, <3>1, PictureInOrder
    <3> QED BY <3>2 DEF SheetInOrder
  <2>4. L \subseteq 1..Len(nodes) /\ Root \in L
    BY <2>2, PictureKids
  <2>5. InRow(nodes, w, B[Root])
    BY <2>1, <2>3, <2>4, InRowsBelow
  <2>6. Chain(FirstLeaf(Root)) = w
    <3>1. ChainOf(nodes, First(nodes, Root)) = w
      BY <1>2, <2>1, <2>2, PictureRead
    <3> QED BY <3>1, ReadNow
  <2> HIDE DEF w
  <2>7. order = Folded(nodes, w)
    BY <1>2, <2>6, ScanFolds
  <2>8. ASSUME NEW a \in 1..Len(w) PROVE nodes[w[a]].entries \in Seq(Entry)
    <3>1. w \in Seq(1..Len(nodes)) /\ nodes[w[a]].leaf
      BY <2>5 DEF InRow
    <3>2. w[a] \in 1..Len(nodes)
      BY <3>1, SeqFacts
    <3>3. LeafFits(nodes[w[a]])
      BY <2>1, <3>1, <3>2, PageIs
    <3> QED BY <3>3, LeafPage
  <2>9. /\ order \in Seq(Entry)
        /\ \A i, j \in 1..Len(order) : i <= j => order[i].key <= order[j].key
    BY <2>5, <2>7, <2>8, RowFolded
  <2>10. ScanSorted <=> \A i \in 1..Len(order) - 1 : order[i].key <= order[i + 1].key
    BY DEF ScanSorted
  <2> HIDE DEF order
  <2>11. Len(order) \in Nat
    BY <2>9
  <2> QED BY <2>9, <2>10, <2>11
<1> QED BY <1>1, <1>2

\* A scan of the whole index returns its entries in key order, for orderly clients.
THEOREM ScansStaySorted ==
  ASSUME NumericKeys
  PROVE  OrderlySpec => []ScanSorted
<1>1. KeyedInvariant => ScanSorted
  BY SortedNow
<1> QED BY <1>1, KeyedStays, PTL

-----------------------------------------------------------------------------
(* Each call acts on the entry it is given. *)

\* What an orderly insertion and a deletion make of the contents.
LEMMA CallsMean ==
  ASSUME NumericKeys, OrderInvariant, OrderInvariant', NEW h \in Handles, NEW e \in Entry
  PROVE  /\ New(h, e) /\ ~Misplaces(ViewOf(h), e) /\ insertEntry(h, e) =>
              Contents(Root)' = Contents(Root) \cup {e}
         /\ deleteEntry(h, e) => e \in Contents(Root) /\ Contents(Root)' = Contents(Root) \ {e}
<1>1. IndexInvariant /\ IndexInvariant'
  BY DEF OrderInvariant
<1>2. PICK H : Pictured(NowView, H)
  BY DEF OrderInvariant
<1>3. ContentsDrawn /\ ContentsDrawn'
  <2>1. IndexInvariant => ContentsDrawn
    BY ContentsAre
  <2>2. IndexInvariant' => ContentsDrawn'
    BY ContentsAre, PTL
  <2> QED BY <1>1, <2>1, <2>2
<1>4. Contents(Root) = H
  BY <1>2, <1>3 DEF ContentsDrawn
<1>5. ASSUME NEW t, nodes' = t.nodes, Root' = t.root, NEW K, Pictured(t, K)
      PROVE  Contents(Root)' = K
  <2>1. NowView'.nodes = t.nodes /\ NowView'.root = t.root
    BY <1>5 DEF NowView
  <2>2. Pictured(NowView', K)
    BY <1>5, <2>1 DEF Pictured
  <2> QED BY <1>3, <2>2 DEF ContentsDrawn
<1> DEFINE v == ViewOf(h)
<1>6. ASSUME Current(h)
      PROVE  /\ \E lev : FileView(v, lev) /\ v.nodes = nodes
             /\ v.root = Root /\ handles[h].root = Root /\ Pictured(v, H)
  <2>1. \E lev : FileView(v, lev) /\ v.nodes = nodes
    BY <1>1, <1>6, NowIs
  <2>2. v.root = Root /\ handles[h].root = Root
    BY <1>1, <1>6, RootIs DEF IndexInvariant, Current, ViewOf
  <2>3. NowView.nodes = nodes /\ NowView.root = Root
    BY DEF NowView
  <2>4. Pictured(v, H)
    BY <1>2, <2>1, <2>2, <2>3 DEF Pictured
  <2> QED BY <2>1, <2>2, <2>4
<1>7. ASSUME New(h, e), ~Misplaces(v, e), insertEntry(h, e)
      PROVE  Contents(Root)' = Contents(Root) \cup {e}
  <2> DEFINE t == InsertEntry(v, e)
  <2>1. Current(h) /\ Becomes(h, t)
    BY <1>7 DEF insertEntry
  <2>2. nodes' = t.nodes /\ Root' = t.root
    BY <1>1, <2>1, NowBecomes
  <2>3. PICK lev : FileView(v, lev) /\ v.nodes = nodes
    BY <1>6, <2>1
  <2>4. Pictured(v, H) /\ handles[h].root = Root
    BY <1>6, <2>1
  <2>5. e \notin H
    BY <1>4, <1>7, <2>4 DEF New
  <2> HIDE DEF v
  <2>6. Pictured(t, H \cup {e})
    BY <1>7, <2>3, <2>4, <2>5, InsertDrawn
  <2> HIDE DEF t
  <2> QED BY <1>4, <1>5, <2>2, <2>6
<1>8. ASSUME deleteEntry(h, e)
      PROVE  e \in Contents(Root) /\ Contents(Root)' = Contents(Root) \ {e}
  <2> DEFINE t == shrinkRoot(del(v, e, LeafOf(v, e)))
  <2>1. Current(h) /\ Becomes(h, t) /\ LeafOf(v, e) # 0
    BY <1>8 DEF deleteEntry
  <2>2. nodes' = t.nodes /\ Root' = t.root
    BY <1>1, <2>1, NowBecomes
  <2>3. PICK lev : FileView(v, lev) /\ v.nodes = nodes
    BY <1>6, <2>1
  <2>4. Pictured(v, H)
    BY <1>6, <2>1
  <2> HIDE DEF v
  <2>5. e \in H /\ Pictured(t, H \ {e})
    BY <2>1, <2>3, <2>4, DeleteDrawn
  <2> HIDE DEF t
  <2> QED BY <1>4, <1>5, <2>2, <2>5
<1> QED BY <1>7, <1>8

\* The client of the runs, within whatever bounds, makes the calls of an orderly client.
LEMMA RunsAreOrderly ==
  ASSUME Orderly
  PROVE  [MCNext]_mcVars => [OrderlyNext]_vars
<1>1. ASSUME NEW E, E \subseteq Entry, Call(E) PROVE OrderlyNext
  BY <1>1 DEF Call, OrderlyNext
<1>2. CASE AnyCall
  <2>1. CASE Call({e \in Entry : e.key <= FewKeys})
    BY <1>1, <2>1
  <2>2. CASE \E h \in Handles : \/ (\A g \in Handles : ~handles[g].open) /\ openFile(h)
                                \/ closeFile(h)
    BY <2>2 DEF OrderlyNext
  <2> QED BY <1>2, <2>1, <2>2 DEF AnyCall
<1>3. CASE DeepCall
  BY <1>1, <1>3 DEF DeepCall
<1> QED BY <1>2, <1>3 DEF MCNext, mcVars, vars

\* insertEntry adds the entry it is given, deleteEntry removes the one it is given, which
\* was there, and no other entry comes or goes, whatever is split, rotated, merged and freed.
THEOREM CallsActOnTheirOwn ==
  ASSUME NumericKeys, Orderly
  PROVE  EmptySpec => CallsActOnTheirEntry
<1>1. EmptySpec => OrderlySpec
  <2>1. EmptyInit => Init
    BY DEF EmptyInit
  <2> QED BY <2>1, RunsAreOrderly, PTL DEF EmptySpec, OrderlySpec
<1> DEFINE before == Contents(Root)
           after  == Contents(Root)'
           Acts == /\ last'[1] = "insertEntry" => after = before \cup {last'[2]}
                   /\ last'[1] = "deleteEntry" => last'[2] \in before /\ after = before \ {last'[2]}
<1>2. ASSUME OrderInvariant, OrderInvariant', MCNext PROVE Acts
  <2>1. ASSUME NEW E, E \subseteq Entry, Call(E) PROVE Acts
    <3>1. PICK h \in Handles, e \in E :
            \/ /\ New(h, e)
               /\ Orderly => ~Misplaces(ViewOf(h), e)
               /\ insertEntry(h, e)
               /\ last' = <<"insertEntry", e>>
            \/ deleteEntry(h, e) /\ last' = <<"deleteEntry", e>>
      BY <2>1 DEF Call
    <3>2. e \in Entry
      BY <2>1
    <3>3. /\ New(h, e) /\ ~Misplaces(ViewOf(h), e) /\ insertEntry(h, e) => after = before \cup {e}
          /\ deleteEntry(h, e) => e \in before /\ after = before \ {e}
      BY <1>2, <3>2, CallsMean
    <3> HIDE DEF before, after
    <3>4. CASE last' = <<"deleteEntry", e>> /\ deleteEntry(h, e)
      <4>1. last'[1] = "deleteEntry" /\ last'[2] = e /\ last'[1] # "insertEntry"
        BY <3>4
      <4> QED BY <3>3, <3>4, <4>1
    <3>5. CASE last' = <<"insertEntry", e>> /\ New(h, e) /\ ~Misplaces(ViewOf(h), e) /\ insertEntry(h, e)
      <4>1. last'[1] = "insertEntry" /\ last'[2] = e /\ last'[1] # "deleteEntry"
        BY <3>5
      <4> QED BY <3>3, <3>5, <4>1
    <3> QED BY <3>1, <3>4, <3>5
  <2>2. CASE last' = None
    <3>1. last'[1] = "none"
      BY <2>2 DEF None
    <3> QED BY <3>1
  <2>3. CASE AnyCall
    BY <2>1, <2>2, <2>3 DEF AnyCall
  <2>4. CASE DeepCall
    BY <2>1, <2>4 DEF DeepCall
  <2> QED BY <1>2, <2>3, <2>4 DEF MCNext
<1>3. OrderInvariant /\ OrderInvariant' /\ [MCNext]_mcVars => [Acts]_mcVars
  BY <1>2
<1>4. CallsActOnTheirEntry <=> [][Acts]_mcVars
  BY DEF CallsActOnTheirEntry
<1> HIDE DEF Acts
<1> QED BY <1>1, <1>3, <1>4, OrderlyInvariant, PTL DEF EmptySpec
=============================================================================
