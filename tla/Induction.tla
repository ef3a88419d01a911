----------------------------- MODULE Induction ------------------------------
(***************************************************************************)
(* Induction and recursion over the natural numbers with sets and          *)
(* functions in the place of operators, which first-order provers can      *)
(* instantiate.  All of it rests on < being well founded on Nat.           *)
(***************************************************************************)
EXTENDS Integers, WellFoundedInduction, TLAPS

\* The order of the numbers is well founded, as a set of pairs.
LEMMA LessOnNat ==
  \E R : IsWellFoundedOn(R, Nat) /\ \A m, n \in Nat : m < n => <<m, n>> \in R
<1> DEFINE R == {p \in Nat \X Nat : p[1] < p[2]}
<1>1. OpToRel(<, Nat) = R
  BY Zenon DEF OpToRel
<1>2. IsWellFoundedOn(R, Nat)
  BY <1>1, NatLessThanWellFounded, Zenon
<1>3. \A m, n \in Nat : m < n => <<m, n>> \in R
  OBVIOUS
<1> QED BY <1>2, <1>3

\* A set of numbers has a least one.
LEMMA LeastOf ==
  ASSUME NEW T, T \subseteq Nat, T # {}
  PROVE  \E n \in T : \A m \in T : n <= m
<1>1. PICK R : IsWellFoundedOn(R, Nat) /\ \A m, n \in Nat : m < n => <<m, n>> \in R
  BY LessOnNat
<1>2. PICK n \in T : \A m \in T : ~(<<m, n>> \in R)
  BY <1>1, WFMin, ZenonT(60)
<1>3. \A m \in T : ~(m < n)
  BY <1>1, <1>2
<1> QED BY <1>2, <1>3

\* A set with 0 and the successor of each of its numbers has them all.
LEMMA Induct ==
  ASSUME NEW S, 0 \in S, \A n \in Nat : n \in S => n + 1 \in S
  PROVE  Nat \subseteq S
<1> DEFINE T == Nat \ S
<1>1. SUFFICES ASSUME T # {} PROVE FALSE
  OBVIOUS
<1>2. PICK n \in T : \A m \in T : n <= m
  BY <1>1, LeastOf
<1>3. n # 0 /\ n - 1 \in Nat /\ n - 1 \in S
  BY <1>2
<1> QED BY <1>2, <1>3

-----------------------------------------------------------------------------
\* g is the first n + 1 elements of a, G[a], G[G[a]], ...
Iterates(G, S, a, g, n) == /\ g \in [0..n -> S]
                           /\ g[0] = a
                           /\ \A i \in 1..n : g[i] = G[g[i - 1]]

LEMMA IteratesAgree ==
  ASSUME NEW S, NEW G \in [S -> S], NEW a \in S, NEW n \in Nat, NEW m \in Nat, n <= m,
         NEW g, NEW h, Iterates(G, S, a, g, n), Iterates(G, S, a, h, m)
  PROVE  \A i \in 0..n : g[i] = h[i]
<1> DEFINE T == {i \in Nat : i <= n => g[i] = h[i]}
<1>1. 0 \in T
  BY DEF Iterates
<1>2. ASSUME NEW i \in Nat, i \in T PROVE i + 1 \in T
  <2> SUFFICES ASSUME i + 1 <= n PROVE g[i + 1] = h[i + 1]
    OBVIOUS
  <2>1. g[i] = h[i] /\ i + 1 \in 1..n /\ i + 1 \in 1..m /\ (i + 1) - 1 = i
    BY <1>2
  <2>2. g[i + 1] = G[g[(i + 1) - 1]] /\ h[i + 1] = G[h[(i + 1) - 1]]
    BY <2>1 DEF Iterates
  <2> QED BY <2>1, <2>2
<1>3. Nat \subseteq T
  <2> HIDE DEF T
  <2> QED BY <1>1, <1>2, Induct
<1> QED BY <1>3

LEMMA IteratesExist ==
  ASSUME NEW S, NEW G \in [S -> S], NEW a \in S
  PROVE  \A n \in Nat : \E g : Iterates(G, S, a, g, n)
<1> DEFINE T == {n \in Nat : \E g : Iterates(G, S, a, g, n)}
<1>1. 0 \in T
  <2>1. Iterates(G, S, a, [i \in 0..0 |-> a], 0)
    BY DEF Iterates
  <2> QED BY <2>1
<1>2. ASSUME NEW n \in Nat, n \in T PROVE n + 1 \in T
  <2>1. PICK g : Iterates(G, S, a, g, n)
    BY <1>2
  <2> DEFINE h == [i \in 0..n + 1 |-> IF i <= n THEN g[i] ELSE G[g[n]]]
  <2>2. \A i \in 0..n : g[i] \in S
    BY <2>1 DEF Iterates
  <2>3. \A i \in 0..n + 1 : h[i] \in S
    BY <2>2
  <2>4. h \in [0..n + 1 -> S]
    BY <2>3
  <2>5. h[0] = a
    BY <2>1 DEF Iterates
  <2>6. ASSUME NEW i \in 1..n + 1 PROVE h[i] = G[h[i - 1]]
    <3>1. h[i - 1] = g[i - 1]
      OBVIOUS
    <3>2. CASE i \in 1..n
      BY <2>1, <3>1, <3>2 DEF Iterates
    <3>3. CASE i = n + 1
      BY <3>1, <3>3
    <3> QED BY <3>2, <3>3
  <2> HIDE DEF h
  <2>7. Iterates(G, S, a, h, n + 1)
    BY <2>4, <2>5, <2>6 DEF Iterates
  <2> QED BY <2>7
<1>3. Nat \subseteq T
  <2> HIDE DEF T
  <2> QED BY <1>1, <1>2, Induct
<1> QED BY <1>3

\* The function defined by recursion from a with step G exists.
LEMMA Recursion ==
  ASSUME NEW S, NEW G \in [S -> S], NEW a \in S
  PROVE  \E f \in [Nat -> S] : f = [n \in Nat |-> IF n = 0 THEN a ELSE G[f[n - 1]]]
<1> DEFINE g(n) == CHOOSE g : Iterates(G, S, a, g, n)
           f == [n \in Nat |-> g(n)[n]]
<1>1. \A n \in Nat : Iterates(G, S, a, g(n), n)
  BY IteratesExist
<1> HIDE DEF g
<1>2. \A n \in Nat : f[n] \in S
  BY <1>1 DEF Iterates
<1>3. f[0] = a
  BY <1>1 DEF Iterates
<1>4. ASSUME NEW n \in Nat, n # 0 PROVE f[n] = G[f[n - 1]]
  <2>1. n - 1 \in Nat /\ n - 1 <= n /\ n - 1 \in 0..n - 1 /\ n \in 1..n
    BY <1>4
  <2>2. g(n)[n - 1] = g(n - 1)[n - 1]
    BY <1>1, <2>1, IteratesAgree
  <2>3. g(n)[n] = G[g(n)[n - 1]]
    BY <1>1, <2>1 DEF Iterates
  <2> QED BY <2>1, <2>2, <2>3
<1>5. f = [n \in Nat |-> IF n = 0 THEN a ELSE G[f[n - 1]]]
  BY <1>3, <1>4
<1> QED BY <1>2, <1>5

\* A function that satisfies a recursion over Nat takes its values step by step.
LEMMA StepByStep ==
  ASSUME NEW S, NEW G \in [S -> S], NEW a \in S,
         NEW f, f = [n \in Nat |-> IF n = 0 THEN a ELSE G[f[n - 1]]]
  PROVE  /\ f \in [Nat -> S] /\ f[0] = a
         /\ \A n \in Nat : f[n + 1] = G[f[n]]
<1>1. f[0] = a
  OBVIOUS
<1>2. \A n \in Nat : f[n + 1] = G[f[n]]
  <2> SUFFICES ASSUME NEW n \in Nat PROVE f[n + 1] = G[f[n]]
    OBVIOUS
  <2>1. n + 1 \in Nat /\ n + 1 # 0 /\ (n + 1) - 1 = n
    OBVIOUS
  <2>2. f[n + 1] = G[f[(n + 1) - 1]]
    BY <2>1
  <2> QED BY <2>1, <2>2
<1> DEFINE T == {n \in Nat : f[n] \in S}
<1>3. Nat \subseteq T
  <2>1. 0 \in T /\ \A n \in Nat : n \in T => n + 1 \in T
    BY <1>1, <1>2
  <2> HIDE DEF T
  <2> QED BY <2>1, Induct
<1>4. DOMAIN f = Nat /\ f = [n \in Nat |-> f[n]]
  OBVIOUS
<1>5. f \in [Nat -> S]
  BY <1>3, <1>4
<1> QED BY <1>1, <1>2, <1>5

\* it is a, F[a], F[F[a]], ...
Iteration(F, a, it) == it[0] = a /\ \A n \in Nat : it[n + 1] = F[it[n]]

LEMMA Iterating ==
  \A S, F, a : F \in [S -> S] /\ a \in S => \E it \in [Nat -> S] : Iteration(F, a, it)
<1> SUFFICES ASSUME NEW S, NEW F, NEW a, F \in [S -> S], a \in S
             PROVE  \E it \in [Nat -> S] : Iteration(F, a, it)
  OBVIOUS
<1>1. PICK it \in [Nat -> S] : it = [n \in Nat |-> IF n = 0 THEN a ELSE F[it[n - 1]]]
  BY Recursion
<1>2. Iteration(F, a, it)
  BY <1>1, StepByStep DEF Iteration
<1> HIDE <1>1
<1> QED BY <1>2

-----------------------------------------------------------------------------
\* What holds on each rung if it holds on the first and each one leads to the next.
LEMMA Climbing ==
  ASSUME NEW n \in Nat, NEW Good, NEW f, f[0] \in Good[0],
         \A k \in 1..n : f[k - 1] \in Good[k - 1] => f[k] \in Good[k]
  PROVE  \A k \in 0..n : f[k] \in Good[k]
<1> DEFINE T == {k \in Nat : k <= n => f[k] \in Good[k]}
<1>1. 0 \in T
  OBVIOUS
<1>2. ASSUME NEW k \in Nat, k \in T PROVE k + 1 \in T
  <2> SUFFICES ASSUME k + 1 <= n PROVE f[k + 1] \in Good[k + 1]
    OBVIOUS
  <2>1. k + 1 \in 1..n /\ (k + 1) - 1 = k /\ k <= n
    OBVIOUS
  <2> QED BY <1>2, <2>1
<1>3. Nat \subseteq T
  <2> HIDE DEF T
  <2> QED BY <1>1, <1>2, Induct
<1> QED BY <1>3

\* A function defined by recursion over 0..n, with a step for each number, exists if each
\* step leads from good values to good ones.
IsLadder(n, a, H, f) == f = [k \in 0..n |-> IF k = 0 THEN a ELSE H[k][f[k - 1]]]

StaysGood(n, a, H, Good) == /\ a \in Good[0]
                            /\ \A k \in 1..n : \A s \in Good[k - 1] : H[k][s] \in Good[k]

LEMMA Ladder ==
  \A n \in Nat : \A Good, a, H : StaysGood(n, a, H, Good) =>
     \E f : IsLadder(n, a, H, f) /\ \A k \in 0..n : f[k] \in Good[k]
<1> SUFFICES ASSUME NEW n \in Nat, NEW Good, NEW a, NEW H, StaysGood(n, a, H, Good)
             PROVE  \E f : IsLadder(n, a, H, f) /\ \A k \in 0..n : f[k] \in Good[k]
  OBVIOUS
<1> USE DEF StaysGood
<1> DEFINE Rungs(f, m) == /\ f[0] = a
                          /\ \A k \in 1..m : f[k] = H[k][f[k - 1]]
                          /\ \A k \in 0..m : f[k] \in Good[k]
           T == {m \in Nat : m <= n => \E f : Rungs(f, m)}
<1>1. 0 \in T
  <2>1. Rungs([k \in 0..0 |-> a], 0)
    OBVIOUS
  <2> QED BY <2>1
<1>2. ASSUME NEW m \in Nat, m \in T PROVE m + 1 \in T
  <2> SUFFICES ASSUME m + 1 <= n PROVE \E f : Rungs(f, m + 1)
    OBVIOUS
  <2>1. PICK f : Rungs(f, m)
    BY <1>2
  <2> DEFINE h == [k \in 0..m + 1 |-> IF k <= m THEN f[k] ELSE H[m + 1][f[m]]]
  <2>2. /\ \A k \in 0..m : h[k] = f[k]
        /\ h[m + 1] = H[m + 1][f[m]]
    OBVIOUS
  <2> HIDE DEF h
  <2>3. h[0] = a
    BY <2>1, <2>2
  <2>4. ASSUME NEW k \in 1..m + 1 PROVE h[k] = H[k][h[k - 1]]
    <3>1. k - 1 \in 0..m /\ h[k - 1] = f[k - 1]
      BY <2>2
    <3>2. CASE k \in 1..m
      BY <2>1, <2>2, <3>1, <3>2
    <3>3. CASE k = m + 1
      BY <2>2, <3>1, <3>3
    <3> QED BY <3>2, <3>3
  <2>5. ASSUME NEW k \in 0..m + 1 PROVE h[k] \in Good[k]
    <3>1. CASE k \in 0..m
      BY <2>1, <2>2, <3>1
    <3>2. CASE k = m + 1
      <4>1. f[m] \in Good[(m + 1) - 1] /\ m + 1 \in 1..n
        BY <2>1
      <4> QED BY <2>2, <3>2, <4>1
    <3> QED BY <3>1, <3>2
  <2> QED BY <2>3, <2>4, <2>5
<1>3. Nat \subseteq T
  <2> HIDE DEF T
  <2> QED BY <1>1, <1>2, Induct
<1>4. PICK f : Rungs(f, n)
  BY <1>3
<1> DEFINE g == [k \in 0..n |-> f[k]]
<1>5. \A k \in 0..n : g[k] = IF k = 0 THEN a ELSE H[k][g[k - 1]]
  BY <1>4
<1>6. g = [k \in 0..n |-> IF k = 0 THEN a ELSE H[k][g[k - 1]]]
  <2>1. g = [k \in 0..n |-> g[k]]
    OBVIOUS
  <2> HIDE DEF g
  <2> QED BY <1>5, <2>1
<1>7. \A k \in 0..n : g[k] \in Good[k]
  BY <1>4
<1> HIDE DEF g
<1> QED BY <1>6, <1>7 DEF IsLadder

\* At each point p of P, what G[p] makes of a function depends on its values at points of
\* lower levels alone.
Descends(P, lev, V, G) ==
  /\ lev \in [P -> Nat] /\ V # {}
  /\ \A p \in P : \A g \in [P -> V] : G[p][g] \in V
  /\ \A p \in P : \A g, h \in [P -> V] :
        (\A q \in P : lev[q] < lev[p] => g[q] = h[q]) => G[p][g] = G[p][h]

IsFixpoint(P, G, f) == f = [p \in P |-> G[p][f]]

LEMMA ByLevel ==
  \A P, lev, V, G : Descends(P, lev, V, G) => \E f \in [P -> V] : IsFixpoint(P, G, f)
<1> SUFFICES ASSUME NEW P, NEW lev, NEW V, NEW G, Descends(P, lev, V, G)
             PROVE  \E f \in [P -> V] : IsFixpoint(P, G, f)
  OBVIOUS
<1> USE DEF Descends
<1> DEFINE S == [P -> V]
           F == [g \in S |-> [p \in P |-> G[p][g]]]
<1>1. PICK a \in S : TRUE
  <2>1. PICK v \in V : TRUE
    OBVIOUS
  <2>2. [p \in P |-> v] \in S
    OBVIOUS
  <2> QED BY <2>2
<1>2. F \in [S -> S]
  OBVIOUS
<1>3. \A g \in S : \A p \in P : F[g][p] = G[p][g]
  OBVIOUS
<1> HIDE DEF F, S
<1>4. F \in [S -> S] /\ a \in S
  BY <1>1, <1>2
<1>5. PICK it \in [Nat -> S] : Iteration(F, a, it)
  BY <1>4, Iterating, Zenon
<1>6. \A n \in Nat : it[n] \in S /\ \A p \in P : it[n + 1][p] = G[p][it[n]]
  BY <1>3, <1>5 DEF Iteration
<1> DEFINE f == [p \in P |-> it[lev[p] + 1][p]]
           T == {n \in Nat : \A m \in 0..n : \A p \in P : lev[p] < m => it[m][p] = f[p]}
<1>7. 0 \in T
  OBVIOUS
<1>8. ASSUME NEW n \in Nat, n \in T PROVE n + 1 \in T
  <2> SUFFICES ASSUME NEW p \in P, lev[p] < n + 1 PROVE it[n + 1][p] = f[p]
    BY <1>8
  <2>1. lev[p] \in 0..n /\ lev[p] \in Nat
    OBVIOUS
  <2>2. it[n + 1][p] = G[p][it[n]] /\ it[lev[p] + 1][p] = G[p][it[lev[p]]]
    BY <1>6, <2>1
  <2>3. \A q \in P : lev[q] < lev[p] => it[n][q] = it[lev[p]][q]
    BY <1>8, <2>1
  <2>4. it[n] \in [P -> V] /\ it[lev[p]] \in [P -> V]
    BY <1>6, <2>1 DEF S
  <2>5. G[p][it[n]] = G[p][it[lev[p]]]
    BY <2>3, <2>4
  <2> QED BY <2>2, <2>5
<1>9. Nat \subseteq T
  <2> HIDE DEF T
  <2> QED BY <1>7, <1>8, Induct
<1>10. \A p \in P : lev[p] \in Nat /\ it[lev[p]] \in [P -> V] /\ it[lev[p] + 1] \in [P -> V]
  BY <1>6 DEF S
<1>11. f \in [P -> V]
  BY <1>10
<1>12. ASSUME NEW p \in P PROVE f[p] = G[p][f]
  <2>1. \A q \in P : lev[q] < lev[p] => it[lev[p]][q] = f[q]
    BY <1>9
  <2>2. G[p][it[lev[p]]] = G[p][f]
    BY <1>10, <1>11, <2>1
  <2>3. it[lev[p] + 1][p] = G[p][it[lev[p]]]
    BY <1>6
  <2> QED BY <2>2, <2>3
<1>13. f = [p \in P |-> f[p]]
  OBVIOUS
<1> HIDE DEF f
<1>14. f = [p \in P |-> G[p][f]]
  BY <1>12, <1>13
<1> QED BY <1>11, <1>14 DEF IsFixpoint

=============================================================================
