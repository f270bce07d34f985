--------------------------- MODULE IterationProofs ---------------------------
(***************************************************************************)
(* Facts about Iterate, SumTo and SumFunctionOnSet.  The first two are     *)
(* recursive functions on Nat, the third is one on finite sets; that such  *)
(* a function exists is proved here from the approximations on 0 .. n, by  *)
(* induction in the form of NatSetInduction, which speaks of a set of      *)
(* numbers and not of a predicate.                                         *)
(***************************************************************************)
EXTENDS Iteration, Integers, Functions, FiniteSets, TLAPS, FiniteSetTheorems

\* A set of naturals with 0 and with the successor of each member is Nat.
LEMMA NatSetInduction ==
  ASSUME NEW T \in SUBSET Nat, 0 \in T, \A n \in Nat : n \in T => n + 1 \in T
  PROVE  T = Nat
<1>1. SUFFICES ASSUME T # Nat PROVE FALSE
  OBVIOUS
<1> DEFINE U == Nat \ T
<1>2. U \subseteq Nat /\ U # {}
  BY <1>1, Zenon
<1>3. IsWellFoundedOn(OpToRel(<,Nat), Nat)
  BY NatLessThanWellFounded, Zenon
<1> DEFINE R == OpToRel(<,Nat)
<1>4. IsWellFoundedOn(R, Nat)
  BY <1>3, Zenon
<1> HIDE DEF U, R
<1>5. PICK x \in U : \A y \in U : ~ (<<y, x>> \in R)
  BY <1>2, <1>4, WFMin, Zenon
<1>6. \A y \in U : ~ (y < x)
  BY <1>5, <1>2, Zenon DEF OpToRel, R
<1>7. x \in Nat /\ x \notin T
  BY <1>5 DEF U
<1>8. x - 1 \in Nat /\ x - 1 < x
  BY <1>7
<1>9. x - 1 \in T
  BY <1>6, <1>8 DEF U
<1> QED
  BY <1>9, <1>8, <1>7

-----------------------------------------------------------------------------
(***************************************************************************)
(* Iterate                                                                 *)
(***************************************************************************)

\* g is the loop's history up to round n.
IterUpTo(step, s, n, g) ==
  /\ g[0] = s
  /\ \A i \in 1 .. n : g[i] = step[g[i - 1]]

\* Every number of rounds has a history.
LEMMA IterExists ==
  ASSUME NEW step, NEW s
  PROVE  \A n \in Nat : \E g : IterUpTo(step, s, n, g)
<1> DEFINE T == {n \in Nat : \E g : IterUpTo(step, s, n, g)}
<1>1. 0 \in T
  <2> DEFINE g == [i \in 0 .. 0 |-> s]
  <2>1. IterUpTo(step, s, 0, g)
    BY DEF IterUpTo
  <2> QED BY <2>1
<1>2. ASSUME NEW n \in Nat, n \in T PROVE n + 1 \in T
  <2>1. PICK g : IterUpTo(step, s, n, g)
    BY <1>2
  <2> DEFINE h == [i \in 0 .. n + 1 |-> IF i = n + 1 THEN step[g[n]] ELSE g[i]]
  <2>2. h[0] = s
    BY <2>1 DEF IterUpTo
  <2>3. ASSUME NEW i \in 1 .. n + 1 PROVE h[i] = step[h[i - 1]]
    <3>1. i - 1 \in 0 .. n /\ i \in 0 .. n + 1 /\ i - 1 # n + 1
      OBVIOUS
    <3>2. h[i - 1] = g[i - 1]
      BY <3>1
    <3>3. CASE i = n + 1
      BY <3>1, <3>2, <3>3
    <3>4. CASE i # n + 1
      <4>1. i \in 1 .. n
        BY <3>4
      <4>2. g[i] = step[g[i - 1]]
        BY <4>1, <2>1 DEF IterUpTo
      <4>3. h[i] = g[i]
        BY <3>1, <3>4
      <4> QED BY <4>2, <4>3, <3>2
    <3> QED BY <3>3, <3>4
  <2>4. IterUpTo(step, s, n + 1, h)
    BY <2>2, <2>3 DEF IterUpTo
  <2> QED BY <2>4
<1>3. T = Nat
  <2> HIDE DEF T
  <2> QED BY <1>1, <1>2, NatSetInduction, Zenon DEF T
<1> QED BY <1>3

\* The history is unique: two of them agree wherever both are defined.
LEMMA IterUnique ==
  ASSUME NEW step, NEW s, NEW m \in Nat, NEW n \in Nat, NEW g, NEW h,
         IterUpTo(step, s, m, g), IterUpTo(step, s, n, h)
  PROVE  \A i \in Nat : i <= m /\ i <= n => g[i] = h[i]
<1> DEFINE T == {i \in Nat : i <= m /\ i <= n => g[i] = h[i]}
<1>1. 0 \in T
  BY DEF IterUpTo
<1>2. ASSUME NEW i \in Nat, i \in T PROVE i + 1 \in T
  <2>1. SUFFICES ASSUME i + 1 <= m, i + 1 <= n PROVE g[i + 1] = h[i + 1]
    OBVIOUS
  <2>2. i + 1 \in 1 .. m /\ i + 1 \in 1 .. n /\ (i + 1) - 1 = i
    BY <2>1
  <2>3. g[i] = h[i]
    BY <1>2, <2>1
  <2>4. g[i + 1] = step[g[(i + 1) - 1]] /\ h[i + 1] = step[h[(i + 1) - 1]]
    BY <2>2 DEF IterUpTo
  <2>5. g[i + 1] = step[g[i]] /\ h[i + 1] = step[h[i]]
    BY <2>2, <2>4
  <2> QED BY <2>3, <2>5
<1>3. T = Nat
  <2> HIDE DEF T
  <2> QED BY <1>1, <1>2, NatSetInduction, Zenon DEF T
<1> QED BY <1>3

\* The equations of the loop: no round, and one round more.
LEMMA IterateUnfold ==
  ASSUME NEW step, NEW s
  PROVE  /\ Iterate(step, s, 0) = s
         /\ \A n \in Nat : Iterate(step, s, n + 1) = step[Iterate(step, s, n)]
<1> DEFINE H(n) == CHOOSE g : IterUpTo(step, s, n, g)
           f == [i \in Nat |-> H(i)[i]]
           eq(F) == [i \in Nat |-> IF i = 0 THEN s ELSE step[F[i - 1]]]
           it == CHOOSE F : F = eq(F)
<1>1. \A n \in Nat : IterUpTo(step, s, n, H(n))
  BY IterExists
<1> HIDE DEF H
<1>2. ASSUME NEW i \in Nat PROVE f[i] = IF i = 0 THEN s ELSE step[f[i - 1]]
  <2>1. CASE i = 0
    BY <1>1, <2>1 DEF IterUpTo
  <2>2. CASE i # 0
    <3>1. i - 1 \in Nat /\ i \in 1 .. i
      BY <2>2
    <3>2. H(i)[i] = step[H(i)[i - 1]]
      BY <1>1, <3>1 DEF IterUpTo
    <3>3. H(i)[i - 1] = H(i - 1)[i - 1]
      <4>1. IterUpTo(step, s, i, H(i)) /\ IterUpTo(step, s, i - 1, H(i - 1))
        BY <1>1, <3>1
      <4> QED BY <4>1, <3>1, IterUnique
    <3> QED BY <3>1, <3>2, <3>3, <2>2
  <2> QED BY <2>1, <2>2
<1>3. f = eq(f)
  BY <1>2
<1> HIDE DEF f
<1>4. it = eq(it)
  BY <1>3, Zenon
<1> HIDE DEF it
<1>5. \A i \in Nat : it[i] = IF i = 0 THEN s ELSE step[it[i - 1]]
  BY <1>4
<1>6. \A n : Iterate(step, s, n) = it[n]
  BY DEF Iterate, it
<1>7. ASSUME NEW n \in Nat PROVE it[n + 1] = step[it[n]]
  <2>1. n + 1 \in Nat /\ n + 1 # 0 /\ (n + 1) - 1 = n
    OBVIOUS
  <2> QED BY <2>1, <1>5
<1> QED BY <1>5, <1>6, <1>7

\* A set that the step stays in is never left: with P the set of values of
\* interest, the step need only be known on P.
THEOREM IterateInvariant ==
  ASSUME NEW step, NEW s, NEW P, s \in P, \A x \in P : step[x] \in P,
         NEW n \in Nat
  PROVE  Iterate(step, s, n) \in P
<1> DEFINE T == {k \in Nat : Iterate(step, s, k) \in P}
<1>1. 0 \in T
  BY IterateUnfold
<1>2. \A k \in Nat : k \in T => k + 1 \in T
  BY IterateUnfold
<1>3. T = Nat
  <2> HIDE DEF T
  <2> QED BY <1>1, <1>2, NatSetInduction, Zenon DEF T
<1> QED BY <1>3

-----------------------------------------------------------------------------
(***************************************************************************)
(* SumTo                                                                   *)
(***************************************************************************)

\* g holds the partial sums up to n.
SumUpTo(f, n, g) == g[0] = 0 /\ \A i \in 1 .. n : g[i] = g[i - 1] + f[i]

\* Every n has partial sums.
LEMMA SumExists ==
  ASSUME NEW f
  PROVE  \A n \in Nat : \E g : SumUpTo(f, n, g)
<1> DEFINE T == {n \in Nat : \E g : SumUpTo(f, n, g)}
<1>1. 0 \in T
  <2> DEFINE g == [i \in 0 .. 0 |-> 0]
  <2>1. SumUpTo(f, 0, g)
    BY DEF SumUpTo
  <2> QED BY <2>1
<1>2. ASSUME NEW n \in Nat, n \in T PROVE n + 1 \in T
  <2>1. PICK g : SumUpTo(f, n, g)
    BY <1>2
  <2> DEFINE h == [i \in 0 .. n + 1 |-> IF i = n + 1 THEN g[n] + f[n + 1] ELSE g[i]]
  <2>2. h[0] = 0
    BY <2>1 DEF SumUpTo
  <2>3. ASSUME NEW i \in 1 .. n + 1 PROVE h[i] = h[i - 1] + f[i]
    <3>1. i - 1 \in 0 .. n /\ i \in 0 .. n + 1 /\ i - 1 # n + 1
      OBVIOUS
    <3>2. h[i - 1] = g[i - 1]
      BY <3>1
    <3>3. CASE i = n + 1
      <4>1. i - 1 = n
        BY <3>3
      <4> QED BY <3>1, <3>2, <3>3, <4>1
    <3>4. CASE i # n + 1
      <4>1. i \in 1 .. n
        BY <3>4
      <4>2. g[i] = g[i - 1] + f[i]
        BY <4>1, <2>1 DEF SumUpTo
      <4>3. h[i] = g[i]
        BY <3>1, <3>4
      <4> QED BY <4>2, <4>3, <3>2
    <3> QED BY <3>3, <3>4
  <2>4. SumUpTo(f, n + 1, h)
    BY <2>2, <2>3, Zenon DEF SumUpTo
  <2> QED BY <2>4
<1>3. T = Nat
  <2> HIDE DEF T
  <2> QED BY <1>1, <1>2, NatSetInduction, Zenon DEF T
<1> QED BY <1>3

\* The partial sums are unique.
LEMMA SumUnique ==
  ASSUME NEW f, NEW m \in Nat, NEW n \in Nat, NEW g, NEW h,
         SumUpTo(f, m, g), SumUpTo(f, n, h)
  PROVE  \A i \in Nat : i <= m /\ i <= n => g[i] = h[i]
<1> DEFINE T == {i \in Nat : i <= m /\ i <= n => g[i] = h[i]}
<1>1. 0 \in T
  BY DEF SumUpTo
<1>2. ASSUME NEW i \in Nat, i \in T PROVE i + 1 \in T
  <2>1. SUFFICES ASSUME i + 1 <= m, i + 1 <= n PROVE g[i + 1] = h[i + 1]
    OBVIOUS
  <2>2. i + 1 \in 1 .. m /\ i + 1 \in 1 .. n /\ (i + 1) - 1 = i
    BY <2>1
  <2>3. g[i] = h[i]
    BY <1>2, <2>1
  <2>4. /\ g[i + 1] = g[(i + 1) - 1] + f[i + 1]
        /\ h[i + 1] = h[(i + 1) - 1] + f[i + 1]
    BY <2>2 DEF SumUpTo
  <2> QED BY <2>2, <2>3, <2>4
<1>3. T = Nat
  <2> HIDE DEF T
  <2> QED BY <1>1, <1>2, NatSetInduction, Zenon DEF T
<1> QED BY <1>3

\* The equations of the sum.
LEMMA SumUnfold ==
  ASSUME NEW f
  PROVE  /\ SumTo(f, 0) = 0
         /\ \A n \in Nat : SumTo(f, n + 1) = SumTo(f, n) + f[n + 1]
<1> DEFINE H(n) == CHOOSE g : SumUpTo(f, n, g)
           p == [i \in Nat |-> H(i)[i]]
           eq(F) == [i \in Nat |-> IF i = 0 THEN 0 ELSE F[i - 1] + f[i]]
           sum == CHOOSE F : F = eq(F)
<1>1. \A n \in Nat : SumUpTo(f, n, H(n))
  BY SumExists
<1> HIDE DEF H
<1>2. ASSUME NEW i \in Nat PROVE p[i] = IF i = 0 THEN 0 ELSE p[i - 1] + f[i]
  <2>1. CASE i = 0
    BY <1>1, <2>1 DEF SumUpTo
  <2>2. CASE i # 0
    <3>1. i - 1 \in Nat /\ i \in 1 .. i
      BY <2>2
    <3>2. H(i)[i] = H(i)[i - 1] + f[i]
      BY <1>1, <3>1 DEF SumUpTo
    <3>3. H(i)[i - 1] = H(i - 1)[i - 1]
      <4>1. SumUpTo(f, i, H(i)) /\ SumUpTo(f, i - 1, H(i - 1))
        BY <1>1, <3>1
      <4> QED BY <4>1, <3>1, SumUnique
    <3> QED BY <3>1, <3>2, <3>3, <2>2
  <2> QED BY <2>1, <2>2
<1>3. p = eq(p)
  BY <1>2
<1> HIDE DEF p
<1>4. sum = eq(sum)
  BY <1>3
<1> HIDE DEF sum
<1>5. \A i \in Nat : sum[i] = IF i = 0 THEN 0 ELSE sum[i - 1] + f[i]
  BY <1>4
<1>6. \A n : SumTo(f, n) = sum[n]
  BY DEF SumTo, sum
<1>7. ASSUME NEW n \in Nat PROVE sum[n + 1] = sum[n] + f[n + 1]
  <2>1. n + 1 \in Nat /\ n + 1 # 0 /\ (n + 1) - 1 = n
    OBVIOUS
  <2> QED BY <2>1, <1>5
<1> QED BY <1>5, <1>6, <1>7

\* A sum of naturals is a natural.
THEOREM SumToNat ==
  ASSUME NEW f, NEW n \in Nat, \A i \in 1 .. n : f[i] \in Nat
  PROVE  SumTo(f, n) \in Nat
<1> DEFINE T == {k \in Nat : k <= n => SumTo(f, k) \in Nat}
<1>1. 0 \in T
  BY SumUnfold
<1>2. ASSUME NEW k \in Nat, k \in T PROVE k + 1 \in T
  <2>1. SUFFICES ASSUME k + 1 <= n PROVE SumTo(f, k + 1) \in Nat
    OBVIOUS
  <2>2. k + 1 \in 1 .. n /\ SumTo(f, k) \in Nat
    BY <2>1, <1>2
  <2>3. SumTo(f, k + 1) = SumTo(f, k) + f[k + 1]
    BY SumUnfold
  <2> QED BY <2>2, <2>3
<1>3. T = Nat
  <2> HIDE DEF T
  <2> QED BY <1>1, <1>2, NatSetInduction, Zenon DEF T
<1> QED BY <1>3

-----------------------------------------------------------------------------
(***************************************************************************)
(* SumFunctionOnSet                                                        *)
(***************************************************************************)

\* The member that the fold takes out of a set first.
Pick(s) == CHOOSE x \in s : TRUE

\* g sums up f over the subsets of S that have at most n members.
SetSums(f, S, n, g) ==
  \A s \in SUBSET S : Cardinality(s) <= n =>
    g[s] = IF s = {} THEN 0 ELSE f[Pick(s)] + g[s \ {Pick(s)}]

LEMMA PickFacts ==
  ASSUME NEW s, IsFiniteSet(s), s # {}
  PROVE  /\ Pick(s) \in s /\ IsFiniteSet(s \ {Pick(s)})
         /\ Cardinality(s) \in Nat \ {0}
         /\ Cardinality(s \ {Pick(s)}) = Cardinality(s) - 1
<1>1. Pick(s) \in s
  BY DEF Pick
<1> QED
  BY <1>1, FS_RemoveElement, FS_CardinalityType, FS_EmptySet

LEMMA SetSumsExist ==
  ASSUME NEW f, NEW S, IsFiniteSet(S)
  PROVE  \A n \in Nat : \E g : SetSums(f, S, n, g)
<1> DEFINE T == {n \in Nat : \E g : SetSums(f, S, n, g)}
<1>1. \A s \in SUBSET S : IsFiniteSet(s) /\ Cardinality(s) \in Nat
  BY FS_Subset, FS_CardinalityType
<1>2. 0 \in T
  <2> DEFINE g == [s \in SUBSET S |-> 0]
  <2>1. \A s \in SUBSET S : Cardinality(s) <= 0 => s = {}
    BY <1>1, FS_EmptySet
  <2>2. SetSums(f, S, 0, g)
    BY <2>1 DEF SetSums
  <2> QED
    BY <2>2
<1>3. ASSUME NEW n \in Nat, n \in T PROVE n + 1 \in T
  <2>1. PICK g : SetSums(f, S, n, g)
    BY <1>3
  <2> DEFINE h == [s \in SUBSET S |-> IF Cardinality(s) = n + 1
                                      THEN f[Pick(s)] + g[s \ {Pick(s)}] ELSE g[s]]
  <2>2. ASSUME NEW s \in SUBSET S, Cardinality(s) <= n + 1
        PROVE  h[s] = IF s = {} THEN 0 ELSE f[Pick(s)] + h[s \ {Pick(s)}]
    <3>1. CASE s = {}
      <4>1. Cardinality(s) = 0 /\ h[s] = g[s] /\ g[s] = 0
        BY <3>1, <2>1, FS_EmptySet DEF SetSums
      <4> QED
        BY <3>1, <4>1
    <3>2. CASE s # {}
      <4> DEFINE r == s \ {Pick(s)}
      <4>1. /\ r \in SUBSET S /\ Cardinality(r) = Cardinality(s) - 1
            /\ Cardinality(s) \in Nat
        BY <3>2, <1>1, PickFacts
      <4> HIDE DEF r
      <4>2. h[r] = g[r]
        BY <4>1, <2>2
      <4>3. CASE Cardinality(s) = n + 1
        BY <4>2, <4>3, <3>2 DEF r
      <4>4. CASE Cardinality(s) # n + 1
        <5>1. Cardinality(s) <= n
          BY <4>1, <4>4, <2>2
        <5>2. g[s] = f[Pick(s)] + g[r]
          BY <5>1, <2>1, <3>2 DEF SetSums, r
        <5> QED
          BY <5>2, <4>2, <4>4, <3>2 DEF r
      <4> QED
        BY <4>3, <4>4
    <3> QED
      BY <3>1, <3>2
  <2>3. SetSums(f, S, n + 1, h)
    <3> HIDE DEF h
    <3> QED
      BY <2>2 DEF SetSums
  <2> QED
    BY <2>3
<1>4. T = Nat
  <2> HIDE DEF T
  <2> QED
    BY <1>2, <1>3, NatSetInduction, Zenon DEF T
<1> QED
  BY <1>4

\* it is the history of the sum of f over S.
SumsUp(f, S, it) ==
  \A s \in SUBSET S : it[s] = IF s = {} THEN 0 ELSE f[Pick(s)] + it[s \ {Pick(s)}]

LEMMA SetSumHistory ==
  ASSUME NEW f, NEW S, IsFiniteSet(S)
  PROVE  \E it : SumsUp(f, S, it) /\ SumFunctionOnSet(f, S) = it[S]
<1> DEFINE eq(F) == [s \in SUBSET S |-> IF s = {} THEN 0 ELSE f[Pick(s)] + F[s \ {Pick(s)}]]
           it == CHOOSE F : F = eq(F)
<1>1. \A s \in SUBSET S : Cardinality(s) <= Cardinality(S)
  BY FS_Subset
<1>2. Cardinality(S) \in Nat
  BY FS_CardinalityType
<1>3. PICK g : SetSums(f, S, Cardinality(S), g)
  BY <1>2, SetSumsExist
<1> DEFINE G == [s \in SUBSET S |-> g[s]]
<1>4. ASSUME NEW s \in SUBSET S
      PROVE  G[s] = IF s = {} THEN 0 ELSE f[Pick(s)] + G[s \ {Pick(s)}]
  BY <1>1, <1>3, Zenon DEF SetSums
<1>5. G = eq(G)
  BY <1>4, Zenon
<1> HIDE DEF G
<1>6. it = eq(it)
  BY <1>5, Zenon
<1>7. SumFunctionOnSet(f, S) = it[S]
  BY DEF SumFunctionOnSet, FoldFunctionOnSet, MapThenFoldSet, Pick
<1> HIDE DEF it
<1>8. SumsUp(f, S, it)
  BY <1>6, Zenon DEF SumsUp
<1> QED
  BY <1>7, <1>8

\* Two histories agree on a set where the two functions do.
LEMMA SumsAgree ==
  ASSUME NEW f, NEW S, IsFiniteSet(S), NEW it, SumsUp(f, S, it),
         NEW g, NEW T, NEW jt, SumsUp(g, T, jt),
         NEW u \in SUBSET S, u \subseteq T, \A x \in u : f[x] = g[x]
  PROVE  it[u] = jt[u]
<1> DEFINE A == {n \in Nat : \A s \in SUBSET u : Cardinality(s) = n => it[s] = jt[s]}
<1>1. \A s \in SUBSET u : IsFiniteSet(s) /\ Cardinality(s) \in Nat
  BY FS_Subset, FS_CardinalityType
<1>2. 0 \in A
  <2>1. \A s \in SUBSET u : Cardinality(s) = 0 => s = {}
    BY <1>1, FS_EmptySet
  <2>2. it[{}] = 0 /\ jt[{}] = 0
    BY Zenon DEF SumsUp
  <2> QED
    BY <2>1, <2>2
<1>3. ASSUME NEW n \in Nat, n \in A PROVE n + 1 \in A
  <2> SUFFICES ASSUME NEW s \in SUBSET u, Cardinality(s) = n + 1 PROVE it[s] = jt[s]
    OBVIOUS
  <2> DEFINE r == s \ {Pick(s)}
  <2>1. s # {}
    BY <1>1, FS_EmptySet
  <2>2. Pick(s) \in s /\ Cardinality(r) = n /\ r \in SUBSET u
    BY <2>1, <1>1, PickFacts
  <2>3. it[r] = jt[r] /\ f[Pick(s)] = g[Pick(s)]
    BY <2>2, <1>3
  <2>4. s \in SUBSET S /\ s \in SUBSET T
    OBVIOUS
  <2>5. it[s] = f[Pick(s)] + it[r] /\ jt[s] = g[Pick(s)] + jt[r]
    BY <2>1, <2>4, Zenon DEF SumsUp
  <2> QED
    BY <2>3, <2>5
<1>4. A = Nat
  <2> HIDE DEF A
  <2> QED
    BY <1>2, <1>3, NatSetInduction, Zenon DEF A
<1> QED
  BY <1>1, <1>4

\* The order in which the fold takes the members does not matter.
LEMMA SumsAnyFirst ==
  ASSUME NEW f, NEW S, IsFiniteSet(S), \A x \in S : f[x] \in Int, NEW it, SumsUp(f, S, it)
  PROVE  \A s \in SUBSET S : it[s] \in Int /\ \A x \in s : it[s] = f[x] + it[s \ {x}]
<1> DEFINE good(s) == it[s] \in Int /\ \A x \in s : it[s] = f[x] + it[s \ {x}]
           A == {n \in Nat : \A s \in SUBSET S : Cardinality(s) <= n => good(s)}
<1>1. \A s \in SUBSET S : IsFiniteSet(s) /\ Cardinality(s) \in Nat
  BY FS_Subset, FS_CardinalityType
<1>2. 0 \in A
  <2>1. \A s \in SUBSET S : Cardinality(s) <= 0 => s = {}
    BY <1>1, FS_EmptySet
  <2>2. good({})
    <3>1. it[{}] = 0
      BY Zenon DEF SumsUp
    <3> QED
      BY <3>1
  <2> QED
    BY <2>1, <2>2
<1>3. ASSUME NEW n \in Nat, n \in A PROVE n + 1 \in A
  <2> SUFFICES ASSUME NEW s \in SUBSET S, Cardinality(s) = n + 1 PROVE good(s)
    <3>1. \A s \in SUBSET S : Cardinality(s) <= n + 1 => Cardinality(s) <= n \/ Cardinality(s) = n + 1
      BY <1>1
    <3> HIDE DEF good
    <3> QED
      BY <3>1, <1>3
  <2> DEFINE y == Pick(s)
  <2>1. y \in s
    <3>1. s # {}
      BY <1>1, FS_EmptySet
    <3> QED
      BY <3>1, <1>1, PickFacts
  <2>2. ASSUME NEW x \in s PROVE s \ {x} \in SUBSET S /\ Cardinality(s \ {x}) = n
    <3>1. IsFiniteSet(s)
      BY <1>1
    <3>2. Cardinality(s \ {x}) = Cardinality(s) - 1
      BY <3>1, FS_RemoveElement, Zenon
    <3> QED
      BY <3>2
  <2>3. \A x \in s : good(s \ {x})
    BY <2>2, <1>3
  <2>4. it[s] = f[y] + it[s \ {y}]
    BY <2>1, Zenon DEF SumsUp
  <2> HIDE DEF y
  <2>5. it[s] \in Int
    <3>1. it[s \ {y}] \in Int /\ f[y] \in Int
      BY <2>1, <2>3, Zenon
    <3> QED
      BY <3>1, <2>4
  <2>6. ASSUME NEW x \in s PROVE it[s] = f[x] + it[s \ {x}]
    <3>1. CASE x = y
      BY <3>1, <2>4
    <3>2. CASE x # y
      <4> DEFINE r == (s \ {x}) \ {y}
      <4>1. (s \ {y}) \ {x} = r /\ x \in s \ {y} /\ y \in s \ {x}
        BY <3>2, <2>1
      <4>2. it[s \ {y}] = f[x] + it[r] /\ it[s \ {x}] = f[y] + it[r]
        BY <4>1, <2>1, <2>3
      <4>3. r \in SUBSET S /\ Cardinality(r) \in Nat /\ f[x] \in Int /\ f[y] \in Int
        BY <1>1, <2>1
      <4>4. it[r] \in Int
        <5>1. Cardinality(r) = n - 1
          <6>1. IsFiniteSet(s \ {x}) /\ Cardinality(s \ {x}) = n
            BY <1>1, <2>2
          <6> QED
            BY <6>1, <4>1, FS_RemoveElement, Zenon
        <5>2. Cardinality(r) <= n
          BY <5>1
        <5>3. good(r)
          BY <5>2, <4>3, <1>3, Zenon
        <5> QED
          BY <5>3
      <4> HIDE DEF r
      <4> QED
        BY <4>2, <4>3, <4>4, <2>4
    <3> QED
      BY <3>1, <3>2
  <2> QED
    BY <2>5, <2>6, Zenon
<1>4. A = Nat
  <2> HIDE DEF A
  <2> QED
    BY <1>2, <1>3, NatSetInduction, Zenon DEF A
<1> QED
  BY <1>1, <1>4

\* The equations of the sum over a finite set: it is zero over the empty set, and any
\* member can be taken out.
THEOREM SetSumUnfold ==
  ASSUME NEW f, NEW S, IsFiniteSet(S), \A x \in S : f[x] \in Int
  PROVE  /\ SumFunctionOnSet(f, S) \in Int
         /\ S = {} => SumFunctionOnSet(f, S) = 0
         /\ \A x \in S : SumFunctionOnSet(f, S) = f[x] + SumFunctionOnSet(f, S \ {x})
<1>1. PICK it : SumsUp(f, S, it) /\ SumFunctionOnSet(f, S) = it[S]
  BY SetSumHistory
<1>2. it[S] \in Int /\ (S = {} => it[S] = 0) /\ \A x \in S : it[S] = f[x] + it[S \ {x}]
  <2>1. S \in SUBSET S
    OBVIOUS
  <2>2. S = {} => it[S] = 0
    BY <2>1, <1>1 DEF SumsUp
  <2>3. \A s \in SUBSET S : it[s] \in Int /\ \A x \in s : it[s] = f[x] + it[s \ {x}]
    BY <1>1, SumsAnyFirst, SMTT(30)
  <2> QED
    BY <2>1, <2>2, <2>3, Zenon
<1>3. ASSUME NEW x \in S PROVE SumFunctionOnSet(f, S \ {x}) = it[S \ {x}]
  <2> DEFINE R == S \ {x}
  <2>1. IsFiniteSet(R) /\ R \in SUBSET S
    BY FS_RemoveElement
  <2> HIDE DEF R
  <2>2. PICK jt : SumsUp(f, R, jt) /\ SumFunctionOnSet(f, R) = jt[R]
    BY <2>1, SetSumHistory
  <2>3. jt[R] = it[R]
    BY <2>1, <2>2, <1>1, SumsAgree
  <2> QED
    BY <2>2, <2>3 DEF R
<1> QED
  BY <1>1, <1>2, <1>3

\* The sum depends on the values of f on S only.
LEMMA SetSumSame ==
  ASSUME NEW f, NEW g, NEW S, IsFiniteSet(S), \A x \in S : f[x] = g[x]
  PROVE  SumFunctionOnSet(f, S) = SumFunctionOnSet(g, S)
<1>1. PICK it : SumsUp(f, S, it) /\ SumFunctionOnSet(f, S) = it[S]
  BY SetSumHistory
<1>2. PICK jt : SumsUp(g, S, jt) /\ SumFunctionOnSet(g, S) = jt[S]
  BY SetSumHistory
<1>3. S \in SUBSET S /\ S \subseteq S
  OBVIOUS
<1>4. it[S] = jt[S]
  BY <1>1, <1>2, <1>3, SumsAgree
<1> QED
  BY <1>1, <1>2, <1>4

\* One more member.
LEMMA SetSumAdd ==
  ASSUME NEW f, NEW S, IsFiniteSet(S), \A x \in S : f[x] \in Int, NEW y, y \notin S, f[y] \in Int
  PROVE  /\ SumFunctionOnSet(f, S \cup {y}) = SumFunctionOnSet(f, S) + f[y]
         /\ SumFunctionOnSet(f, S) \in Int
<1> DEFINE R == S \cup {y}
<1>1. IsFiniteSet(R) /\ y \in R /\ R \ {y} = S /\ \A x \in R : f[x] \in Int
  BY FS_AddElement
<1> HIDE DEF R
<1>2. SumFunctionOnSet(f, R) = f[y] + SumFunctionOnSet(f, S)
  BY <1>1, SetSumUnfold, Zenon
<1>3. SumFunctionOnSet(f, S) \in Int
  BY SetSumUnfold
<1> QED
  BY <1>2, <1>3 DEF R

\* A sum over two sets without a common member, and what naturals add up to.
LEMMA SetSumUnion ==
  ASSUME NEW f, NEW S, IsFiniteSet(S), \A x \in S : f[x] \in Nat, NEW V, V \subseteq S
  PROVE  /\ SumFunctionOnSet(f, V) \in Nat /\ SumFunctionOnSet(f, S \ V) \in Nat
         /\ SumFunctionOnSet(f, S) = SumFunctionOnSet(f, V) + SumFunctionOnSet(f, S \ V)
         /\ SumFunctionOnSet(f, S) \in Nat
<1> DEFINE A == {n \in Nat : \A s \in SUBSET S : Cardinality(s) = n =>
                   /\ SumFunctionOnSet(f, s) \in Nat
                   /\ SumFunctionOnSet(f, s) =
                        SumFunctionOnSet(f, s \cap V) + SumFunctionOnSet(f, s \ V)}
<1>1. \A s \in SUBSET S : IsFiniteSet(s) /\ Cardinality(s) \in Nat /\ \A x \in s : f[x] \in Int
  BY FS_Subset, FS_CardinalityType
<1>2. 0 \in A
  <2>1. \A s \in SUBSET S : Cardinality(s) = 0 => s = {} /\ s \cap V = {} /\ s \ V = {}
    BY <1>1, FS_EmptySet
  <2>2. SumFunctionOnSet(f, {}) = 0
    BY SetSumUnfold, FS_EmptySet
  <2>3. 0 \in Nat /\ 0 = 0 + 0
    OBVIOUS
  <2> QED
    BY <2>1, <2>2, <2>3, Zenon
<1>3. ASSUME NEW n \in Nat, n \in A PROVE n + 1 \in A
  <2> SUFFICES ASSUME NEW s \in SUBSET S, Cardinality(s) = n + 1
               PROVE  /\ SumFunctionOnSet(f, s) \in Nat
                      /\ SumFunctionOnSet(f, s) =
                           SumFunctionOnSet(f, s \cap V) + SumFunctionOnSet(f, s \ V)
    OBVIOUS
  <2>1. s # {}
    BY <1>1, FS_EmptySet
  <2>2. PICK y \in s : TRUE
    BY <2>1
  <2> DEFINE r == s \ {y}
  <2>3. r \in SUBSET S /\ Cardinality(r) = n
    <3>1. IsFiniteSet(s)
      BY <1>1
    <3>2. Cardinality(r) = Cardinality(s) - 1
      BY <3>1, <2>2, FS_RemoveElement, Zenon
    <3> QED
      BY <3>2
  <2>4. SumFunctionOnSet(f, s) = f[y] + SumFunctionOnSet(f, r) /\ f[y] \in Nat
    BY <1>1, SetSumUnfold
  <2>5. /\ SumFunctionOnSet(f, r) \in Nat
        /\ SumFunctionOnSet(f, r) = SumFunctionOnSet(f, r \cap V) + SumFunctionOnSet(f, r \ V)
    BY <2>3, <1>3
  <2>6. /\ IsFiniteSet(r \cap V) /\ IsFiniteSet(r \ V) /\ f[y] \in Int
        /\ \A x \in r \cap V : f[x] \in Int
        /\ \A x \in r \ V : f[x] \in Int
        /\ y \notin r \cap V /\ y \notin r \ V
    BY <1>1, <2>3, <2>4, FS_Subset
  <2>7. CASE y \in V
    <3>1. s \cap V = (r \cap V) \cup {y} /\ s \ V = r \ V
      BY <2>7
    <3>2. /\ SumFunctionOnSet(f, s \cap V) = SumFunctionOnSet(f, r \cap V) + f[y]
          /\ SumFunctionOnSet(f, r \cap V) \in Int /\ SumFunctionOnSet(f, r \ V) \in Int
      BY <3>1, <2>6, SetSumAdd, SetSumUnfold
    <3> QED
      BY <3>1, <3>2, <2>4, <2>5
  <2>8. CASE y \notin V
    <3>1. s \ V = (r \ V) \cup {y} /\ s \cap V = r \cap V
      BY <2>8
    <3>2. /\ SumFunctionOnSet(f, s \ V) = SumFunctionOnSet(f, r \ V) + f[y]
          /\ SumFunctionOnSet(f, r \cap V) \in Int /\ SumFunctionOnSet(f, r \ V) \in Int
      BY <3>1, <2>6, SetSumAdd, SetSumUnfold
    <3>3. SumFunctionOnSet(f, s \cap V) = SumFunctionOnSet(f, r \cap V)
      BY <3>1
    <3> HIDE DEF r
    <3> QED
      BY <3>2, <3>3, <2>4, <2>5
  <2> QED
    BY <2>7, <2>8
<1>4. A = Nat
  <2> HIDE DEF A
  <2> QED
    BY <1>2, <1>3, NatSetInduction, Zenon DEF A
<1>5. \A s \in SUBSET S : SumFunctionOnSet(f, s) \in Nat /\
        SumFunctionOnSet(f, s) = SumFunctionOnSet(f, s \cap V) + SumFunctionOnSet(f, s \ V)
  <2>1. \A s \in SUBSET S : Cardinality(s) \in A
    <3> HIDE DEF A
    <3> QED
      BY <1>1, <1>4
  <2> QED
    BY <2>1, Zenon
<1>6. S \in SUBSET S /\ V \in SUBSET S /\ S \ V \in SUBSET S /\ S \cap V = V
  OBVIOUS
<1> QED
  BY <1>5, <1>6, Zenon

-----------------------------------------------------------------------------
(***************************************************************************)
(* Sums of functions that are related point by point                       *)
(***************************************************************************)

\* Induction on finite sets: a collection of subsets of S with the empty one, and with
\* each subset that has one member more than one of it, has S.
LEMMA SubsetInduction ==
  ASSUME NEW S, IsFiniteSet(S), NEW T, {} \in T,
         \A s \in SUBSET S : \A x \in S \ s : s \in T => s \cup {x} \in T
  PROVE  S \in T
<1> DEFINE A == {n \in Nat : \A s \in SUBSET S : Cardinality(s) = n => s \in T}
<1>1. \A s \in SUBSET S : IsFiniteSet(s) /\ Cardinality(s) \in Nat
  BY FS_Subset, FS_CardinalityType
<1>2. 0 \in A
  <2>1. \A s \in SUBSET S : Cardinality(s) = 0 => s = {}
    BY <1>1, FS_EmptySet
  <2> QED
    BY <2>1, Zenon
<1>3. ASSUME NEW n \in Nat, n \in A PROVE n + 1 \in A
  <2> SUFFICES ASSUME NEW s \in SUBSET S, Cardinality(s) = n + 1 PROVE s \in T
    OBVIOUS
  <2>1. s # {}
    BY <1>1, FS_EmptySet
  <2>2. PICK y \in s : TRUE
    BY <2>1
  <2> DEFINE r == s \ {y}
  <2>3. Cardinality(r) = Cardinality(s) - 1
    BY <1>1, FS_RemoveElement, Zenon
  <2>4. r \in SUBSET S /\ y \in S \ r /\ r \cup {y} = s /\ Cardinality(r) = n
    BY <2>3
  <2>5. r \in T
    BY <2>4, <1>3
  <2> QED
    BY <2>4, <2>5
<1>4. A = Nat
  <2> HIDE DEF A
  <2> QED
    BY <1>2, <1>3, NatSetInduction, Zenon DEF A
<1>5. Cardinality(S) \in A
  <2> HIDE DEF A
  <2> QED
    BY <1>1, <1>4
<1> QED
  BY <1>5

\* A change at one point.
LEMMA SetSumChange ==
  ASSUME NEW f, NEW g, NEW S, IsFiniteSet(S), \A x \in S : f[x] \in Int /\ g[x] \in Int,
         NEW y \in S, \A x \in S \ {y} : g[x] = f[x]
  PROVE  /\ SumFunctionOnSet(f, S) \in Int /\ SumFunctionOnSet(g, S) \in Int
         /\ SumFunctionOnSet(g, S) = (SumFunctionOnSet(f, S) + g[y]) - f[y]
<1>1. IsFiniteSet(S \ {y}) /\ \A x \in S \ {y} : f[x] \in Int
  BY FS_RemoveElement
<1>2. /\ SumFunctionOnSet(f, S) \in Int
      /\ SumFunctionOnSet(f, S) = f[y] + SumFunctionOnSet(f, S \ {y})
  BY SetSumUnfold
<1>3. /\ SumFunctionOnSet(g, S) \in Int
      /\ SumFunctionOnSet(g, S) = g[y] + SumFunctionOnSet(g, S \ {y})
  BY SetSumUnfold
<1>4. SumFunctionOnSet(g, S \ {y}) = SumFunctionOnSet(f, S \ {y})
  BY <1>1, SetSumSame
<1>5. SumFunctionOnSet(f, S \ {y}) \in Int /\ f[y] \in Int /\ g[y] \in Int
  BY <1>1, SetSumUnfold
<1> QED
  BY <1>2, <1>3, <1>4, <1>5

\* The sum of two functions, and a sum that is nowhere smaller.
LEMMA SetSumPlus ==
  ASSUME NEW f, NEW g, NEW h, NEW S, IsFiniteSet(S),
         \A x \in S : f[x] \in Int /\ g[x] \in Int /\ h[x] \in Int /\ h[x] = f[x] + g[x]
  PROVE  /\ SumFunctionOnSet(f, S) \in Int /\ SumFunctionOnSet(g, S) \in Int
         /\ SumFunctionOnSet(h, S) = SumFunctionOnSet(f, S) + SumFunctionOnSet(g, S)
<1> DEFINE T == {s \in SUBSET S :
                   SumFunctionOnSet(h, s) = SumFunctionOnSet(f, s) + SumFunctionOnSet(g, s)}
<1>1. {} \in T
  <2>1. /\ SumFunctionOnSet(f, {}) = 0 /\ SumFunctionOnSet(g, {}) = 0
        /\ SumFunctionOnSet(h, {}) = 0
    BY SetSumUnfold, FS_EmptySet
  <2> QED
    BY <2>1
<1>2. ASSUME NEW s \in SUBSET S, NEW y \in S \ s, s \in T PROVE s \cup {y} \in T
  <2>1. /\ IsFiniteSet(s) /\ y \notin s /\ f[y] \in Int /\ g[y] \in Int /\ h[y] \in Int
        /\ h[y] = f[y] + g[y]
        /\ \A x \in s : f[x] \in Int /\ g[x] \in Int /\ h[x] \in Int
    BY FS_Subset
  <2>2. /\ SumFunctionOnSet(f, s \cup {y}) = SumFunctionOnSet(f, s) + f[y]
        /\ SumFunctionOnSet(f, s) \in Int
    BY <2>1, SetSumAdd, Zenon
  <2>3. /\ SumFunctionOnSet(g, s \cup {y}) = SumFunctionOnSet(g, s) + g[y]
        /\ SumFunctionOnSet(g, s) \in Int
    BY <2>1, SetSumAdd, Zenon
  <2>4. /\ SumFunctionOnSet(h, s \cup {y}) = SumFunctionOnSet(h, s) + h[y]
        /\ SumFunctionOnSet(h, s) \in Int
    BY <2>1, SetSumAdd, Zenon
  <2>5. SumFunctionOnSet(h, s) = SumFunctionOnSet(f, s) + SumFunctionOnSet(g, s)
    BY <1>2
  <2>6. SumFunctionOnSet(h, s \cup {y}) =
          SumFunctionOnSet(f, s \cup {y}) + SumFunctionOnSet(g, s \cup {y})
    BY <2>1, <2>2, <2>3, <2>4, <2>5
  <2> QED
    BY <2>6
<1>3. S \in T
  <2> HIDE DEF T
  <2> QED
    BY <1>1, <1>2, SubsetInduction, Zenon
<1>4. SumFunctionOnSet(f, S) \in Int /\ SumFunctionOnSet(g, S) \in Int
  BY SetSumUnfold
<1> QED
  BY <1>3, <1>4

\* A sum is monotone.
LEMMA SetSumMono ==
  ASSUME NEW f, NEW g, NEW S, IsFiniteSet(S),
         \A x \in S : f[x] \in Int /\ g[x] \in Int /\ f[x] <= g[x]
  PROVE  /\ SumFunctionOnSet(f, S) \in Int /\ SumFunctionOnSet(g, S) \in Int
         /\ SumFunctionOnSet(f, S) <= SumFunctionOnSet(g, S)
<1> DEFINE d == [x \in S |-> g[x] - f[x]]
<1>1. \A x \in S : d[x] \in Nat /\ g[x] = f[x] + d[x]
  OBVIOUS
<1> HIDE DEF d
<1>2. \A x \in S : f[x] \in Int /\ d[x] \in Int /\ g[x] \in Int /\ g[x] = f[x] + d[x]
  BY <1>1
<1>3. /\ SumFunctionOnSet(f, S) \in Int
      /\ SumFunctionOnSet(g, S) = SumFunctionOnSet(f, S) + SumFunctionOnSet(d, S)
  <2>1. SumFunctionOnSet(g, S) = SumFunctionOnSet(f, S) + SumFunctionOnSet(d, S)
    BY <1>2, SetSumPlus
  <2>2. SumFunctionOnSet(f, S) \in Int
    BY SetSumUnfold
  <2> QED
    BY <2>1, <2>2
<1>4. SumFunctionOnSet(d, S) \in Nat
  BY <1>1, SetSumUnion, Zenon
<1> QED
  BY <1>3, <1>4

\* A common factor.
LEMMA SetSumTimes ==
  ASSUME NEW f, NEW g, NEW k \in Int, NEW S, IsFiniteSet(S),
         \A x \in S : f[x] \in Int /\ g[x] = k * f[x]
  PROVE  SumFunctionOnSet(f, S) \in Int /\ SumFunctionOnSet(g, S) = k * SumFunctionOnSet(f, S)
<1> DEFINE T == {s \in SUBSET S : SumFunctionOnSet(g, s) = k * SumFunctionOnSet(f, s)}
<1>1. {} \in T
  <2>1. SumFunctionOnSet(f, {}) = 0 /\ SumFunctionOnSet(g, {}) = 0
    BY SetSumUnfold, FS_EmptySet
  <2>2. k * 0 = 0
    OBVIOUS
  <2> QED
    BY <2>1, <2>2
<1>2. ASSUME NEW s \in SUBSET S, NEW y \in S \ s, s \in T PROVE s \cup {y} \in T
  <2>0. \A x \in S : k * f[x] \in Int
    OBVIOUS
  <2>1. /\ IsFiniteSet(s) /\ y \notin s /\ f[y] \in Int /\ g[y] = k * f[y] /\ g[y] \in Int
        /\ \A x \in s : f[x] \in Int
        /\ \A x \in s : g[x] \in Int
    BY <2>0, FS_Subset
  <2>2. /\ SumFunctionOnSet(f, s \cup {y}) = SumFunctionOnSet(f, s) + f[y]
        /\ SumFunctionOnSet(f, s) \in Int
    BY <2>1, SetSumAdd, Zenon
  <2>3. SumFunctionOnSet(g, s \cup {y}) = SumFunctionOnSet(g, s) + g[y]
    BY <2>1, SetSumAdd
  <2>4. SumFunctionOnSet(g, s) = k * SumFunctionOnSet(f, s)
    BY <1>2
  <2>5. ASSUME NEW a \in Int, NEW b \in Int PROVE (k * a) + (k * b) = k * (a + b)
    OBVIOUS
  <2>6. SumFunctionOnSet(g, s \cup {y}) = k * SumFunctionOnSet(f, s \cup {y})
    BY <2>1, <2>2, <2>3, <2>4, <2>5, Zenon
  <2> QED
    BY <2>6
<1>3. S \in T
  <2> HIDE DEF T
  <2> QED
    BY <1>1, <1>2, SubsetInduction, Zenon
<1>4. SumFunctionOnSet(f, S) \in Int
  BY SetSumUnfold
<1> QED
  BY <1>3, <1>4

\* The entries of a list, counted value by value, are at most all its entries.
LEMMA CountSum ==
  ASSUME NEW D, IsFiniteSet(D), NEW s, NEW W, IsFiniteSet(W),
         NEW f, \A w \in W : f[w] = Cardinality({i \in D : s[i] = w})
  PROVE  SumFunctionOnSet(f, W) \in Nat /\ SumFunctionOnSet(f, W) <= Cardinality(D)
<1> DEFINE at(d, w) == {i \in d : s[i] = w}
           cnt(d) == [w \in W |-> Cardinality(at(d, w))]
           T == {d \in SUBSET D : SumFunctionOnSet(cnt(d), W) <= Cardinality(d)}
<1>1. \A d \in SUBSET D : /\ IsFiniteSet(d) /\ Cardinality(d) \in Nat
                          /\ \A w \in W : cnt(d)[w] \in Nat
  <2> TAKE d \in SUBSET D
  <2>1. IsFiniteSet(d)
    BY FS_Subset
  <2>2. ASSUME NEW w \in W PROVE Cardinality(at(d, w)) \in Nat
    <3>1. at(d, w) \in SUBSET d
      OBVIOUS
    <3> HIDE DEF at
    <3> QED
      BY <2>1, <3>1, FS_Subset, FS_CardinalityType
  <2> HIDE DEF at
  <2> QED
    BY <2>1, <2>2, FS_CardinalityType
<1>2. {} \in T
  <2> DEFINE z == cnt({})
  <2>1. \A w \in W : z[w] = 0
    <3>1. \A w \in W : at({}, w) = {}
      OBVIOUS
    <3> HIDE DEF at
    <3> QED
      BY <3>1, FS_EmptySet
  <2> HIDE DEF z
  <2>2. \A w \in W : z[w] \in Int /\ z[w] = 0 * z[w]
    BY <2>1
  <2>3. SumFunctionOnSet(z, W) \in Int /\ SumFunctionOnSet(z, W) = 0 * SumFunctionOnSet(z, W)
    BY <2>2, SetSumTimes
  <2>4. SumFunctionOnSet(z, W) = 0
    BY <2>3
  <2> QED
    BY <2>4, FS_EmptySet DEF z
<1>3. ASSUME NEW d \in SUBSET D, NEW k \in D \ d, d \in T PROVE d \cup {k} \in T
  <2> DEFINE e == d \cup {k}
             f1 == cnt(d)
             f2 == cnt(e)
  <2>1. /\ e \in SUBSET D /\ Cardinality(e) = Cardinality(d) + 1
        /\ \A w \in W : f1[w] \in Int
        /\ \A w \in W : f2[w] \in Int
    BY <1>1, FS_AddElement
  <2>2. \A w \in W : w # s[k] => f2[w] = f1[w]
    <3>1. \A w \in W : w # s[k] => at(e, w) = at(d, w)
      OBVIOUS
    <3> HIDE DEF at
    <3> QED
      BY <3>1
  <2>3. s[k] \in W => f2[s[k]] = f1[s[k]] + 1
    <3>1. /\ at(e, s[k]) = at(d, s[k]) \cup {k} /\ k \notin at(d, s[k])
          /\ at(d, s[k]) \in SUBSET d
      OBVIOUS
    <3> HIDE DEF at, e
    <3>2. Cardinality(at(e, s[k])) = Cardinality(at(d, s[k])) + 1
      BY <1>1, <3>1, FS_Subset, FS_AddElement
    <3> QED
      BY <3>2
  <2>4. SumFunctionOnSet(f1, W) <= Cardinality(d) /\ Cardinality(d) \in Nat
    BY <1>1, <1>3
  <2> HIDE DEF f1, f2, e
  <2>5. CASE s[k] \in W
    <3>1. SumFunctionOnSet(f1, W) \in Int /\ SumFunctionOnSet(f2, W) \in Int
      BY <2>1, SetSumUnfold
    <3>2. SumFunctionOnSet(f2, W) = (SumFunctionOnSet(f1, W) + f2[s[k]]) - f1[s[k]]
      BY <2>1, <2>2, <2>5, SetSumChange
    <3>3. SumFunctionOnSet(f2, W) <= Cardinality(e)
      BY <2>1, <2>3, <2>4, <2>5, <3>1, <3>2
    <3> QED
      BY <2>1, <3>3 DEF f2, e
  <2>6. CASE s[k] \notin W
    <3>1. SumFunctionOnSet(f2, W) = SumFunctionOnSet(f1, W)
      BY <2>2, <2>6, SetSumSame
    <3>2. SumFunctionOnSet(f1, W) \in Int
      BY <2>1, SetSumUnfold
    <3>3. SumFunctionOnSet(f2, W) <= Cardinality(e)
      BY <2>1, <2>4, <3>1, <3>2
    <3> QED
      BY <2>1, <3>3 DEF f2, e
  <2> QED
    BY <2>5, <2>6
<1>4. D \in T
  <2> HIDE DEF T
  <2> QED
    BY <1>2, <1>3, SubsetInduction, Zenon
<1> DEFINE g == cnt(D)
<1>5. /\ SumFunctionOnSet(g, W) <= Cardinality(D)
      /\ \A w \in W : g[w] = f[w]
      /\ \A w \in W : g[w] \in Nat
  BY <1>1, <1>4, Zenon
<1> HIDE DEF g
<1>6. SumFunctionOnSet(f, W) = SumFunctionOnSet(g, W)
  BY <1>5, SetSumSame
<1>7. SumFunctionOnSet(g, W) \in Nat
  BY <1>5, SetSumUnion, Zenon
<1> QED
  BY <1>5, <1>6, <1>7

\* A loop over a list without repetitions adds up the values of its members.
LEMMA SumToSetSum ==
  ASSUME NEW S, IsFiniteSet(S), NEW n \in Nat, NEW s,
         \A i \in 1 .. n : s[i] \in S,
         \A i, j \in 1 .. n : s[i] = s[j] => i = j,
         NEW h, \A a \in S : h[a] \in Int,
         NEW f, \A i \in 1 .. n : f[i] = h[s[i]],
         NEW g, \A a \in S : g[a] = IF \E i \in 1 .. n : s[i] = a THEN h[a] ELSE 0
  PROVE  SumTo(f, n) \in Int /\ SumTo(f, n) = SumFunctionOnSet(g, S)
<1> DEFINE upto(k) == [a \in S |-> IF \E i \in 1 .. k : s[i] = a THEN h[a] ELSE 0]
           T == {k \in Nat : k <= n => SumTo(f, k) = SumFunctionOnSet(upto(k), S)}
<1>1. \A k \in Nat : \A a \in S : upto(k)[a] \in Int
  OBVIOUS
<1>2. 0 \in T
  <2> DEFINE z == upto(0)
  <2>1. \A a \in S : z[a] \in Int /\ z[a] = 0 * z[a]
    OBVIOUS
  <2> HIDE DEF z
  <2>2. SumFunctionOnSet(z, S) \in Int /\ SumFunctionOnSet(z, S) = 0 * SumFunctionOnSet(z, S)
    BY <2>1, SetSumTimes
  <2>3. SumFunctionOnSet(z, S) = 0 /\ SumTo(f, 0) = 0
    BY <2>2, SumUnfold
  <2> QED
    BY <2>3 DEF z
<1>3. ASSUME NEW k \in Nat, k \in T PROVE k + 1 \in T
  <2> SUFFICES ASSUME k + 1 <= n
               PROVE  SumTo(f, k + 1) = SumFunctionOnSet(upto(k + 1), S)
    OBVIOUS
  <2> DEFINE f1 == upto(k)
             f2 == upto(k + 1)
             y == s[k + 1]
  <2>1. y \in S /\ f[k + 1] = h[y] /\ h[y] \in Int
    OBVIOUS
  <2>2. /\ \A a \in S : f1[a] \in Int
        /\ \A a \in S : f2[a] \in Int
    OBVIOUS
  <2>3. f1[y] = 0 /\ f2[y] = h[y]
    <3>1. ~ \E i \in 1 .. k : s[i] = y
      OBVIOUS
    <3>2. \E i \in 1 .. k + 1 : s[i] = y
      OBVIOUS
    <3> HIDE DEF y
    <3> QED
      BY <2>1, <3>1, <3>2
  <2>4. \A a \in S \ {y} : f2[a] = f1[a]
    <3>1. 1 .. k + 1 = (1 .. k) \cup {k + 1}
      OBVIOUS
    <3>2. \A a : a # y => ((\E i \in 1 .. k + 1 : s[i] = a) <=> (\E i \in 1 .. k : s[i] = a))
      BY <3>1
    <3> HIDE DEF y
    <3> QED
      BY <3>2
  <2>5. SumTo(f, k) = SumFunctionOnSet(f1, S)
    BY <1>3
  <2>6. SumTo(f, k + 1) = SumTo(f, k) + f[k + 1]
    BY SumUnfold
  <2> HIDE DEF f1, f2, y
  <2>7. SumFunctionOnSet(f1, S) \in Int
    BY <2>2, SetSumUnfold
  <2>8. SumFunctionOnSet(f2, S) = (SumFunctionOnSet(f1, S) + f2[y]) - f1[y]
    BY <2>1, <2>2, <2>4, SetSumChange
  <2>9. SumTo(f, k + 1) = SumFunctionOnSet(f2, S)
    BY <2>1, <2>3, <2>5, <2>6, <2>7, <2>8
  <2> QED
    BY <2>9 DEF f2
<1>4. n \in T
  <2>1. T \subseteq Nat
    OBVIOUS
  <2> HIDE DEF T
  <2> QED
    BY <1>2, <1>3, <2>1, NatSetInduction
<1> DEFINE u == upto(n)
<1>5. SumTo(f, n) = SumFunctionOnSet(u, S) /\ \A a \in S : g[a] = u[a]
  BY <1>4
<1>6. \A a \in S : u[a] \in Int
  OBVIOUS
<1> HIDE DEF u
<1>7. SumFunctionOnSet(g, S) = SumFunctionOnSet(u, S) /\ SumFunctionOnSet(u, S) \in Int
  BY <1>5, <1>6, SetSumSame, SetSumUnfold
<1> QED
  BY <1>5, <1>7

=============================================================================
