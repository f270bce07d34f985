------------------------- MODULE ValidatorListProofs ------------------------
(***************************************************************************)
(* What the operators ValidatorSet is built from return, for all values of *)
(* the constants: shares of a reward, the searches for the most and the    *)
(* fewest coins, and the operations on the validator lists.                *)
(***************************************************************************)
EXTENDS ValidatorSet, IterationProofs

(***************************************************************************)
(* Arithmetic of shares                                                    *)
(***************************************************************************)

\* The quotient of two naturals, rounded down.
LEMMA DivFacts ==
  ASSUME NEW x \in Nat, NEW y \in Nat, y > 0
  PROVE  x \div y \in Nat /\ y * (x \div y) <= x
OBVIOUS

\* A checked addition or subtraction stays within the naturals.
LEMMA SumIsNat ==
  ASSUME NEW x \in Nat, NEW y \in Nat
  PROVE  x + y \in Nat
OBVIOUS

LEMMA RestIsNat ==
  ASSUME NEW x \in Nat, NEW y \in Nat, y <= x
  PROVE  x - y \in Nat
OBVIOUS

\* A part of an amount, as the callers of withdrawals choose it.
LEMMA PartIsNat ==
  ASSUME NEW x \in Nat, NEW y \in 0 .. x
  PROVE  y \in Nat /\ x - y \in Nat
OBVIOUS

\* A list with an entry has a positive length.
LEMMA LenPositive ==
  ASSUME NEW S, NEW s \in Seq(S), s # << >>
  PROVE  Len(s) \in Nat /\ Len(s) > 0
OBVIOUS

\* Multiplication by a natural is monotone.
LEMMA MulMono ==
  ASSUME NEW x \in Nat, NEW y \in Nat, NEW z \in Nat, x <= y
  PROVE  z * x \in Nat /\ z * y \in Nat /\ z * x <= z * y
OBVIOUS

\* A factor that is positive can be cancelled.
LEMMA MulCancel ==
  ASSUME NEW x \in Nat, NEW y \in Nat, NEW z \in Nat, z > 0, z * x <= z * y
  PROVE  x <= y
<1>1. SUFFICES ASSUME x >= y + 1 PROVE FALSE
  OBVIOUS
<1>2. z * (y + 1) <= z * x
  BY <1>1, MulMono
<1> QED BY <1>2

\* The part r/s of an amount is at most the amount when r <= s.
LEMMA PartBound ==
  ASSUME NEW x \in Nat, NEW r \in Nat, NEW s \in Nat, s > 0, r <= s
  PROVE  (x * r) \div s \in Nat /\ (x * r) \div s <= x
<1> DEFINE q == (x * r) \div s
<1>1. x * r \in Nat /\ x * s \in Nat /\ x * r <= x * s
  BY MulMono
<1>2. q \in Nat /\ s * q <= x * r
  BY <1>1, DivFacts
<1> HIDE DEF q
<1>3. s * q <= s * x
  BY <1>1, <1>2
<1>4. q <= x
  BY <1>2, <1>3, MulCancel
<1> QED BY <1>2, <1>4 DEF q

(***************************************************************************)
(* The loops that look for the most or the fewest coins                    *)
(***************************************************************************)

\* A non-empty set of positions has one whose value is greatest, and the first
\* of several such.
LEMMA FirstMax ==
  ASSUME NEW f, NEW n \in Nat, NEW E \in SUBSET (1 .. n), E # {},
         \A i \in 1 .. n : f[i] \in Int
  PROVE  \E k \in E : \A j \in E : f[k] >= f[j] /\ (j < k => f[k] > f[j])
<1> DEFINE Best(F, k) == \A j \in F : f[k] >= f[j] /\ (j < k => f[k] > f[j])
           T == {m \in Nat : m <= n =>
                   \A F \in SUBSET (1 .. m) : F # {} => \E k \in F : Best(F, k)}
<1>1. 0 \in T
  <2>1. 1 .. 0 = {}
    OBVIOUS
  <2>2. \A F \in SUBSET (1 .. 0) : F = {}
    BY <2>1
  <2> QED BY <2>2, Zenon
<1>2. ASSUME NEW m \in Nat, m \in T PROVE m + 1 \in T
  <2> SUFFICES ASSUME m + 1 <= n, NEW F \in SUBSET (1 .. m + 1), F # {}
               PROVE  \E k \in F : Best(F, k)
    OBVIOUS
  <2> DEFINE G == F \ {m + 1}
  <2>1. G \in SUBSET (1 .. m)
    OBVIOUS
  <2>2. CASE G = {}
    <3>1. F = {m + 1}
      BY <2>2, Zenon
    <3> QED BY <3>1
  <2>3. CASE G # {}
    <3> HIDE DEF Best, G
    <3>0. m <= n
      OBVIOUS
    <3>1. PICK k \in G : Best(G, k)
      BY <1>2, <2>1, <2>3, <3>0
    <3> USE DEF Best, G
    <3>2. k \in 1 .. m /\ f[k] \in Int /\ f[m + 1] \in Int
      BY <2>1
    <3>3. CASE m + 1 \in F /\ f[m + 1] > f[k]
      <4>1. \A j \in F : f[j] \in Int /\ (j = m + 1 \/ j \in G)
        OBVIOUS
      <4>2. Best(F, m + 1)
        BY <3>1, <3>2, <3>3, <4>1
      <4> QED BY <3>3, <4>2
    <3>4. CASE ~ (m + 1 \in F /\ f[m + 1] > f[k])
      <4>1. \A j \in F : j = m + 1 \/ j \in G
        OBVIOUS
      <4>2. Best(F, k)
        BY <3>1, <3>2, <3>4, <4>1
      <4> QED BY <4>2
    <3> QED BY <3>3, <3>4
  <2> QED BY <2>2, <2>3
<1> HIDE DEF T
<1>3. T \subseteq Nat
  BY DEF T
<1>4. n \in T
  BY <1>1, <1>2, <1>3, NatSetInduction
<1> QED BY <1>4 DEF T

\* What the lists hold, and what a validator's coins are: the part of TypeOK the
\* list operations depend on.
CoinsOK(vi) == \A v \in Validators : vi[v].coins \in Nat

\* lowestCoinsInHighestValidator finds a position of a non-empty list.
LEMMA LowestIsIndex ==
  ASSUME NEW vi, CoinsOK(vi), NEW hv \in Seq(Validators), hv # << >>
  PROVE  lowestCoinsInHighestValidator(vi, hv) \in 1 .. Len(hv)
<1> DEFINE f == [i \in 1 .. Len(hv) |-> 0 - vi[hv[i]].coins]
<1>1. Len(hv) \in Nat /\ DOMAIN hv = 1 .. Len(hv) /\ 1 \in 1 .. Len(hv)
  OBVIOUS
<1>2. \A i \in 1 .. Len(hv) : hv[i] \in Validators /\ vi[hv[i]].coins \in Nat
  BY DEF CoinsOK
<1>3. \A i \in 1 .. Len(hv) : f[i] \in Int
  BY <1>2
<1> HIDE DEF f
<1>4. PICK k \in 1 .. Len(hv) : \A j \in 1 .. Len(hv) :
        f[k] >= f[j] /\ (j < k => f[k] > f[j])
  BY <1>1, <1>3, FirstMax, Zenon
<1>5. \A j \in DOMAIN hv : /\ vi[hv[k]].coins <= vi[hv[j]].coins
                           /\ j < k => vi[hv[k]].coins < vi[hv[j]].coins
  BY <1>1, <1>2, <1>4 DEF f
<1> QED BY <1>1, <1>5, Zenon DEF lowestCoinsInHighestValidator

\* The search for the best candidate answers address(0), or a staked validator outside hv.
LEMMA HighestIsCandidate ==
  ASSUME NEW vi, CoinsOK(vi), NEW cv \in Seq(Validators), NEW hv, NEW min
  PROVE  LET high == highestCoinsInCurrentValidatorsNotInTopValidator(vi, cv, hv, min)
         IN  \/ high = NoAddr
             \/ /\ high \in Validators /\ ~ isTopValidator(hv, high)
                /\ vi[high].status = "Staked"
<1> DEFINE E == EligibleIndices(vi, cv, hv, min)
           f == [i \in 1 .. Len(cv) |-> vi[cv[i]].coins]
<1>1. Len(cv) \in Nat /\ DOMAIN cv = 1 .. Len(cv)
  OBVIOUS
<1>2. \A i \in 1 .. Len(cv) : cv[i] \in Validators /\ vi[cv[i]].coins \in Nat
  BY DEF CoinsOK
<1>3. E \in SUBSET (1 .. Len(cv))
  BY <1>1 DEF EligibleIndices
<1>0. E = {} => highestCoinsInCurrentValidatorsNotInTopValidator(vi, cv, hv, min) = NoAddr
  BY DEF highestCoinsInCurrentValidatorsNotInTopValidator
<1> SUFFICES ASSUME E # {}
             PROVE  LET high == highestCoinsInCurrentValidatorsNotInTopValidator(vi, cv, hv, min)
                    IN  /\ high \in Validators /\ ~ isTopValidator(hv, high)
                        /\ vi[high].status = "Staked"
  BY <1>0
<1>4. \A i \in 1 .. Len(cv) : f[i] \in Int
  BY <1>2
<1> HIDE DEF E, f
<1>5. PICK k \in E : \A j \in E : f[k] >= f[j] /\ (j < k => f[k] > f[j])
  BY <1>1, <1>3, <1>4, FirstMax, Zenon
<1>6. \A j \in E : vi[cv[k]].coins >= vi[cv[j]].coins /\ (j < k => vi[cv[k]].coins > vi[cv[j]].coins)
  BY <1>3, <1>5, Zenon DEF f
<1> DEFINE best == CHOOSE m \in E : \A j \in E :
                     /\ vi[cv[m]].coins >= vi[cv[j]].coins
                     /\ j < m => vi[cv[m]].coins > vi[cv[j]].coins
<1>7. best \in E
  BY <1>6
<1>8. highestCoinsInCurrentValidatorsNotInTopValidator(vi, cv, hv, min) = cv[best]
  BY DEF highestCoinsInCurrentValidatorsNotInTopValidator, E
<1> HIDE DEF best
<1>9. /\ cv[best] \in Validators /\ ~ isTopValidator(hv, cv[best])
      /\ vi[cv[best]].status = "Staked"
  BY <1>2, <1>3, <1>7 DEF E, EligibleIndices
<1> QED BY <1>8, <1>9

\* The answer is an address.
LEMMA HighestIsValidator ==
  ASSUME NEW vi, CoinsOK(vi), NEW cv \in Seq(Validators), NEW hv, NEW min
  PROVE  highestCoinsInCurrentValidatorsNotInTopValidator(vi, cv, hv, min)
           \in Validators \cup {NoAddr}
BY HighestIsCandidate

(***************************************************************************)
(* The operations on the lists: each result is a list again, and this much *)
(* longer or shorter                                                       *)
(***************************************************************************)

\* list[k] = list[n - 1]; list.pop() takes one entry off.
LEMMA SwapPopFacts ==
  ASSUME NEW S, NEW s \in Seq(S), s # << >>, NEW k
  PROVE  SwapPop(s, k) \in Seq(S) /\ Len(SwapPop(s, k)) = Len(s) - 1
<1>1. Len(s) \in Nat /\ Len(s) - 1 \in Nat /\ Len(s) \in 1 .. Len(s)
  OBVIOUS
<1>2. \A i \in 1 .. Len(s) : s[i] \in S
  OBVIOUS
<1>3. SwapPop(s, k) \in [1 .. Len(s) - 1 -> S]
  BY <1>1, <1>2 DEF SwapPop
<1> QED BY <1>1, <1>3

\* Removing the first entry that equals a.
LEMMA RemoveFirstFacts ==
  ASSUME NEW S, NEW s \in Seq(S), NEW a
  PROVE  /\ RemoveFirst(s, a) \in Seq(S)
         /\ Len(RemoveFirst(s, a)) <= Len(s)
         /\ Len(RemoveFirst(s, a)) >= Len(s) - 1
         /\ (\E i \in DOMAIN s : s[i] = a) => Len(RemoveFirst(s, a)) = Len(s) - 1
<1>1. CASE \E i \in DOMAIN s : s[i] = a
  <2>1. s # << >>
    BY <1>1
  <2>2. RemoveFirst(s, a) = SwapPop(s, FirstIndex(s, a))
    BY <1>1 DEF RemoveFirst
  <2>3. SwapPop(s, FirstIndex(s, a)) \in Seq(S)
        /\ Len(SwapPop(s, FirstIndex(s, a))) = Len(s) - 1
    BY <2>1, SwapPopFacts
  <2> QED BY <2>2, <2>3
<1>2. CASE ~ \E i \in DOMAIN s : s[i] = a
  BY <1>2 DEF RemoveFirst
<1> QED BY <1>1, <1>2

\* removeFromHighestValidatorList stops at MinHighest entries.
LEMMA RemoveFromHighestFacts ==
  ASSUME NEW hv \in Seq(Validators), NEW a
  PROVE  /\ removeFromHighestValidatorList(hv, a) \in Seq(Validators)
         /\ Len(removeFromHighestValidatorList(hv, a)) <= Len(hv)
         /\ Len(hv) >= MinHighest
              => Len(removeFromHighestValidatorList(hv, a)) >= MinHighest
         /\ Len(hv) > MinHighest /\ (\E i \in DOMAIN hv : hv[i] = a)
              => Len(removeFromHighestValidatorList(hv, a)) = Len(hv) - 1
<1>1. MinHighest \in Nat
  BY ParamAssumption
<1>2. Len(hv) \in Nat
  OBVIOUS
<1> DEFINE r == RemoveFirst(hv, a)
<1>3. /\ r \in Seq(Validators) /\ Len(r) \in Nat /\ Len(r) <= Len(hv) /\ Len(r) >= Len(hv) - 1
      /\ (\E i \in DOMAIN hv : hv[i] = a) => Len(r) = Len(hv) - 1
  BY RemoveFirstFacts
<1> QED BY <1>1, <1>2, <1>3 DEF removeFromHighestValidatorList

\* removeFromCurrentValidatorList yields a list.
LEMMA RemoveFromCurrentType ==
  ASSUME NEW cv \in Seq(Validators), NEW a
  PROVE  removeFromCurrentValidatorList(cv, a) \in Seq(Validators)
BY RemoveFirstFacts DEF removeFromCurrentValidatorList

\* Promote adds at most one entry, and none beyond max.
LEMMA PromoteFacts ==
  ASSUME NEW vi, CoinsOK(vi), NEW cv \in Seq(Validators), NEW hv \in Seq(Validators),
         NEW min, NEW max \in Nat, NEW floor
  PROVE  /\ Promote(vi, cv, hv, min, max, floor) \in Seq(Validators)
         /\ Len(Promote(vi, cv, hv, min, max, floor)) >= Len(hv)
         /\ Len(hv) <= max => Len(Promote(vi, cv, hv, min, max, floor)) <= max
<1> DEFINE high == highestCoinsInCurrentValidatorsNotInTopValidator(vi, cv, hv, min)
<1>1. high \in Validators \cup {NoAddr}
  BY HighestIsValidator
<1> HIDE DEF high
<1>2. CASE Len(hv) < max /\ high # NoAddr /\ vi[high].coins >= floor
  <2>1. Promote(vi, cv, hv, min, max, floor) = Append(hv, high)
    BY <1>2 DEF Promote, high
  <2>2. Append(hv, high) \in Seq(Validators) /\ Len(Append(hv, high)) = Len(hv) + 1
    BY <1>1, <1>2
  <2> QED BY <1>2, <2>1, <2>2
<1>3. CASE ~ (Len(hv) < max /\ high # NoAddr /\ vi[high].coins >= floor)
  BY <1>3 DEF Promote, high
<1> QED BY <1>2, <1>3

\* ReplaceLowest keeps the number of entries.
LEMMA ReplaceLowestFacts ==
  ASSUME NEW vi, CoinsOK(vi), NEW cv \in Seq(Validators), NEW hv \in Seq(Validators),
         hv # << >>, NEW min
  PROVE  /\ ReplaceLowest(vi, cv, hv, min) \in Seq(Validators)
         /\ Len(ReplaceLowest(vi, cv, hv, min)) = Len(hv)
<1> DEFINE high == highestCoinsInCurrentValidatorsNotInTopValidator(vi, cv, hv, min)
           low  == lowestCoinsInHighestValidator(vi, hv)
<1>1. high \in Validators \cup {NoAddr} /\ low \in 1 .. Len(hv)
  BY HighestIsValidator, LowestIsIndex
<1> HIDE DEF high, low
<1>2. high # NoAddr => /\ [hv EXCEPT ![low] = high] \in Seq(Validators)
                       /\ Len([hv EXCEPT ![low] = high]) = Len(hv)
  BY <1>1
<1> QED BY <1>2 DEF ReplaceLowest, high, low

\* EnterHighest adds at most one entry, and none beyond max.
LEMMA EnterHighestFacts ==
  ASSUME NEW vi, CoinsOK(vi), NEW hv \in Seq(Validators), NEW max \in Nat, max > 0,
         NEW a \in Validators
  PROVE  /\ EnterHighest(vi, hv, max, a) \in Seq(Validators)
         /\ Len(EnterHighest(vi, hv, max, a)) >= Len(hv)
         /\ Len(hv) <= max => Len(EnterHighest(vi, hv, max, a)) <= max
<1> DEFINE low == lowestCoinsInHighestValidator(vi, hv)
<1>1. CASE isTopValidator(hv, a)
  BY <1>1 DEF EnterHighest
<1>2. CASE ~ isTopValidator(hv, a) /\ Len(hv) < max
  <2>1. Append(hv, a) \in Seq(Validators) /\ Len(Append(hv, a)) = Len(hv) + 1
    OBVIOUS
  <2> QED BY <1>2, <2>1 DEF EnterHighest
<1>3. CASE ~ isTopValidator(hv, a) /\ ~ (Len(hv) < max)
  <2>1. hv # << >>
    BY <1>3
  <2>2. low \in 1 .. Len(hv)
    BY <2>1, LowestIsIndex
  <2> HIDE DEF low
  <2>3. [hv EXCEPT ![low] = a] \in Seq(Validators) /\ Len([hv EXCEPT ![low] = a]) = Len(hv)
    BY <2>2
  <2> QED BY <1>3, <2>3 DEF EnterHighest, low
<1> QED BY <1>1, <1>2, <1>3

(***************************************************************************)
(* The loops of updateVotingValues                                         *)
(***************************************************************************)

\* DropLowest takes one entry off a list longer than MinHighest.
LEMMA DropLowestFacts ==
  ASSUME NEW vi, CoinsOK(vi), NEW hv \in Seq(Validators)
  PROVE  /\ DropLowest(vi, hv) \in Seq(Validators)
         /\ Len(DropLowest(vi, hv)) <= Len(hv)
         /\ Len(hv) >= MinHighest => Len(DropLowest(vi, hv)) >= MinHighest
         /\ Len(hv) > MinHighest => Len(DropLowest(vi, hv)) = Len(hv) - 1
<1> DEFINE low == lowestCoinsInHighestValidator(vi, hv)
<1>1. Len(hv) > MinHighest => \E i \in DOMAIN hv : hv[i] = hv[low]
  <2>1. SUFFICES ASSUME Len(hv) > MinHighest PROVE low \in DOMAIN hv
    OBVIOUS
  <2>2. hv # << >>
    BY <2>1, ParamAssumption
  <2> QED BY <2>2, LowestIsIndex
<1> HIDE DEF low
<1> QED BY <1>1, RemoveFromHighestFacts DEF DropLowest, low

\* DropPoor only shortens the list, and not below MinHighest.
LEMMA DropPoorFacts ==
  ASSUME NEW vi, CoinsOK(vi), NEW hv \in Seq(Validators), NEW min
  PROVE  /\ DropPoor(vi, hv, min) \in Seq(Validators)
         /\ Len(DropPoor(vi, hv, min)) <= Len(hv)
         /\ Len(hv) >= MinHighest => Len(DropPoor(vi, hv, min)) >= MinHighest
<1> DEFINE step == [s \in Seq(Validators) |->
                      IF /\ Len(s) > MinHighest
                         /\ vi[s[lowestCoinsInHighestValidator(vi, s)]].coins < min
                      THEN DropLowest(vi, s) ELSE s]
           P == {s \in Seq(Validators) : /\ Len(s) <= Len(hv)
                                         /\ Len(hv) >= MinHighest => Len(s) >= MinHighest}
<1>1. Len(hv) \in Nat /\ MinHighest \in Nat
  BY ParamAssumption
<1>2. hv \in P
  BY <1>1
<1>3. ASSUME NEW s \in P PROVE step[s] \in P
  <2>1. s \in Seq(Validators) /\ (step[s] = s \/ step[s] = DropLowest(vi, s))
    OBVIOUS
  <2>2. /\ DropLowest(vi, s) \in Seq(Validators)
        /\ Len(DropLowest(vi, s)) <= Len(s)
        /\ Len(s) >= MinHighest => Len(DropLowest(vi, s)) >= MinHighest
    BY <2>1, DropLowestFacts
  <2> HIDE DEF step
  <2> QED BY <1>1, <2>1, <2>2
<1>4. DropPoor(vi, hv, min) = Iterate(step, hv, Len(hv))
  BY DEF DropPoor
<1> HIDE DEF step, P
<1>5. DropPoor(vi, hv, min) \in P
  BY <1>1, <1>2, <1>3, <1>4, IterateInvariant, Zenon
<1> QED BY <1>5 DEF P

\* n rounds of DropExcess take n entries off, but not below MinHighest.
LEMMA DropExcessFacts ==
  ASSUME NEW vi, CoinsOK(vi), NEW hv \in Seq(Validators), NEW n \in Nat, NEW m \in Nat,
         m >= MinHighest, Len(hv) <= m + n
  PROVE  /\ DropExcess(vi, hv, n) \in Seq(Validators)
         /\ Len(DropExcess(vi, hv, n)) <= m
         /\ Len(hv) >= MinHighest => Len(DropExcess(vi, hv, n)) >= MinHighest
<1> DEFINE step == [s \in Seq(Validators) |-> DropLowest(vi, s)]
           it(k) == Iterate(step, hv, k)
           OK(s, k) == /\ s \in Seq(Validators)
                       /\ k <= n => Len(s) <= m + (n - k)
                       /\ Len(hv) >= MinHighest => Len(s) >= MinHighest
           T == {k \in Nat : OK(it(k), k)}
<1>1. Len(hv) \in Nat /\ MinHighest \in Nat
  BY ParamAssumption
<1>2. 0 \in T
  <2>1. it(0) = hv
    BY IterateUnfold
  <2> HIDE DEF it
  <2> QED BY <1>1, <2>1
<1>3. ASSUME NEW k \in Nat, k \in T PROVE k + 1 \in T
  <2>1. it(k + 1) = step[it(k)]
    BY IterateUnfold, ZenonT(40)
  <2> HIDE DEF it
  <2>2. OK(it(k), k) /\ it(k) \in Seq(Validators)
    BY <1>3, Zenon
  <2>3. it(k + 1) = DropLowest(vi, it(k))
    BY <2>1, <2>2, Zenon
  <2>4. /\ DropLowest(vi, it(k)) \in Seq(Validators)
        /\ Len(DropLowest(vi, it(k))) <= Len(it(k))
        /\ Len(it(k)) >= MinHighest => Len(DropLowest(vi, it(k))) >= MinHighest
        /\ Len(it(k)) > MinHighest => Len(DropLowest(vi, it(k))) = Len(it(k)) - 1
    BY <2>2, DropLowestFacts
  <2>5. OK(it(k + 1), k + 1)
    <3>1. Len(it(k)) \in Nat /\ Len(it(k + 1)) \in Nat
      BY <2>2, <2>3, <2>4
    <3> QED BY <1>1, <2>2, <2>3, <2>4, <3>1
  <2> QED BY <2>5
<1> HIDE DEF T
<1>4. T \subseteq Nat
  BY DEF T
<1>5. n \in T
  BY <1>2, <1>3, <1>4, NatSetInduction, Zenon
<1>6. OK(it(n), n) /\ DropExcess(vi, hv, n) = it(n)
  BY <1>5 DEF T, DropExcess
<1> HIDE DEF it
<1> QED BY <1>6

\* Refill only lengthens the list, and not beyond max.
LEMMA RefillFacts ==
  ASSUME NEW vi, CoinsOK(vi), NEW cv \in Seq(Validators), NEW hv \in Seq(Validators),
         NEW min, NEW max \in Nat, NEW floor
  PROVE  /\ Refill(vi, cv, hv, min, max, floor) \in Seq(Validators)
         /\ Len(Refill(vi, cv, hv, min, max, floor)) >= Len(hv)
         /\ Len(hv) <= max => Len(Refill(vi, cv, hv, min, max, floor)) <= max
<1>1. CASE ~ (Len(hv) < max)
  BY <1>1 DEF Refill
<1>2. CASE Len(hv) < max
  <2> DEFINE step == [s \in Seq(Validators) |-> Promote(vi, cv, s, min, max, floor)]
             P == {s \in Seq(Validators) : Len(s) >= Len(hv) /\ Len(s) <= max}
  <2>1. Len(hv) \in Nat /\ max - Len(hv) \in Nat
    BY <1>2
  <2>2. hv \in P
    BY <1>2, <2>1
  <2>3. ASSUME NEW s \in P PROVE step[s] \in P
    <3>1. s \in Seq(Validators) /\ step[s] = Promote(vi, cv, s, min, max, floor)
      OBVIOUS
    <3>2. /\ step[s] \in Seq(Validators)
          /\ Len(step[s]) >= Len(s)
          /\ Len(s) <= max => Len(step[s]) <= max
      BY <3>1, PromoteFacts
    <3> HIDE DEF step
    <3> QED BY <2>1, <3>1, <3>2
  <2>4. Refill(vi, cv, hv, min, max, floor) = Iterate(step, hv, max - Len(hv))
    BY <1>2 DEF Refill
  <2> HIDE DEF step, P
  <2>5. Refill(vi, cv, hv, min, max, floor) \in P
    BY <2>1, <2>2, <2>3, <2>4, IterateInvariant, Zenon
  <2> QED BY <2>5 DEF P
<1> QED BY <1>1, <1>2

\* A share of a reward: PctScale scales the quotient, and both roundings are down,
\* so the part part/whole of value is at most value.
LEMMA ShareBound ==
  ASSUME NEW value \in Nat, NEW part \in Nat, NEW whole \in Nat, whole > 0
  PROVE  /\ Share(value, part, whole) \in Nat
         /\ part <= whole => Share(value, part, whole) <= value
<1> DEFINE pct == (part * PctScale) \div whole
<1>1. PctScale \in Nat /\ PctScale > 0
  BY ParamAssumption
<1>2. part * PctScale \in Nat /\ PctScale * part = part * PctScale
  BY <1>1, MulMono
<1>3. pct \in Nat
  BY <1>2, DivFacts
<1>4. part <= whole => pct <= PctScale
  <2>1. SUFFICES ASSUME part <= whole PROVE pct <= PctScale
    OBVIOUS
  <2>2. (PctScale * part) \div whole <= PctScale
    BY <1>1, <2>1, PartBound
  <2> QED BY <1>2, <2>2
<1> HIDE DEF pct
<1>5. value * pct \in Nat
  BY <1>3, MulMono
<1>6. (value * pct) \div PctScale \in Nat
  BY <1>1, <1>5, DivFacts
<1>7. pct <= PctScale => (value * pct) \div PctScale <= value
  BY <1>1, <1>3, PartBound
<1> QED BY <1>4, <1>6, <1>7 DEF Share, pct

\* A set of positions in a list is finite and has a size.
LEMMA PositionsFinite ==
  ASSUME NEW S, NEW s \in Seq(S), NEW E \in SUBSET (DOMAIN s)
  PROVE  IsFiniteSet(E) /\ Cardinality(E) \in Nat /\ (E # {} => Cardinality(E) > 0)
<1>1. Len(s) \in Nat /\ DOMAIN s = 1 .. Len(s)
  OBVIOUS
<1>2. IsFiniteSet(1 .. Len(s))
  BY <1>1, FS_Interval
<1>3. IsFiniteSet(E)
  BY <1>1, <1>2, FS_Subset
<1>4. Cardinality(E) \in Nat /\ (Cardinality(E) = 0 <=> E = {})
  BY <1>3, FS_CardinalityType, FS_EmptySet
<1> QED BY <1>3, <1>4

(***************************************************************************)
(* What the operations put into a list                                     *)
(***************************************************************************)

\* From s to t no entry is doubled, and who comes in is staked.
Entered(vi, s, t) ==
  /\ IsInjective(s) => IsInjective(t)
  /\ \A i \in DOMAIN t : isTopValidator(s, t[i]) \/ vi[t[i]].status = "Staked"

\* Two operations, one after the other.
LEMMA EnteredTwice ==
  ASSUME NEW vi, NEW s, NEW t, NEW u, Entered(vi, s, t), Entered(vi, t, u)
  PROVE  Entered(vi, s, u)
BY DEF Entered, isTopValidator

\* Nothing happens to the list.
LEMMA EnteredNone ==
  ASSUME NEW vi, NEW s
  PROVE  Entered(vi, s, s)
BY DEF Entered, isTopValidator

\* A staked validator outside the list is appended, or takes the place of an entry.
LEMMA EnteredOne ==
  ASSUME NEW vi, NEW s \in Seq(Validators), NEW a \in Validators, ~ isTopValidator(s, a),
         vi[a].status = "Staked"
  PROVE  /\ Entered(vi, s, Append(s, a))
         /\ \A k \in 1 .. Len(s) : Entered(vi, s, [s EXCEPT ![k] = a])
<1>1. DOMAIN s = 1 .. Len(s) /\ Len(s) \in Nat
  OBVIOUS
<1>2. Entered(vi, s, Append(s, a))
  <2> DEFINE t == Append(s, a)
  <2>1. /\ DOMAIN t = 1 .. Len(s) + 1 /\ t[Len(s) + 1] = a
        /\ \A i \in 1 .. Len(s) : t[i] = s[i]
    OBVIOUS
  <2>2. \A i \in DOMAIN t : i \in 1 .. Len(s) \/ i = Len(s) + 1
    BY <1>1, <2>1
  <2> HIDE DEF t
  <2>3. IsInjective(s) => IsInjective(t)
    BY <1>1, <2>1, <2>2 DEF IsInjective, isTopValidator
  <2>4. \A i \in DOMAIN t : isTopValidator(s, t[i]) \/ vi[t[i]].status = "Staked"
    BY <1>1, <2>1, <2>2 DEF isTopValidator
  <2> QED BY <2>3, <2>4 DEF Entered, t
<1>3. ASSUME NEW k \in 1 .. Len(s) PROVE Entered(vi, s, [s EXCEPT ![k] = a])
  <2> DEFINE t == [s EXCEPT ![k] = a]
  <2>1. /\ DOMAIN t = 1 .. Len(s) /\ t[k] = a
        /\ \A i \in 1 .. Len(s) : i # k => t[i] = s[i]
    BY <1>1
  <2> HIDE DEF t
  <2>2. IsInjective(s) => IsInjective(t)
    BY <1>1, <2>1 DEF IsInjective, isTopValidator
  <2>3. \A i \in DOMAIN t : isTopValidator(s, t[i]) \/ vi[t[i]].status = "Staked"
    BY <1>1, <2>1 DEF isTopValidator
  <2> QED BY <2>2, <2>3 DEF Entered, t
<1> QED BY <1>2, <1>3

\* The entries that are left when the last one takes the place of the k-th.
LEMMA SwapPopContents ==
  ASSUME NEW S, NEW s \in Seq(S), NEW k \in 1 .. Len(s)
  PROVE  /\ DOMAIN SwapPop(s, k) = 1 .. Len(s) - 1
         /\ \A i \in 1 .. Len(s) - 1 : SwapPop(s, k)[i] = IF i = k THEN s[Len(s)] ELSE s[i]
         /\ \A i \in 1 .. Len(s) - 1 : \E j \in 1 .. Len(s) : j # k /\ SwapPop(s, k)[i] = s[j]
         /\ \A j \in 1 .. Len(s) : j # k => \E i \in 1 .. Len(s) - 1 : SwapPop(s, k)[i] = s[j]
         /\ IsInjective(s) => IsInjective(SwapPop(s, k))
<1> DEFINE t == SwapPop(s, k)
           n == Len(s)
<1>1. DOMAIN s = 1 .. n /\ n \in Nat /\ k \in 1 .. n
  OBVIOUS
<1>2. /\ DOMAIN t = 1 .. n - 1
      /\ \A i \in 1 .. n - 1 : t[i] = IF i = k THEN s[n] ELSE s[i]
  BY DEF SwapPop
<1> HIDE DEF t, n
<1>3. \A i \in 1 .. n - 1 : \E j \in 1 .. n : j # k /\ t[i] = s[j]
  <2> TAKE i \in 1 .. n - 1
  <2>1. CASE i = k
    <3>1. n \in 1 .. n /\ n # k /\ t[i] = s[n]
      BY <1>1, <1>2, <2>1
    <3> QED BY <3>1
  <2>2. CASE i # k
    <3>1. i \in 1 .. n /\ t[i] = s[i]
      BY <1>1, <1>2, <2>2
    <3> QED BY <2>2, <3>1
  <2> QED BY <2>1, <2>2
<1>4. \A j \in 1 .. n : j # k => \E i \in 1 .. n - 1 : t[i] = s[j]
  <2> SUFFICES ASSUME NEW j \in 1 .. n, j # k
               PROVE  \E i \in 1 .. n - 1 : t[i] = s[j]
    OBVIOUS
  <2>1. CASE j = n
    <3>1. k \in 1 .. n - 1 /\ t[k] = s[j]
      BY <1>1, <1>2, <2>1
    <3> QED BY <3>1
  <2>2. CASE j # n
    <3>1. j \in 1 .. n - 1 /\ t[j] = s[j]
      BY <1>1, <1>2, <2>2
    <3> QED BY <3>1
  <2> QED BY <2>1, <2>2
<1>5. IsInjective(s) => IsInjective(t)
  <2> SUFFICES ASSUME \A a, b \in 1 .. n : s[a] = s[b] => a = b,
                      NEW a \in 1 .. n - 1, NEW b \in 1 .. n - 1, t[a] = t[b]
               PROVE  a = b
    BY <1>1, <1>2 DEF IsInjective
  <2>1. a \in 1 .. n /\ b \in 1 .. n /\ n \in 1 .. n
        /\ a # n /\ b # n
    BY <1>1
  <2> QED BY <1>2, <2>1
<1> QED BY <1>2, <1>3, <1>4, <1>5 DEF t, n

\* The position RemoveFirst clears.
LEMMA FirstIndexFacts ==
  ASSUME NEW S, NEW s \in Seq(S), NEW a, isTopValidator(s, a)
  PROVE  FirstIndex(s, a) \in 1 .. Len(s) /\ s[FirstIndex(s, a)] = a
<1> DEFINE f == [i \in 1 .. Len(s) |-> 0]
           E == {i \in 1 .. Len(s) : s[i] = a}
           n == Len(s)
<1>1. DOMAIN s = 1 .. n /\ n \in Nat
  OBVIOUS
<1>2. E \in SUBSET (1 .. n) /\ E # {} /\ \A i \in 1 .. n : f[i] = 0
  BY <1>1 DEF isTopValidator
<1> HIDE DEF f
<1>3. PICK k \in E : \A j \in E : f[k] >= f[j] /\ (j < k => f[k] > f[j])
  <2>1. \A i \in 1 .. n : f[i] \in Int
    BY <1>2
  <2>2. E \in SUBSET (1 .. n) /\ E # {} /\ n \in Nat
    BY <1>1, <1>2
  <2> HIDE DEF E, n
  <2> QED BY <2>1, <2>2, FirstMax, Zenon
<1>4. k \in DOMAIN s /\ s[k] = a /\ \A j \in DOMAIN s : s[j] = a => k <= j
  BY <1>1, <1>2, <1>3
<1> QED BY <1>1, <1>4 DEF FirstIndex

\* Removing an entry brings nobody in; if a is still there it was there twice.
LEMMA RemoveFirstContents ==
  ASSUME NEW vi, NEW s \in Seq(Validators), NEW a
  PROVE  /\ Entered(vi, s, RemoveFirst(s, a))
         /\ \A i \in DOMAIN RemoveFirst(s, a) : isTopValidator(s, RemoveFirst(s, a)[i])
         /\ isTopValidator(RemoveFirst(s, a), a) =>
              \E i, j \in DOMAIN s : i # j /\ s[i] = a /\ s[j] = a
<1> DEFINE t == RemoveFirst(s, a)
           k == FirstIndex(s, a)
<1>0. DOMAIN s = 1 .. Len(s)
  OBVIOUS
<1>1. CASE isTopValidator(s, a)
  <2>1. t = SwapPop(s, k) /\ k \in 1 .. Len(s) /\ s[k] = a
    BY <1>1, FirstIndexFacts DEF RemoveFirst, isTopValidator
  <2> HIDE DEF t, k
  <2>2. /\ DOMAIN t = 1 .. Len(s) - 1
        /\ \A i \in 1 .. Len(s) - 1 : \E j \in 1 .. Len(s) : j # k /\ t[i] = s[j]
        /\ IsInjective(s) => IsInjective(t)
    <3>1. /\ DOMAIN SwapPop(s, k) = 1 .. Len(s) - 1
          /\ \A i \in 1 .. Len(s) - 1 :
               \E j \in 1 .. Len(s) : j # k /\ SwapPop(s, k)[i] = s[j]
          /\ IsInjective(s) => IsInjective(SwapPop(s, k))
      BY <2>1, SwapPopContents, Zenon
    <3> QED BY <2>1, <3>1
  <2>3. \A i \in DOMAIN t : isTopValidator(s, t[i])
    BY <1>0, <2>2, Zenon DEF isTopValidator
  <2>4. isTopValidator(t, a) => \E i, j \in DOMAIN s : i # j /\ s[i] = a /\ s[j] = a
    BY <1>0, <2>1, <2>2, SMTT(30) DEF isTopValidator
  <2> QED BY <2>2, <2>3, <2>4 DEF Entered, t
<1>2. CASE ~ isTopValidator(s, a)
  <2>1. t = s
    BY <1>2 DEF RemoveFirst, isTopValidator
  <2>2. \A i \in DOMAIN s : isTopValidator(s, s[i])
    BY DEF isTopValidator
  <2> HIDE DEF t
  <2> QED BY <1>2, <2>1, <2>2, EnteredNone DEF t
<1> QED BY <1>1, <1>2

\* removeFromHighestValidatorList; who is still there is there because of the lower limit
\* or a second entry.
LEMMA RemoveFromHighestContents ==
  ASSUME NEW vi, NEW s \in Seq(Validators), NEW a
  PROVE  /\ Entered(vi, s, removeFromHighestValidatorList(s, a))
         /\ isTopValidator(removeFromHighestValidatorList(s, a), a) =>
              \/ Len(s) <= MinHighest
              \/ \E i, j \in DOMAIN s : i # j /\ s[i] = a /\ s[j] = a
BY RemoveFirstContents, EnteredNone DEF removeFromHighestValidatorList

\* Promote brings in a staked validator that was outside.
LEMMA PromoteContents ==
  ASSUME NEW vi, CoinsOK(vi), NEW cv \in Seq(Validators), NEW hv \in Seq(Validators),
         NEW min, NEW max, NEW floor
  PROVE  Entered(vi, hv, Promote(vi, cv, hv, min, max, floor))
<1> DEFINE high == highestCoinsInCurrentValidatorsNotInTopValidator(vi, cv, hv, min)
<1>1. \/ high = NoAddr
      \/ high \in Validators /\ ~ isTopValidator(hv, high) /\ vi[high].status = "Staked"
  BY HighestIsCandidate
<1>2. \/ Promote(vi, cv, hv, min, max, floor) = hv
      \/ /\ high # NoAddr
         /\ Promote(vi, cv, hv, min, max, floor) = Append(hv, high)
  BY DEF Promote
<1> HIDE DEF high
<1>3. high # NoAddr => Entered(vi, hv, Append(hv, high))
  BY <1>1, EnteredOne
<1> QED BY <1>2, <1>3, EnteredNone, Zenon

\* ReplaceLowest brings in a staked validator that was outside.
LEMMA ReplaceLowestContents ==
  ASSUME NEW vi, CoinsOK(vi), NEW cv \in Seq(Validators), NEW hv \in Seq(Validators),
         hv # << >>, NEW min
  PROVE  Entered(vi, hv, ReplaceLowest(vi, cv, hv, min))
<1> DEFINE high == highestCoinsInCurrentValidatorsNotInTopValidator(vi, cv, hv, min)
           low  == lowestCoinsInHighestValidator(vi, hv)
<1>1. \/ high = NoAddr
      \/ high \in Validators /\ ~ isTopValidator(hv, high) /\ vi[high].status = "Staked"
  BY HighestIsCandidate
<1>2. low \in 1 .. Len(hv)
  BY LowestIsIndex
<1>3. \/ ReplaceLowest(vi, cv, hv, min) = hv
      \/ /\ high # NoAddr
         /\ ReplaceLowest(vi, cv, hv, min) = [hv EXCEPT ![low] = high]
  BY DEF ReplaceLowest
<1> HIDE DEF high, low
<1>4. high # NoAddr => Entered(vi, hv, [hv EXCEPT ![low] = high])
  BY <1>1, <1>2, EnteredOne
<1> QED BY <1>3, <1>4, EnteredNone, SMTT(30)

\* EnterHighest brings in a, if it is outside.
LEMMA EnterHighestContents ==
  ASSUME NEW vi, CoinsOK(vi), NEW hv \in Seq(Validators), NEW max \in Nat, max > 0,
         NEW a \in Validators, vi[a].status = "Staked"
  PROVE  Entered(vi, hv, EnterHighest(vi, hv, max, a))
<1> DEFINE low == lowestCoinsInHighestValidator(vi, hv)
<1>1. CASE isTopValidator(hv, a)
  BY <1>1, EnteredNone DEF EnterHighest
<1>2. CASE ~ isTopValidator(hv, a) /\ Len(hv) < max
  <2>1. EnterHighest(vi, hv, max, a) = Append(hv, a)
    BY <1>2 DEF EnterHighest
  <2> QED BY <1>2, <2>1, EnteredOne
<1>3. CASE ~ isTopValidator(hv, a) /\ ~ (Len(hv) < max)
  <2>1. hv # << >>
    BY <1>3
  <2>2. low \in 1 .. Len(hv)
    BY <2>1, LowestIsIndex
  <2>3. EnterHighest(vi, hv, max, a) \in {hv, [hv EXCEPT ![low] = a]}
    BY <1>3 DEF EnterHighest
  <2> HIDE DEF low
  <2>4. Entered(vi, hv, [hv EXCEPT ![low] = a])
    BY <1>3, <2>2, EnteredOne
  <2> QED BY <2>3, <2>4, EnteredNone
<1> QED BY <1>1, <1>2, <1>3

\* The loops of updateVotingValues that drop entries bring nobody in.
LEMMA DropContents ==
  ASSUME NEW vi, CoinsOK(vi), NEW hv \in Seq(Validators), NEW min, NEW n \in Nat
  PROVE  Entered(vi, hv, DropPoor(vi, hv, min)) /\ Entered(vi, hv, DropExcess(vi, hv, n))
<1> DEFINE step1 == [s \in Seq(Validators) |->
                      IF /\ Len(s) > MinHighest
                         /\ vi[s[lowestCoinsInHighestValidator(vi, s)]].coins < min
                      THEN DropLowest(vi, s) ELSE s]
           step2 == [s \in Seq(Validators) |-> DropLowest(vi, s)]
           P == {s \in Seq(Validators) : Entered(vi, hv, s)}
<1>1. hv \in P /\ Len(hv) \in Nat
  BY EnteredNone
<1>2. ASSUME NEW s \in P PROVE DropLowest(vi, s) \in P
  <2>1. DropLowest(vi, s) \in Seq(Validators)
    BY DropLowestFacts
  <2>2. Entered(vi, s, DropLowest(vi, s))
    BY RemoveFromHighestContents DEF DropLowest
  <2>3. Entered(vi, hv, DropLowest(vi, s))
    BY <2>2, EnteredTwice
  <2> QED BY <2>1, <2>3
<1>3. /\ \A s \in P : step1[s] \in P
      /\ \A s \in P : step2[s] \in P
  <2>1. \A s \in P : step1[s] \in {s, DropLowest(vi, s)} /\ step2[s] = DropLowest(vi, s)
    OBVIOUS
  <2> HIDE DEF P, step1, step2
  <2> QED BY <1>2, <2>1
<1>4. /\ DropPoor(vi, hv, min) = Iterate(step1, hv, Len(hv))
      /\ DropExcess(vi, hv, n) = Iterate(step2, hv, n)
  BY DEF DropPoor, DropExcess
<1> HIDE DEF P, step1, step2
<1>5. Iterate(step1, hv, Len(hv)) \in P
  BY <1>1, <1>3, IterateInvariant, Zenon
<1>6. Iterate(step2, hv, n) \in P
  BY <1>1, <1>3, IterateInvariant, Zenon
<1> QED BY <1>4, <1>5, <1>6 DEF P

\* The loops of updateVotingValues that fill the list bring in staked validators.
LEMMA RefillContents ==
  ASSUME NEW vi, CoinsOK(vi), NEW cv \in Seq(Validators), NEW hv \in Seq(Validators),
         NEW min, NEW max \in Nat, NEW floor
  PROVE  Entered(vi, hv, Refill(vi, cv, hv, min, max, floor))
<1>1. CASE ~ (Len(hv) < max)
  BY <1>1, EnteredNone DEF Refill
<1>2. CASE Len(hv) < max
  <2> DEFINE step == [s \in Seq(Validators) |-> Promote(vi, cv, s, min, max, floor)]
             P == {s \in Seq(Validators) : Entered(vi, hv, s)}
  <2>1. hv \in P /\ max - Len(hv) \in Nat
    BY <1>2, EnteredNone
  <2>2. ASSUME NEW s \in P PROVE step[s] \in P
    <3>1. step[s] = Promote(vi, cv, s, min, max, floor)
      OBVIOUS
    <3>2. step[s] \in Seq(Validators)
      BY <3>1, PromoteFacts
    <3>3. Entered(vi, s, step[s])
      BY <3>1, PromoteContents
    <3> HIDE DEF step
    <3>4. Entered(vi, hv, step[s])
      BY <3>3, EnteredTwice
    <3> QED BY <3>2, <3>4
  <2>3. Refill(vi, cv, hv, min, max, floor) = Iterate(step, hv, max - Len(hv))
    BY <1>2 DEF Refill
  <2> HIDE DEF step, P
  <2>4. Refill(vi, cv, hv, min, max, floor) \in P
    BY <2>1, <2>2, <2>3, IterateInvariant, Zenon
  <2> QED BY <2>4 DEF P
<1> QED BY <1>1, <1>2

(***************************************************************************)
(* Sums of shares                                                          *)
(***************************************************************************)

\* One share, without the divisions: each of the two rounds down.
LEMMA ShareScaled ==
  ASSUME NEW value \in Nat, NEW part \in Nat, NEW whole \in Nat, whole > 0
  PROVE  /\ (whole * PctScale) * Share(value, part, whole) <= (value * PctScale) * part
         /\ part = 0 => Share(value, part, whole) = 0
<1> DEFINE pct == (part * PctScale) \div whole
           share == (value * pct) \div PctScale
<1>1. PctScale \in Nat /\ PctScale > 0
  BY ParamAssumption
<1>2. part * PctScale \in Nat
  BY <1>1, MulMono
<1>3. pct \in Nat /\ whole * pct <= part * PctScale
  BY <1>2, DivFacts
<1> HIDE DEF pct
<1>4. value * pct \in Nat
  BY <1>3, MulMono
<1>5. share \in Nat /\ PctScale * share <= value * pct
  BY <1>1, <1>4, DivFacts
<1>6. Share(value, part, whole) = share
  BY DEF Share, share, pct
<1> HIDE DEF share
<1>7. PctScale * share \in Nat /\ whole * pct \in Nat
  BY <1>1, <1>3, <1>5, MulMono
<1>8. whole * (PctScale * share) <= whole * (value * pct)
  BY <1>4, <1>5, <1>7, MulMono
<1>9. value * (whole * pct) <= value * (part * PctScale)
  BY <1>2, <1>3, <1>7, MulMono
<1>10. /\ whole * (PctScale * share) = (whole * PctScale) * share
       /\ whole * (value * pct) = value * (whole * pct)
       /\ value * (part * PctScale) = (value * PctScale) * part
  BY <1>1, <1>3, <1>5
<1>11. (whole * PctScale) * share <= (value * PctScale) * part
  <2>1. /\ whole * (PctScale * share) \in Nat /\ whole * (value * pct) \in Nat
        /\ value * (part * PctScale) \in Nat
    BY <1>2, <1>4, <1>7, MulMono
  <2> QED BY <1>8, <1>9, <1>10, <2>1
<1>12. part = 0 => share = 0
  <2> SUFFICES ASSUME part = 0 PROVE share = 0
    OBVIOUS
  <2>1. (value * PctScale) * part = 0
    BY <1>1
  <2>2. whole * PctScale \in Nat /\ whole * PctScale > 0
    BY <1>1
  <2> DEFINE z == whole * PctScale
  <2> HIDE DEF z
  <2>3. z \in Nat /\ z > 0 /\ z * share <= z * 0
    BY <1>11, <2>1, <2>2 DEF z
  <2>4. share <= 0
    BY <1>5, <2>3, MulCancel
  <2> QED BY <1>5, <2>4
<1> QED BY <1>6, <1>11, <1>12

\* The shares of parts that add up to at most the whole add up to at most the value.
LEMMA SharesBound ==
  ASSUME NEW S, IsFiniteSet(S), NEW value \in Nat, NEW whole \in Nat, whole > 0,
         NEW p, \A a \in S : p[a] \in Nat, SumFunctionOnSet(p, S) <= whole,
         NEW h, \A a \in S : h[a] = Share(value, p[a], whole)
  PROVE  SumFunctionOnSet(h, S) \in Nat /\ SumFunctionOnSet(h, S) <= value
<1> DEFINE z == whole * PctScale
           y == value * PctScale
           zh == [a \in S |-> z * h[a]]
           yp == [a \in S |-> y * p[a]]
<1>1. z \in Nat /\ z > 0 /\ y \in Nat /\ y * whole = z * value
  BY ParamAssumption
<1>2. \A a \in S : h[a] \in Nat /\ z * h[a] <= y * p[a]
  <2> TAKE a \in S
  <2>1. Share(value, p[a], whole) \in Nat
    BY ShareBound, Zenon
  <2>2. (whole * PctScale) * Share(value, p[a], whole) <= (value * PctScale) * p[a]
    BY ShareScaled
  <2> QED BY <2>1, <2>2
<1> HIDE DEF z, y
<1>3. \A a \in S : /\ zh[a] = z * h[a] /\ yp[a] = y * p[a] /\ zh[a] \in Int /\ yp[a] \in Int
                   /\ h[a] \in Int /\ p[a] \in Int /\ zh[a] <= yp[a]
  BY <1>1, <1>2
<1> HIDE DEF zh, yp
<1>4. SumFunctionOnSet(h, S) \in Nat
  BY <1>2, SetSumUnion, Zenon
<1>5. SumFunctionOnSet(p, S) \in Nat
  BY SetSumUnion, Zenon
<1>6. SumFunctionOnSet(zh, S) = z * SumFunctionOnSet(h, S)
  BY <1>1, <1>3, SetSumTimes
<1>7. SumFunctionOnSet(yp, S) = y * SumFunctionOnSet(p, S)
  BY <1>1, <1>3, SetSumTimes
<1>8. SumFunctionOnSet(zh, S) <= SumFunctionOnSet(yp, S)
  BY <1>3, SetSumMono
<1>9. y * SumFunctionOnSet(p, S) <= y * whole
  BY <1>1, <1>5, MulMono
<1>10. z * SumFunctionOnSet(h, S) <= z * value
  <2>1. /\ z * SumFunctionOnSet(h, S) \in Nat /\ y * SumFunctionOnSet(p, S) \in Nat
        /\ z * value \in Nat
    BY <1>1, <1>4, <1>5, MulMono
  <2> QED BY <1>1, <1>6, <1>7, <1>8, <1>9, <2>1
<1> QED BY <1>1, <1>4, <1>10, MulCancel

=============================================================================
