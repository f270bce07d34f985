---------------------------- MODULE ParliaProofs ----------------------------
(***************************************************************************)
(* Who may sign next, for every genesis set, every sequence of elected     *)
(* sets and every length of the epoch: the three places that decide it     *)
(* agree, any majority of the validators in force can go on, the maps of   *)
(* the snapshot have no gap, and Parlia implements the abstract window.    *)
(***************************************************************************)
EXTENDS Parlia, TLAPS, FiniteSetTheorems

-----------------------------------------------------------------------------
(***************************************************************************)
(* Sets of validators and their limits                                     *)
(***************************************************************************)

LEMMA LimitFacts ==
  ASSUME NEW vals \in SUBSET Addrs
  PROVE  /\ IsFiniteSet(vals) /\ Cardinality(vals) \in Nat
         /\ SnapshotLimit(vals) = Cardinality(vals) \div 2 + 1
         /\ SnapshotLimit(vals) \in Nat \ {0}
         /\ 2 * (SnapshotLimit(vals) - 1) <= Cardinality(vals)
<1>1. IsFiniteSet(vals)
  BY SnapshotAssumption, FS_Subset, Zenon
<1>2. Cardinality(vals) \in Nat
  BY <1>1, FS_CardinalityType
<1> DEFINE c == Cardinality(vals)
<1> HIDE DEF c
<1>3. c \in Nat
  BY <1>2 DEF c
<1>4. c \div 2 \in Nat /\ 2 * (c \div 2) <= c
  BY <1>3
<1>5. c \div 2 + 1 \in Nat \ {0} /\ c \div 2 + 1 - 1 = c \div 2
  BY <1>4
<1> QED
  BY <1>1, <1>2, <1>4, <1>5 DEF SnapshotLimit, c

\* A set whose members all occur among the values of f on K is no larger than K.
LEMMA ImageBound ==
  ASSUME NEW K, IsFiniteSet(K), NEW f, NEW S, \A v \in S : \E k \in K : v = f[k]
  PROVE  IsFiniteSet(S) /\ Cardinality(S) <= Cardinality(K)
<1> DEFINE T == {f[k] : k \in K}
           g == [k \in K |-> f[k]]
<1>1. g \in Surjection(K, T)
  BY DEF Surjection
<1>2. IsFiniteSet(T) /\ Cardinality(T) <= Cardinality(K)
  BY <1>1, FS_Surjection
<1>3. S \in SUBSET T
  OBVIOUS
<1>4. IsFiniteSet(S) /\ Cardinality(S) <= Cardinality(T)
  BY <1>2, <1>3, FS_Subset
<1>5. Cardinality(S) \in Nat /\ Cardinality(T) \in Nat /\ Cardinality(K) \in Nat
  BY <1>2, <1>4, FS_CardinalityType
<1> QED
  BY <1>2, <1>4, <1>5

-----------------------------------------------------------------------------
(***************************************************************************)
(* The inductive invariant                                                 *)
(***************************************************************************)

\* Recents holds blocks of the window of its own set only, one of them about to leave.
InWindow(s) ==
  /\ s.Number \in Nat /\ s.Validators \subseteq Addrs
  /\ \A k \in DOMAIN s.Recents : k \in 1 .. s.Number /\ k > s.Number - SnapshotLimit(s.Validators)

\* With the set unchanged, the snapshot has the entries of its parent's that still count.
Carried ==
  snap.Validators = parentSnap.Validators =>
    \A k \in DOMAIN parentSnap.Recents :
      k > snap.Number - SnapshotLimit(snap.Validators) =>
        k \in DOMAIN snap.Recents /\ snap.Recents[k] = parentSnap.Recents[k]

IInv ==
  /\ chain \in Seq(Range(chain))
  /\ \A k \in 1 .. Len(chain) : chain[k].extra \subseteq Addrs
  /\ snap.Number = Len(chain)
  /\ InWindow(snap) /\ InWindow(parentSnap) /\ Carried

LEMMA AppendIsSeq ==
  ASSUME NEW s, s \in Seq(Range(s)), NEW h
  PROVE  /\ Append(s, h) \in Seq(Range(Append(s, h)))
         /\ Len(Append(s, h)) = Len(s) + 1 /\ Len(s) \in Nat
         /\ Append(s, h)[Len(s) + 1] = h
         /\ \A k \in 1 .. Len(s) : Append(s, h)[k] = s[k]
<1> DEFINE S == Range(s) \cup {h}
           t == Append(s, h)
<1>1. s \in Seq(S) /\ h \in S
  OBVIOUS
<1> HIDE DEF S
<1>2. /\ t \in Seq(S) /\ Len(t) = Len(s) + 1 /\ Len(s) \in Nat /\ t[Len(s) + 1] = h
      /\ \A k \in 1 .. Len(s) : t[k] = s[k]
  BY <1>1
<1> HIDE DEF t
<1>3. t \in [1 .. Len(t) -> S] /\ Len(t) \in Nat
  BY <1>2
<1>4. t \in [1 .. Len(t) -> Range(t)]
  BY <1>3 DEF Range
<1>5. t \in Seq(Range(t))
  BY <1>3, <1>4
<1> QED
  BY <1>2, <1>5 DEF t

\* The rule of Seal and the rule of apply are the same one.
LEMMA SameRule ==
  ASSUME NEW s, InWindow(s), NEW v
  PROVE  MaySeal(s, v) <=> Applicable(s, v)
<1> DEFINE number == s.Number + 1
           limit == SnapshotLimit(s.Validators)
<1>1. s.Number \in Nat /\ limit \in Nat \ {0} /\ number \in Nat
  BY LimitFacts DEF InWindow
<1>2. \A k \in DOMAIN s.Recents : k \in 1 .. s.Number /\ k > s.Number - limit
  BY DEF InWindow
<1> HIDE DEF limit
<1>3. \A k \in DOMAIN s.Recents : (number < limit \/ k > number - limit) <=> k # number - limit
  BY <1>1, <1>2
<1>4. MustWait(s, v, number) <=> \E k \in DOMAIN s.Recents : s.Recents[k] = v /\ k # number - limit
  BY <1>3 DEF MustWait, limit
<1>5. v \in Range(Shifted(s, number)) <=>
        \E k \in DOMAIN s.Recents : s.Recents[k] = v /\ k # number - limit
  BY Zenon DEF Range, Shifted, Without, Restrict, limit
<1> QED
  BY <1>4, <1>5 DEF MaySeal, Applicable

\* A number between the ends of the old and of the new window, counted from the latter.
LEMMA CutIndex ==
  ASSUME NEW number \in Nat, NEW old \in Nat, NEW new \in Nat, NEW k \in Nat,
         number - old < k, k <= number - new
  PROVE  /\ (number - new) - k \in 0 .. old - new - 1
         /\ k = number - new - ((number - new) - k)
OBVIOUS

\* A remainder is at most the number it is the remainder of.
LEMMA ModBound ==
  ASSUME NEW n \in Nat, NEW m \in Nat \ {0}
  PROVE  n % m \in 0 .. n
<1>1. n % m \in 0 .. m - 1
  OBVIOUS
<1>2. CASE n < m
  <2>1. n % m = n
    BY <1>2
  <2> QED
    BY <2>1
<1>3. CASE m <= n
  BY <1>1, <1>3
<1> QED
  BY <1>2, <1>3

\* The set in force after the next header: the old one, or a list of some header.
LEMMA InForceType ==
  ASSUME NEW ch, NEW number \in Nat, NEW size \in Nat, Len(ch) = number,
         \A k \in 1 .. number : ch[k].extra \subseteq Addrs,
         number % Epoch = size \div 2
  PROVE  FindAncientHeader(ch, size \div 2) \subseteq Addrs
<1>1. number % Epoch \in 0 .. number
  BY ModBound, SnapshotAssumption
<1> DEFINE k == Len(ch) - size \div 2
<1>2. k = 0 \/ k \in 1 .. number
  BY <1>1
<1>3. FindAncientHeader(ch, size \div 2) = IF k = 0 THEN Genesis ELSE ch[k].extra
  BY DEF FindAncientHeader
<1> HIDE DEF k
<1> QED
  BY <1>2, <1>3, SnapshotAssumption, Zenon

\* apply keeps Recents within the window of the new set, and keeps what still counts.
LEMMA ApplyFacts ==
  ASSUME NEW s, InWindow(s), NEW ch, Len(ch) = s.Number + 1,
         \A k \in 1 .. s.Number + 1 : ch[k].extra \subseteq Addrs
  PROVE  /\ InWindow(apply(s, ch)) /\ apply(s, ch).Number = s.Number + 1
         /\ apply(s, ch).Validators = s.Validators =>
              \A k \in DOMAIN s.Recents :
                k > s.Number + 1 - SnapshotLimit(s.Validators) =>
                  /\ k \in DOMAIN apply(s, ch).Recents
                  /\ apply(s, ch).Recents[k] = s.Recents[k]
<1> DEFINE number  == s.Number + 1
           size    == Cardinality(s.Validators)
           recents == [k \in DOMAIN Shifted(s, number) \cup {number} |->
                         IF k = number THEN ch[number].signer ELSE s.Recents[k]]
           newVals == IF number % Epoch = size \div 2
                      THEN FindAncientHeader(ch, size \div 2) ELSE s.Validators
           old == SnapshotLimit(s.Validators)
           new == SnapshotLimit(newVals)
           D   == Dropped(number, old, new)
<1>1. /\ apply(s, ch).Number = number /\ apply(s, ch).Validators = newVals
      /\ apply(s, ch).Recents = Without(recents, D)
  BY DEF apply
<1>2. s.Number \in Nat /\ number \in Nat \ {0} /\ s.Validators \in SUBSET Addrs
  BY DEF InWindow
<1>3. size \in Nat /\ old \in Nat \ {0}
  BY <1>2, LimitFacts
<1>4. newVals \in SUBSET Addrs
  BY <1>2, <1>3, InForceType
<1> HIDE DEF newVals
<1>5. new \in Nat \ {0}
  BY <1>4, LimitFacts
<1>6. \A k \in DOMAIN s.Recents : k \in 1 .. s.Number /\ k > s.Number - old
  BY DEF InWindow
<1>7. DOMAIN Shifted(s, number) = DOMAIN s.Recents \ {number - old}
  BY DEF Shifted, Without, Restrict
<1> HIDE DEF old, new
<1>8. \A i : i \in D <=> \E j \in 0 .. old - new - 1 : i = number - new - j
  BY DEF Dropped
<1> HIDE DEF D
<1>9. /\ DOMAIN Without(recents, D) = DOMAIN recents \ D
      /\ \A k \in DOMAIN recents \ D : Without(recents, D)[k] = recents[k]
  BY DEF Without, Restrict
<1>10. ASSUME NEW k \in DOMAIN recents, k \notin D
       PROVE  k \in 1 .. number /\ k > number - new
  <2>1. CASE k = number
    BY <2>1, <1>2, <1>5
  <2>2. CASE k # number
    <3>1. k \in DOMAIN s.Recents /\ k # number - old
      BY <2>2, <1>7
    <3>2. k \in 1 .. s.Number /\ k > number - old
      <4>1. k \in 1 .. s.Number /\ k > s.Number - old
        BY <3>1, <1>6, Zenon
      <4> QED
        BY <4>1, <3>1, <1>2, <1>3
    <3>3. ASSUME k <= number - new PROVE FALSE
      <4>1. k \in Nat
        BY <3>2
      <4> HIDE DEF number, recents
      <4>2. number \in Nat /\ old \in Nat /\ new \in Nat
        BY <1>2, <1>3, <1>5, Zenon
      <4>3. number - old < k /\ k <= number - new
        BY <3>2, <3>3, Zenon
      <4>4. /\ (number - new) - k \in 0 .. old - new - 1
            /\ k = number - new - ((number - new) - k)
        BY <4>1, <4>2, <4>3, CutIndex
      <4> QED
        BY <4>4, <1>8, <1>10, Zenon
    <3> QED
      BY <3>2, <3>3, <1>2, <1>5
  <2> QED
    BY <2>1, <2>2
<1>11. InWindow(apply(s, ch))
  BY <1>1, <1>2, <1>4, <1>9, <1>10 DEF InWindow, new
<1>12. ASSUME newVals = s.Validators, NEW k \in DOMAIN s.Recents, k > number - old
       PROVE  k \in DOMAIN Without(recents, D) /\ Without(recents, D)[k] = s.Recents[k]
  <2>1. old = new
    BY <1>12 DEF old, new
  <2>2. k \notin D
    BY <2>1, <1>3, <1>5, <1>8
  <2>3. k \in 1 .. s.Number /\ k # number - old /\ k # number
    BY <1>2, <1>3, <1>6, <1>12
  <2> QED
    BY <2>2, <2>3, <1>7, <1>9, Zenon
<1> HIDE DEF recents
<1>13. ASSUME apply(s, ch).Validators = s.Validators, NEW k \in DOMAIN s.Recents,
              k > s.Number + 1 - SnapshotLimit(s.Validators)
       PROVE  k \in DOMAIN apply(s, ch).Recents /\ apply(s, ch).Recents[k] = s.Recents[k]
  <2>1. newVals = s.Validators
    BY <1>1, <1>13
  <2>2. old = SnapshotLimit(s.Validators)
    BY DEF old
  <2>3. k > number - old
    BY <1>2, <1>3, <1>6, <1>13, <2>2
  <2>4. k \in DOMAIN Without(recents, D) /\ Without(recents, D)[k] = s.Recents[k]
    BY <2>1, <2>3, <1>12
  <2> QED
    BY <2>4, <1>1
<1>14. InWindow(apply(s, ch)) /\ apply(s, ch).Number = s.Number + 1
  BY <1>1, <1>11
<1> QED
  BY <1>13, <1>14

-----------------------------------------------------------------------------
LEMMA InitIInv == Init => IInv
<1> SUFFICES ASSUME Init PROVE IInv
  OBVIOUS
<1>1. chain = << >> /\ snap = newSnapshot /\ parentSnap = newSnapshot
  BY DEF Init
<1>2. InWindow(newSnapshot)
  <2>1. newSnapshot.Number = 0 /\ newSnapshot.Validators = Genesis /\ newSnapshot.Recents = << >>
    BY DEF newSnapshot
  <2> QED
    BY <2>1, SnapshotAssumption DEF InWindow
<1>3. Carried
  BY <1>1 DEF Carried, newSnapshot
<1>4. chain \in Seq(Range(chain)) /\ Len(chain) = 0 /\ snap.Number = 0
  BY <1>1 DEF newSnapshot
<1> QED
  BY <1>1, <1>2, <1>3, <1>4 DEF IInv

LEMMA SealStep ==
  ASSUME IInv, NEW v \in Addrs, NEW list \in Lists, Seal(v, list)
  PROVE  IInv'
<1> DEFINE h == Prepare(snap, v, list)
<1>1. chain \in Seq(Range(chain)) /\ snap.Number = Len(chain) /\ InWindow(snap)
  BY DEF IInv
<1>2. MaySeal(snap, v) /\ chain' = Append(chain, h)
  BY DEF Seal
<1>3. Applicable(snap, v)
  BY <1>1, <1>2, SameRule
<1>4. snap' = apply(snap, chain') /\ parentSnap' = snap
  BY <1>3 DEF Seal
<1>5. list \subseteq Addrs
  BY ElectionAssumption DEF Lists
<1>6. h.extra \subseteq Addrs
  BY <1>5 DEF Prepare
<1> HIDE DEF h
<1>7. /\ chain' \in Seq(Range(chain')) /\ Len(chain') = Len(chain) + 1 /\ Len(chain) \in Nat
      /\ chain'[Len(chain) + 1] = h /\ \A k \in 1 .. Len(chain) : chain'[k] = chain[k]
  BY <1>1, <1>2, AppendIsSeq
<1>8. \A k \in 1 .. Len(chain) + 1 : chain'[k].extra \subseteq Addrs
  <2> TAKE k \in 1 .. Len(chain) + 1
  <2>1. CASE k = Len(chain) + 1
    BY <2>1, <1>6, <1>7
  <2>2. CASE k # Len(chain) + 1
    <3>1. k \in 1 .. Len(chain)
      BY <2>2, <1>7
    <3> QED
      BY <3>1, <1>7 DEF IInv
  <2> QED
    BY <2>1, <2>2
<1>9. /\ InWindow(snap') /\ snap'.Number = snap.Number + 1
      /\ snap'.Validators = snap.Validators =>
           \A k \in DOMAIN snap.Recents :
             k > snap.Number + 1 - SnapshotLimit(snap.Validators) =>
               k \in DOMAIN snap'.Recents /\ snap'.Recents[k] = snap.Recents[k]
  BY <1>1, <1>4, <1>7, <1>8, ApplyFacts
<1>10. ASSUME snap'.Validators = snap.Validators, NEW k \in DOMAIN snap.Recents,
              k > snap'.Number - SnapshotLimit(snap'.Validators)
       PROVE  k \in DOMAIN snap'.Recents /\ snap'.Recents[k] = snap.Recents[k]
  <2>1. SnapshotLimit(snap.Validators) \in Nat /\ snap.Number \in Nat /\ k \in 1 .. snap.Number
    BY <1>1, LimitFacts DEF InWindow
  <2>2. k > snap.Number + 1 - SnapshotLimit(snap.Validators)
    BY <2>1, <1>9, <1>10
  <2> QED
    BY <2>2, <1>9, <1>10
<1>11. Carried'
  BY <1>4, <1>10 DEF Carried
<1>12. InWindow(snap)' /\ InWindow(parentSnap)'
  BY <1>1, <1>4, <1>9 DEF InWindow
<1> QED
  BY <1>1, <1>7, <1>8, <1>9, <1>11, <1>12 DEF IInv

LEMMA InductiveInvariant == Spec => []IInv
<1>1. IInv /\ [Next]_vars => IInv'
  <2> SUFFICES ASSUME IInv, [Next]_vars PROVE IInv'
    OBVIOUS
  <2>1. CASE Next
    BY <2>1, SealStep DEF Next
  <2>2. CASE UNCHANGED vars
    BY <2>2 DEF vars, IInv, InWindow, Carried
  <2> QED
    BY <2>1, <2>2
<1> QED
  BY <1>1, InitIInv, PTL DEF Spec

-----------------------------------------------------------------------------
\* The rules of Seal, verifySeal and apply agree in every state, for all sets and epochs:
\* so apply never refuses a block that Seal made, and every node has a snapshot for the
\* head.
THEOREM RulesAlwaysAgree == Spec => []RulesAgree
<1>1. IInv => RulesAgree
  <2> SUFFICES ASSUME IInv, NEW v \in Addrs
               PROVE  LET verified == verifySeal(snap, Prepare(snap, v, {}))
                      IN  /\ MaySeal(snap, v) <=> Applicable(snap, v)
                          /\ MaySeal(snap, v) => verified
                          /\ verified => \/ MaySeal(snap, v)
                                         \/ snap.Number + 1 < SnapshotLimit(snap.Validators)
    BY DEF IInv, RulesAgree
  <2> DEFINE number == snap.Number + 1
             limit  == SnapshotLimit(snap.Validators)
             header == Prepare(snap, v, {})
             Waits  == \E k \in DOMAIN snap.Recents :
                         snap.Recents[k] = v /\ (number < limit \/ k > number - limit)
             Passes == \A k \in DOMAIN snap.Recents :
                         snap.Recents[k] = v => k <= MinusU64(number, limit)
  <2>1. InWindow(snap)
    BY DEF IInv
  <2>2. MaySeal(snap, v) <=> Applicable(snap, v)
    BY <2>1, SameRule
  <2>3. number \in Nat /\ limit \in Nat /\ \A k \in DOMAIN snap.Recents : k \in Nat
    BY <2>1, LimitFacts DEF InWindow
  <2>4. header.signer = v /\ header.difficulty = CalcDifficulty(snap, v)
    BY DEF Prepare
  <2>5. MaySeal(snap, v) <=> v \in snap.Validators /\ ~Waits
    BY DEF MaySeal, MustWait
  <2> HIDE DEF header
  <2>6. verifySeal(snap, header) <=> v \in snap.Validators /\ Passes
    BY <2>4 DEF verifySeal
  <2> HIDE DEF number, limit
  <2>7. ~Waits => Passes
    BY <2>3 DEF MinusU64
  <2>8. Passes => ~Waits \/ number < limit
    BY <2>3 DEF MinusU64
  <2> HIDE DEF Waits, Passes
  <2> QED
    BY <2>2, <2>5, <2>6, <2>7, <2>8 DEF header, number, limit
<1> QED
  BY <1>1, InductiveInvariant, PTL

\* At most half of the validators in force have to wait, however often the set changed: in
\* any majority of it somebody may seal the next block.
THEOREM MajorityAlwaysCanSeal == Spec => []MajorityCanSeal
<1>1. IInv => MajorityCanSeal
  <2> SUFFICES ASSUME IInv, NEW S \in SUBSET snap.Validators,
                      2 * Cardinality(S) > Cardinality(snap.Validators),
                      \A v \in S : ~MaySeal(snap, v)
               PROVE  FALSE
    BY DEF MajorityCanSeal
  <2> DEFINE number == snap.Number + 1
             limit  == SnapshotLimit(snap.Validators)
             K == {k \in DOMAIN snap.Recents : number < limit \/ k > number - limit}
             first == snap.Number - (limit - 2)
  <2>1. /\ snap.Number \in Nat /\ snap.Validators \in SUBSET Addrs
        /\ \A k \in DOMAIN snap.Recents : k \in 1 .. snap.Number
    BY DEF IInv, InWindow
  <2>2. /\ limit \in Nat \ {0} /\ Cardinality(snap.Validators) \in Nat
        /\ 2 * (limit - 1) <= Cardinality(snap.Validators)
    BY <2>1, LimitFacts
  <2>3. \A v \in S : \E k \in K : v = snap.Recents[k]
    BY DEF MaySeal, MustWait
  <2> HIDE DEF limit
  <2>4. first \in Int /\ K \in SUBSET (first .. snap.Number)
    BY <2>1, <2>2
  <2>5. IsFiniteSet(first .. snap.Number) /\ Cardinality(first .. snap.Number) = limit - 1
    <3>1. first \in Int /\ snap.Number \in Int
      BY <2>1, <2>4
    <3>2. /\ IsFiniteSet(first .. snap.Number)
          /\ Cardinality(first .. snap.Number) =
               IF first > snap.Number THEN 0 ELSE snap.Number - first + 1
      BY <3>1, FS_Interval
    <3>3. (IF first > snap.Number THEN 0 ELSE snap.Number - first + 1) = limit - 1
      BY <2>1, <2>2
    <3> QED
      BY <3>2, <3>3
  <2> HIDE DEF K, first
  <2>6. IsFiniteSet(K) /\ Cardinality(K) <= limit - 1
    BY <2>4, <2>5, FS_Subset, Zenon
  <2>7. IsFiniteSet(S) /\ Cardinality(S) <= Cardinality(K)
    BY <2>3, <2>6, ImageBound
  <2>8. Cardinality(S) \in Nat /\ Cardinality(K) \in Nat
    BY <2>6, <2>7, FS_CardinalityType
  <2> QED
    BY <2>2, <2>6, <2>7, <2>8
<1> QED
  BY <1>1, InductiveInvariant, PTL

\* SignRecently, on a snapshot one block old, holds a validator back wrongly only when the
\* last block has changed the set: for all sets and epochs.
THEOREM HeldBackRightly == Spec => []HeldBackOnlyAtChange
<1>1. IInv => HeldBackOnlyAtChange
  <2> SUFFICES ASSUME IInv, snap.Validators = parentSnap.Validators, NEW v \in Addrs,
                      SignRecently(v), MaySeal(snap, v)
               PROVE  FALSE
    BY DEF HeldBackOnlyAtChange
  <2> DEFINE number == snap.Number + 1
             limit  == SnapshotLimit(snap.Validators)
  <2>1. /\ snap.Number \in Nat /\ snap.Validators \in SUBSET Addrs
        /\ \A k \in DOMAIN parentSnap.Recents : k \in 1 .. parentSnap.Number
        /\ parentSnap.Number \in Nat
    BY DEF IInv, InWindow
  <2>2. limit \in Nat
    BY <2>1, LimitFacts
  <2>3. PICK k \in DOMAIN parentSnap.Recents :
          parentSnap.Recents[k] = v /\ (number < limit \/ k > number - limit)
    BY DEF SignRecently, MaySeal, MustWait
  <2>4. k > snap.Number - limit
    <3>1. k \in Nat
      BY <2>1, <2>3
    <3> HIDE DEF limit
    <3> QED
      BY <3>1, <2>1, <2>2, <2>3
  <2>5. k \in DOMAIN snap.Recents /\ snap.Recents[k] = v
    BY <2>3, <2>4 DEF IInv, Carried
  <2>6. MustWait(snap, v, number)
    BY <2>3, <2>5 DEF MustWait
  <2> QED
    BY <2>6 DEF MaySeal
<1> QED
  BY <1>1, InductiveInvariant, PTL

-----------------------------------------------------------------------------
(***************************************************************************)
(* The maps are the last blocks without a gap, and Parlia implements the   *)
(* abstract window                                                         *)
(***************************************************************************)

\* The map f holds val of the last n blocks up to number.
IsSuffix(f, n, number, val) ==
  n \in 0 .. number /\ f = [k \in number - n + 1 .. number |-> val[k]]

Signers    == [k \in 1 .. Len(chain) |-> chain[k].signer]
ForkHashes == [k \in 1 .. Len(chain) |-> chain[k].forkHash]

Size(f) == Cardinality(DOMAIN f)

\* Moreover, some set is in force because every epoch header has a list, and both maps
\* are suffixes within their limits.
JInv ==
  /\ IInv
  /\ snap.Validators # {}
  /\ \A k \in 1 .. Len(chain) : k % Epoch = 0 => chain[k].extra # {}
  /\ IsSuffix(snap.Recents, Size(snap.Recents), snap.Number, Signers)
  /\ Size(snap.Recents) <= SnapshotLimit(snap.Validators)
  /\ IsSuffix(snap.RecentForkHashes, Size(snap.RecentForkHashes), snap.Number, ForkHashes)
  /\ Size(snap.RecentForkHashes) <= Cardinality(snap.Validators)

LEMMA SuffixSize ==
  ASSUME NEW number \in Nat, NEW n, NEW f, NEW val, IsSuffix(f, n, number, val)
  PROVE  Size(f) = n
<1>1. n \in 0 .. number /\ DOMAIN f = number - n + 1 .. number
  BY DEF IsSuffix
<1> DEFINE a == number - n + 1
<1>2. a \in Int /\ Cardinality(a .. number) = IF a > number THEN 0 ELSE number - a + 1
  BY <1>1, FS_Interval
<1> QED
  BY <1>1, <1>2 DEF Size

\* What is left of the last n numbers when a window of L becomes one of M.
Kept(n, L, M) == Window!AtMost(Window!AtMost(n, L - 1) + 1, M)

LEMMA KeptFacts ==
  ASSUME NEW N \in Nat, NEW L \in Nat \ {0}, NEW M \in Nat \ {0}, NEW n \in 0 .. N, n <= L
  PROVE  /\ Kept(n, L, M) \in 1 .. N + 1 /\ Kept(n, L, M) <= M
         /\ (((N - n + 1 .. N) \ {(N + 1) - L}) \ Dropped(N + 1, L, M)) \cup {N + 1}
              = (N + 1) - Kept(n, L, M) + 1 .. N + 1
         /\ N + 1 \notin Dropped(N + 1, L, M)
<1> DEFINE m == Kept(n, L, M)
<1>1. m \in 1 .. N + 1 /\ m <= M /\ m <= n + 1 /\ m <= L /\ (m = M \/ m = n + 1 \/ m = L)
  BY DEF Kept, Window!AtMost
<1> HIDE DEF m
<1>2. \A k \in Int : k \in Dropped(N + 1, L, M) <=> k > N + 1 - L /\ k <= N + 1 - M
  <2> TAKE k \in Int
  <2>1. k \in Dropped(N + 1, L, M) <=> \E i \in 0 .. L - M - 1 : k = N + 1 - M - i
    BY DEF Dropped
  <2>2. ASSUME k > N + 1 - L, k <= N + 1 - M PROVE \E i \in 0 .. L - M - 1 : k = N + 1 - M - i
    <3>1. N + 1 - M - k \in 0 .. L - M - 1 /\ k = N + 1 - M - (N + 1 - M - k)
      BY <2>2
    <3> QED
      BY <3>1
  <2> QED
    BY <2>1, <2>2
<1>3. ASSUME NEW k
      PROVE  k \in (((N - n + 1 .. N) \ {(N + 1) - L}) \ Dropped(N + 1, L, M)) \cup {N + 1}
               <=> k \in (N + 1) - m + 1 .. N + 1
  <2>1. CASE k \in Int
    BY <2>1, <1>1, <1>2
  <2>2. CASE k \notin Int
    BY <2>2
  <2> QED
    BY <2>1, <2>2
<1>4. (((N - n + 1 .. N) \ {(N + 1) - L}) \ Dropped(N + 1, L, M)) \cup {N + 1}
        = (N + 1) - m + 1 .. N + 1
  BY <1>3
<1>5. N + 1 \notin Dropped(N + 1, L, M)
  BY <1>2
<1> QED
  BY <1>1, <1>4, <1>5 DEF m

\* A map of the last n blocks, with the one that leaves the window of L removed, those that
\* a window of M no longer covers removed, and the new block added, in either order.
LEMMA SuffixStep ==
  ASSUME NEW N \in Nat, NEW L \in Nat \ {0}, NEW M \in Nat \ {0}, NEW n \in Nat, n <= L,
         NEW f, NEW val, NEW val2, IsSuffix(f, n, N, val),
         \A k \in 1 .. N : val2[k] = val[k]
  PROVE  LET D == Dropped(N + 1, L, M)
             g == Without(f, {(N + 1) - L})
             a == [k \in DOMAIN g \cup {N + 1} |-> IF k = N + 1 THEN val2[N + 1] ELSE f[k]]
             e == Without(g, D)
             b == [k \in DOMAIN e \cup {N + 1} |-> IF k = N + 1 THEN val2[N + 1] ELSE e[k]]
         IN  /\ IsSuffix(Without(a, D), Kept(n, L, M), N + 1, val2)
             /\ IsSuffix(b, Kept(n, L, M), N + 1, val2)
<1> DEFINE D == Dropped(N + 1, L, M)
           m == Kept(n, L, M)
           g == Without(f, {(N + 1) - L})
           a == [k \in DOMAIN g \cup {N + 1} |-> IF k = N + 1 THEN val2[N + 1] ELSE f[k]]
           e == Without(g, D)
           b == [k \in DOMAIN e \cup {N + 1} |-> IF k = N + 1 THEN val2[N + 1] ELSE e[k]]
           R == (N + 1) - m + 1 .. N + 1
           r == [k \in R |-> val2[k]]
<1>1. n \in 0 .. N /\ DOMAIN f = N - n + 1 .. N /\ \A k \in N - n + 1 .. N : f[k] = val[k]
  BY DEF IsSuffix
<1>2. /\ m \in 1 .. N + 1 /\ N + 1 \notin D
      /\ (((N - n + 1 .. N) \ {(N + 1) - L}) \ D) \cup {N + 1} = R
  <2>1. n \in 0 .. N
    BY <1>1
  <2> HIDE <1>1
  <2>2. m \in 1 .. N + 1
    BY <2>1, KeptFacts, Zenon
  <2>3. N + 1 \notin D
    BY <2>1, KeptFacts, Zenon
  <2>4. (((N - n + 1 .. N) \ {(N + 1) - L}) \ D) \cup {N + 1} = R
    BY <2>1, KeptFacts, Zenon
  <2> QED
    BY <2>2, <2>3, <2>4
<1>3. \A k \in N - n + 1 .. N : k # N + 1 /\ f[k] = val2[k]
  BY <1>1
<1>4. DOMAIN g = (N - n + 1 .. N) \ {(N + 1) - L} /\ \A k \in DOMAIN g : g[k] = f[k]
  BY <1>1 DEF Without, Restrict
<1> HIDE DEF D, m, g, R
<1>5. DOMAIN e = DOMAIN g \ D /\ \A k \in DOMAIN e : e[k] = f[k]
  BY <1>4 DEF Without, Restrict
<1>6. b = r
  <2>1. DOMAIN e \cup {N + 1} = R
    BY <1>2, <1>4, <1>5
  <2>2. \A k \in R : (IF k = N + 1 THEN val2[N + 1] ELSE e[k]) = val2[k]
    BY <2>1, <1>3, <1>4, <1>5
  <2> HIDE DEF e
  <2> QED
    BY <2>1, <2>2
<1>7. Without(a, D) = r
  <2>1. (DOMAIN g \cup {N + 1}) \ D = R
    BY <1>2, <1>4
  <2>2. Without(a, D) = [k \in (DOMAIN g \cup {N + 1}) \ D |-> a[k]]
    BY DEF Without, Restrict
  <2>3. \A k \in R : a[k] = val2[k]
    BY <2>1, <1>3, <1>4
  <2> HIDE DEF a
  <2> QED
    BY <2>1, <2>2, <2>3
<1>8. m \in 0 .. N + 1
  BY <1>2
<1> QED
  BY <1>6, <1>7, <1>8, Zenon DEF IsSuffix, D, m, g, R

LEMMA ModAway ==
  ASSUME NEW n \in Nat, NEW m \in Nat \ {0}
  PROVE  (n - (n % m)) % m = 0
<1> DEFINE q == n \div m
           a == n - (n % m)
           p == a \div m
           r == a % m
<1>1. n \in Int /\ q \in Int /\ n = m * q + (n % m)
  OBVIOUS
<1>2. a \in Int /\ p \in Int /\ r \in 0 .. m - 1 /\ a = m * p + r
  OBVIOUS
<1>3. ASSUME NEW x \in Int, NEW y \in Int, NEW z \in 0 .. m - 1, m * x = m * y + z
      PROVE  z = 0
  <2>1. m * (x - y) = z
    BY <1>3
  <2>2. x - y <= 0 \/ x - y >= 1
    OBVIOUS
  <2>3. x - y >= 1 => m * (x - y) >= m
    OBVIOUS
  <2>4. x - y <= 0 => m * (x - y) <= 0
    OBVIOUS
  <2> QED
    BY <2>1, <2>2, <2>3, <2>4
<1>4. m * q = m * p + r
  BY <1>1, <1>2
<1> QED
  BY <1>1, <1>2, <1>3, <1>4, Zenon

\* The list is looked for in a header whose number is a multiple of Epoch.
LEMMA EpochHeader ==
  ASSUME NEW number \in Nat, NEW size \in Nat, number % Epoch = size \div 2
  PROVE  number - size \div 2 \in 0 .. number /\ (number - size \div 2) % Epoch = 0
<1>1. Epoch \in Nat \ {0}
  BY SnapshotAssumption
<1>2. number % Epoch \in 0 .. number
  BY <1>1, ModBound
<1>3. (number - (number % Epoch)) % Epoch = 0
  BY <1>1, ModAway
<1> QED
  BY <1>2, <1>3

LEMMA InitJInv == Init => JInv
<1> SUFFICES ASSUME Init PROVE JInv
  OBVIOUS
<1>1. IInv
  BY InitIInv
<1>2. /\ chain = << >> /\ snap.Number = 0 /\ snap.Validators = Genesis
      /\ snap.Recents = << >> /\ snap.RecentForkHashes = << >>
  BY DEF Init, newSnapshot
<1>3. ASSUME NEW val PROVE IsSuffix(<< >>, 0, 0, val)
  BY DEF IsSuffix
<1>4. Size(<< >>) = 0
  BY <1>3, SuffixSize
<1>5. /\ SnapshotLimit(Genesis) \in Nat \ {0} /\ Cardinality(Genesis) \in Nat
  BY SnapshotAssumption, LimitFacts
<1>6. Len(chain) = 0
  BY <1>2
<1>7. 0 <= SnapshotLimit(snap.Validators) /\ 0 <= Cardinality(snap.Validators)
  BY <1>2, <1>5
<1>8. /\ IsSuffix(snap.Recents, Size(snap.Recents), snap.Number, Signers)
      /\ IsSuffix(snap.RecentForkHashes, Size(snap.RecentForkHashes), snap.Number, ForkHashes)
  BY <1>2, <1>3, <1>4, Zenon
<1> QED
  BY <1>1, <1>2, <1>4, <1>6, <1>7, <1>8, SnapshotAssumption DEF JInv

\* One block: both maps go on as suffixes, and how long they are.
LEMMA SealKeeps ==
  ASSUME JInv, NEW v \in Addrs, NEW list \in Lists, Seal(v, list)
  PROVE  /\ JInv' /\ Len(chain) \in Nat /\ Len(chain') = Len(chain) + 1
         /\ chain'[Len(chain) + 1].signer = v
         /\ \A k \in 1 .. Len(chain) : chain'[k] = chain[k]
         /\ snap'.Validators \in SUBSET Addrs
         /\ Size(snap'.Recents) = Kept(Size(snap.Recents), SnapshotLimit(snap.Validators),
                                       SnapshotLimit(snap'.Validators))
<1> DEFINE h == Prepare(snap, v, list)
           N == Len(chain)
           size == Cardinality(snap.Validators)
           newVals == IF (N + 1) % Epoch = size \div 2
                      THEN FindAncientHeader(chain', size \div 2) ELSE snap.Validators
<1>1. /\ IInv /\ chain \in Seq(Range(chain)) /\ snap.Number = N
      /\ InWindow(snap) /\ snap.Validators \in SUBSET Addrs
  BY DEF JInv, IInv, InWindow
<1>2. MaySeal(snap, v) /\ chain' = Append(chain, h)
  BY DEF Seal
<1>3. Applicable(snap, v)
  BY <1>1, <1>2, SameRule
<1>4. snap' = apply(snap, chain')
  BY <1>3 DEF Seal
<1>5. /\ h.signer = v
      /\ (N + 1) % Epoch = 0 => h.extra # {}
  <2>1. (N + 1) % Epoch = 0 => list # {}
    BY ElectionAssumption DEF Lists
  <2> QED
    BY <2>1, <1>1 DEF Prepare
<1> HIDE DEF h
<1>6. /\ Len(chain') = N + 1 /\ N \in Nat /\ chain'[N + 1] = h
      /\ \A k \in 1 .. N : chain'[k] = chain[k]
  BY <1>1, <1>2, AppendIsSeq
<1>7. IInv'
  BY <1>1, SealStep
<1>8. \A k \in 1 .. N + 1 : k % Epoch = 0 => chain'[k].extra # {}
  <2> TAKE k \in 1 .. N + 1
  <2>1. CASE k = N + 1
    BY <2>1, <1>5, <1>6
  <2>2. CASE k # N + 1
    <3>1. k \in 1 .. N
      BY <2>2, <1>6
    <3> QED
      BY <3>1, <1>6 DEF JInv
  <2> QED
    BY <2>1, <2>2
<1>9. size \in Nat \ {0} /\ SnapshotLimit(snap.Validators) \in Nat \ {0}
  <2>1. snap.Validators # {}
    BY DEF JInv
  <2>2. IsFiniteSet(snap.Validators) /\ size \in Nat /\ SnapshotLimit(snap.Validators) \in Nat \ {0}
    BY <1>1, LimitFacts
  <2> QED
    BY <2>1, <2>2, FS_EmptySet
<1>10. newVals # {}
  <2>1. CASE (N + 1) % Epoch = size \div 2
    <3> DEFINE k == N + 1 - size \div 2
    <3>1. k \in 0 .. N + 1 /\ k % Epoch = 0
      BY <2>1, <1>6, <1>9, EpochHeader
    <3>2. Len(chain') - size \div 2 = k
      BY <1>6, <1>9
    <3>3. newVals = IF k = 0 THEN Genesis ELSE chain'[k].extra
      BY <2>1, <3>2 DEF FindAncientHeader
    <3> HIDE DEF k, newVals
    <3> QED
      BY <3>1, <3>3, <1>6, <1>8, SnapshotAssumption
  <2>2. CASE (N + 1) % Epoch # size \div 2
    BY <2>2 DEF JInv
  <2> QED
    BY <2>1, <2>2
<1> DEFINE L == SnapshotLimit(snap.Validators)
           M == SnapshotLimit(newVals)
           g == Shifted(snap, N + 1)
           a == [k \in DOMAIN g \cup {N + 1} |->
                   IF k = N + 1 THEN chain'[N + 1].signer ELSE snap.Recents[k]]
           e == Without(Without(snap.RecentForkHashes, {(N + 1) - size}),
                        Dropped(N + 1, size, Cardinality(newVals)))
           b == [k \in DOMAIN e \cup {N + 1} |->
                   IF k = N + 1 THEN chain'[N + 1].forkHash ELSE e[k]]
<1>11. /\ snap'.Number = N + 1 /\ snap'.Validators = newVals
       /\ snap'.Recents = Without(a, Dropped(N + 1, L, M))
       /\ snap'.RecentForkHashes = b
  <2> DEFINE w == Without(a, Dropped(N + 1, L, M))
  <2>1. N + 1 = snap.Number + 1
    BY <1>1
  <2>2. snap' = [Number |-> N + 1, Validators |-> newVals, Recents |-> w, RecentForkHashes |-> b]
    BY <2>1, <1>4, Zenon DEF apply
  <2> HIDE DEF newVals, w, b
  <2> QED
    BY <2>2 DEF w
<1> HIDE DEF newVals
<1>12. newVals \in SUBSET Addrs
  BY <1>7, <1>11 DEF IInv, InWindow
<1>13. M \in Nat \ {0} /\ Cardinality(newVals) \in Nat \ {0}
  <2>1. IsFiniteSet(newVals) /\ Cardinality(newVals) \in Nat /\ M \in Nat \ {0}
    BY <1>12, LimitFacts
  <2> QED
    BY <2>1, <1>10, FS_EmptySet
<1>14. /\ \A k \in 1 .. N : Signers'[k] = Signers[k] /\ ForkHashes'[k] = ForkHashes[k]
       /\ Signers'[N + 1] = chain'[N + 1].signer /\ ForkHashes'[N + 1] = chain'[N + 1].forkHash
  BY <1>6 DEF Signers, ForkHashes
<1>15. IsSuffix(snap'.Recents, Kept(Size(snap.Recents), L, M), N + 1, Signers')
  <2> DEFINE f == snap.Recents
             n == Size(f)
             G == Without(f, {(N + 1) - L})
             A == [k \in DOMAIN G \cup {N + 1} |-> IF k = N + 1 THEN Signers'[N + 1] ELSE f[k]]
  <2>1. IsSuffix(f, n, N, Signers) /\ n <= L
    BY <1>1 DEF JInv
  <2>2. n \in Nat
    BY <2>1 DEF IsSuffix
  <2>3. snap'.Recents = Without(A, Dropped(N + 1, L, M))
    <3>1. A = a
      <4>1. G = g
        BY DEF Shifted
      <4> HIDE DEF G, g
      <4> QED
        BY <4>1, <1>14
    <3> QED
      BY <3>1, <1>11, Zenon
  <2> HIDE DEF f, n, L, M
  <2>4. IsSuffix(Without(A, Dropped(N + 1, L, M)), Kept(n, L, M), N + 1, Signers')
    <3>1. L \in Nat \ {0} /\ M \in Nat \ {0}
      BY <1>9, <1>13 DEF L, M
    <3> QED
      BY <2>1, <2>2, <3>1, <1>6, <1>14, SuffixStep, Zenon
  <2> QED
    BY <2>3, <2>4 DEF n, f
<1>16. IsSuffix(snap'.RecentForkHashes, Kept(Size(snap.RecentForkHashes), size, Cardinality(newVals)),
                N + 1, ForkHashes')
  <2> DEFINE f == snap.RecentForkHashes
             n == Size(f)
             m == Cardinality(newVals)
             E == Without(Without(f, {(N + 1) - size}), Dropped(N + 1, size, m))
             B == [k \in DOMAIN E \cup {N + 1} |-> IF k = N + 1 THEN ForkHashes'[N + 1] ELSE E[k]]
  <2>1. IsSuffix(f, n, N, ForkHashes) /\ n <= size
    BY <1>1 DEF JInv
  <2>2. n \in Nat
    BY <2>1 DEF IsSuffix
  <2>3. snap'.RecentForkHashes = B
    BY <1>11, <1>14, Zenon
  <2> HIDE DEF f, n, size, m
  <2>4. IsSuffix(B, Kept(n, size, m), N + 1, ForkHashes')
    <3>1. size \in Nat \ {0} /\ m \in Nat \ {0}
      BY <1>9, <1>13 DEF size, m
    <3> QED
      BY <2>1, <2>2, <3>1, <1>6, <1>14, SuffixStep, Zenon
  <2> QED
    BY <2>3, <2>4 DEF n, f, m
<1>17. /\ Size(snap'.Recents) = Kept(Size(snap.Recents), L, M)
       /\ Size(snap'.RecentForkHashes) = Kept(Size(snap.RecentForkHashes), size, Cardinality(newVals))
  <2>1. N + 1 \in Nat
    BY <1>6
  <2> QED
    BY <2>1, <1>15, <1>16, SuffixSize, Zenon
<1>18. Kept(Size(snap.Recents), L, M) <= M
  <2>1. Size(snap.Recents) \in 0 .. N /\ Size(snap.Recents) <= L
    BY <1>1 DEF JInv, IsSuffix
  <2> HIDE DEF L, M
  <2> QED
    BY <2>1, <1>6, <1>9, <1>13, KeptFacts, Zenon DEF L, M
<1>19. Kept(Size(snap.RecentForkHashes), size, Cardinality(newVals)) <= Cardinality(newVals)
  <2>1. Size(snap.RecentForkHashes) \in 0 .. N /\ Size(snap.RecentForkHashes) <= size
    BY <1>1 DEF JInv, IsSuffix
  <2> QED
    BY <2>1, <1>6, <1>9, <1>13, KeptFacts, Zenon
<1>20. JInv'
  <2>1. /\ Size(snap'.Recents) <= SnapshotLimit(snap'.Validators)
        /\ Size(snap'.RecentForkHashes) <= Cardinality(snap'.Validators)
    BY <1>11, <1>17, <1>18, <1>19, Zenon
  <2>2. /\ IsSuffix(snap'.Recents, Size(snap'.Recents), snap'.Number, Signers')
        /\ IsSuffix(snap'.RecentForkHashes, Size(snap'.RecentForkHashes), snap'.Number, ForkHashes')
    BY <1>11, <1>15, <1>16, <1>17, Zenon
  <2>3. snap'.Validators # {} /\ \A k \in 1 .. Len(chain') : k % Epoch = 0 => chain'[k].extra # {}
    BY <1>6, <1>8, <1>10, <1>11, Zenon
  <2> QED
    BY <1>7, <2>1, <2>2, <2>3, Zenon DEF JInv, IsSuffix, Size
<1> QED
  BY <1>1, <1>5, <1>6, <1>11, <1>12, <1>17, <1>20, Zenon

LEMMA MapsInvariant == Spec => []JInv
<1>1. JInv /\ [Next]_vars => JInv'
  <2> SUFFICES ASSUME JInv, [Next]_vars PROVE JInv'
    OBVIOUS
  <2>1. CASE Next
    BY <2>1, SealKeeps DEF Next
  <2>2. CASE UNCHANGED vars
    <3>1. /\ chain' = chain /\ snap' = snap /\ parentSnap' = parentSnap
          /\ Signers' = Signers /\ ForkHashes' = ForkHashes
      BY <2>2 DEF vars, Signers, ForkHashes
    <3>2. IInv'
      BY <3>1 DEF JInv, IInv, InWindow, Carried
    <3> QED
      BY <3>1, <3>2 DEF JInv, IsSuffix, Size
  <2> QED
    BY <2>1, <2>2
<1> QED
  BY <1>1, InitJInv, PTL DEF Spec

\* However the set in force grows and shrinks, apply leaves no hole in Recents and
\* RecentForkHashes, and lets neither outgrow its limit.
THEOREM MapsAlwaysSuffixes == Spec => []MapsAreSuffixes
<1>1. JInv => MapsAreSuffixes
  <2> SUFFICES ASSUME JInv PROVE MapsAreSuffixes
    OBVIOUS
  <2>1. snap.Number = Len(chain) /\ Len(chain) \in Nat
    BY DEF JInv, IInv, InWindow
  <2>2. \A n \in 0 .. snap.Number : \A k \in snap.Number - n + 1 .. snap.Number :
          Signers[k] = chain[k].signer /\ ForkHashes[k] = chain[k].forkHash
    BY <2>1 DEF Signers, ForkHashes
  <2> DEFINE r == Size(snap.Recents)
             f == Size(snap.RecentForkHashes)
  <2>3. /\ r \in 0 .. snap.Number /\ r <= SnapshotLimit(snap.Validators)
        /\ f \in 0 .. snap.Number /\ f <= Cardinality(snap.Validators)
        /\ snap.Recents = [k \in snap.Number - r + 1 .. snap.Number |-> Signers[k]]
        /\ snap.RecentForkHashes = [k \in snap.Number - f + 1 .. snap.Number |-> ForkHashes[k]]
    BY DEF JInv, IsSuffix
  <2>4. /\ r = Cardinality(DOMAIN snap.Recents)
        /\ f = Cardinality(DOMAIN snap.RecentForkHashes)
    BY DEF Size
  <2> HIDE DEF r, f
  <2>5. snap.Recents = [k \in snap.Number - r + 1 .. snap.Number |-> chain[k].signer]
    BY <2>2, <2>3
  <2>6. snap.RecentForkHashes = [k \in snap.Number - f + 1 .. snap.Number |-> chain[k].forkHash]
    BY <2>2, <2>3
  <2> HIDE DEF r, f
  <2> QED
    BY <2>3, <2>4, <2>5, <2>6 DEF MapsAreSuffixes
<1> QED
  BY <1>1, MapsInvariant, PTL

-----------------------------------------------------------------------------
(***************************************************************************)
(* Refinement                                                              *)
(***************************************************************************)

\* The signers of a chain, as a sequence.
LEMMA SignersSeq ==
  ASSUME NEW ch, NEW T, ch \in Seq(T)
  PROVE  LET s == [k \in DOMAIN ch |-> ch[k].signer]
         IN  Len(s) = Len(ch) /\ DOMAIN s = 1 .. Len(ch) /\ s \in Seq(Range(s))
<1> DEFINE s == [k \in DOMAIN ch |-> ch[k].signer]
<1>1. DOMAIN ch = 1 .. Len(ch) /\ Len(ch) \in Nat
  OBVIOUS
<1>2. s \in [1 .. Len(ch) -> Range(s)]
  BY <1>1 DEF Range
<1> HIDE DEF s
<1>3. s \in Seq(Range(s)) /\ Len(s) = Len(ch) /\ DOMAIN s = 1 .. Len(ch)
  BY <1>1, <1>2
<1> QED
  BY <1>3 DEF s

\* The standard operators that the abstract module brings along are the ones used here.
LEMMA SameOperators ==
  ASSUME NEW S
  PROVE  (Window!IsFiniteSet(S) <=> IsFiniteSet(S)) /\ Window!Cardinality(S) = Cardinality(S)
<1>1. Window!IsFiniteSet(S) <=> IsFiniteSet(S)
  BY DEF Window!IsFiniteSet, IsFiniteSet
<1>2. Window!Cardinality(S) = Cardinality(S)
  BY Zenon DEF Window!Cardinality, Cardinality, Window!IsFiniteSet, IsFiniteSet
<1> QED
  BY <1>1, <1>2

LEMMA InitMaps == Init => Window!WindowInit
<1> SUFFICES ASSUME Init PROVE Window!WindowInit
  OBVIOUS
<1>1. chain = << >> /\ snap.Validators = Genesis /\ snap.Recents = << >>
  BY DEF Init, newSnapshot
<1>2. [k \in DOMAIN chain |-> chain[k].signer] = << >>
  BY <1>1
<1>3. Cardinality(DOMAIN snap.Recents) = 0
  BY <1>1, FS_EmptySet
<1>4. Genesis \in Window!Councils
  <2>1. IsFiniteSet(Genesis)
    BY SnapshotAssumption, LimitFacts
  <2> QED
    BY <2>1, SnapshotAssumption, SameOperators DEF Window!Councils
<1> QED
  BY <1>1, <1>2, <1>3, <1>4 DEF Window!WindowInit

LEMMA SealMaps ==
  ASSUME JInv, NEW v \in Addrs, NEW list \in Lists, Seal(v, list)
  PROVE  Window!WindowNext
<1> DEFINE N == Len(chain)
           r == Size(snap.Recents)
           c == Cardinality(snap.Validators)
           new == snap'.Validators
           signed == [k \in DOMAIN chain |-> chain[k].signer]
           signed2 == [k \in DOMAIN chain' |-> chain'[k].signer]
<1>1. /\ JInv' /\ N \in Nat /\ Len(chain') = N + 1 /\ chain'[N + 1].signer = v
      /\ \A k \in 1 .. N : chain'[k] = chain[k]
      /\ new \in SUBSET Addrs
      /\ Size(snap'.Recents) = Kept(r, SnapshotLimit(snap.Validators), SnapshotLimit(new))
  BY SealKeeps
<1>2. /\ snap.Number = N /\ snap.Validators \in SUBSET Addrs
      /\ r \in 0 .. N /\ \A k \in N - r + 1 .. N : k \in DOMAIN snap.Recents
      /\ \A k \in N - r + 1 .. N : snap.Recents[k] = chain[k].signer
      /\ chain \in Seq(Range(chain)) /\ chain' \in Seq(Range(chain'))
  <2>1. /\ snap.Number = N /\ snap.Validators \in SUBSET Addrs
        /\ chain \in Seq(Range(chain)) /\ chain' \in Seq(Range(chain'))
    BY <1>1 DEF JInv, IInv, InWindow
  <2>2. IsSuffix(snap.Recents, r, N, Signers)
    BY <2>1 DEF JInv
  <2> HIDE DEF r
  <2> QED
    BY <2>1, <2>2, <1>1 DEF IsSuffix, Signers
<1>3. c \in Nat /\ SnapshotLimit(snap.Validators) = c \div 2 + 1
  BY <1>2, LimitFacts
<1>4. new \in Window!Councils
  <2>1. new # {}
    BY <1>1 DEF JInv
  <2>2. IsFiniteSet(new)
    BY <1>1, LimitFacts
  <2> HIDE DEF new
  <2> QED
    BY <2>1, <2>2, <1>1, SameOperators DEF Window!Councils
<1>5. /\ Len(signed) = N /\ DOMAIN signed = 1 .. N /\ signed \in Seq(Range(signed))
      /\ DOMAIN signed2 = 1 .. N + 1
      /\ \A k \in 1 .. N : signed2[k] = signed[k]
      /\ signed2[N + 1] = v
  <2>1. Len(signed) = N /\ DOMAIN signed = 1 .. N /\ signed \in Seq(Range(signed))
    BY <1>2, SignersSeq
  <2>2. DOMAIN chain = 1 .. N /\ DOMAIN chain' = 1 .. N + 1
    BY <1>1, <1>2
  <2> QED
    BY <2>1, <2>2, <1>1
<1>6. signed2 = Append(signed, v)
  <2>1. /\ DOMAIN Append(signed, v) = 1 .. N + 1 /\ Append(signed, v)[N + 1] = v
        /\ \A k \in 1 .. N : Append(signed, v)[k] = signed[k]
    <3> HIDE DEF signed, N
    <3>1. /\ Append(signed, v) \in Seq(Range(Append(signed, v)))
          /\ Len(Append(signed, v)) = Len(signed) + 1
          /\ Append(signed, v)[Len(signed) + 1] = v
          /\ \A k \in 1 .. Len(signed) : Append(signed, v)[k] = signed[k]
      BY <1>5, AppendIsSeq
    <3> QED
      BY <3>1, <1>1, <1>5
  <2>2. \A k \in 1 .. N + 1 : k = N + 1 \/ k \in 1 .. N
    BY <1>1
  <2>3. /\ Append(signed, v) = [k \in 1 .. N + 1 |-> Append(signed, v)[k]]
        /\ signed2 = [k \in 1 .. N + 1 |-> signed2[k]]
    <3> DEFINE t == Append(signed, v)
    <3>1. t \in Seq(Range(t)) /\ DOMAIN t = 1 .. N + 1
      BY <2>1, <1>5, AppendIsSeq, Zenon
    <3> HIDE DEF t
    <3>2. t = [k \in 1 .. N + 1 |-> t[k]]
      BY <3>1
    <3>3. signed2 = [k \in 1 .. N + 1 |-> signed2[k]]
      BY <1>5
    <3> QED
      BY <3>2, <3>3 DEF t
  <2> HIDE DEF signed, signed2
  <2> QED
    BY <2>1, <2>2, <2>3, <1>5, Zenon
<1>7. Window!Memory \in 0 .. N /\ Window!Memory <= r /\ Window!Memory <= c \div 2
  <2>1. Window!Memory = Window!AtMost(r, c \div 2)
    BY SameOperators, Zenon DEF Window!Memory, Size
  <2> HIDE DEF N, r, c
  <2> QED
    BY <2>1, <1>1, <1>2, <1>3 DEF Window!AtMost
<1>8. v \notin Window!Blocked
  <2> SUFFICES ASSUME v \in Window!Blocked PROVE FALSE
    OBVIOUS
  <2>1. PICK k \in Len(signed) - Window!Memory + 1 .. Len(signed) : v = signed[k]
    BY DEF Window!Blocked
  <2>2. k \in N - r + 1 .. N /\ k \in 1 .. N /\ k > (N + 1) - (c \div 2 + 1)
    <3> HIDE DEF N, r, c, signed
    <3> QED
      BY <2>1, <1>1, <1>2, <1>3, <1>5, <1>7
  <2>3. k \in DOMAIN snap.Recents /\ snap.Recents[k] = v
    BY <2>1, <2>2, <1>2, <1>5
  <2>4. MustWait(snap, v, snap.Number + 1)
    BY <2>2, <2>3, <1>2, <1>3, Zenon DEF MustWait
  <2> QED
    BY <2>4 DEF Seal, MaySeal
<1>9. v \in snap.Validators
  BY DEF Seal, MaySeal
<1>10. Size(snap'.Recents) = Window!AtMost(Window!Memory + 1, Window!Limit(new))
  <2>1. (c \div 2 + 1) - 1 = c \div 2
    BY <1>3
  <2>2. Window!Limit(new) = SnapshotLimit(new) /\ Window!Memory = Window!AtMost(r, c \div 2)
    BY SameOperators, Zenon DEF Window!Limit, SnapshotLimit, Window!Memory, Size
  <2> QED
    BY <2>1, <2>2, <1>1, <1>3, Zenon DEF Kept
<1> QED
  BY <1>4, <1>6, <1>8, <1>9, <1>10, Zenon DEF Window!WindowNext, Window!Sign, Size

\* Parlia implements the abstract window: whoever Seal lets sign has signed none of the last
\* n/2 blocks that are remembered, and apply remembers one block more with every block, up
\* to the limit of the set that is in force then.
THEOREM ParliaImplementsWindow == Spec => ImplementsWindow
<1>1. JInv /\ [Next]_vars => [Window!WindowNext]_(Window!windowVars)
  <2> SUFFICES ASSUME JInv, [Next]_vars PROVE Window!WindowNext \/ UNCHANGED Window!windowVars
    OBVIOUS
  <2>1. CASE Next
    BY <2>1, SealMaps DEF Next
  <2>2. CASE UNCHANGED vars
    BY <2>2 DEF vars, Window!windowVars
  <2> QED
    BY <2>1, <2>2
<1> QED
  BY <1>1, InitMaps, MapsInvariant, PTL DEF Spec, ImplementsWindow, Window!WindowSpec

-----------------------------------------------------------------------------
(***************************************************************************)
(* The set in force is the elected one                                     *)
(***************************************************************************)

LEMMA ModUnique ==
  ASSUME NEW m \in Nat \ {0}, NEW x \in Int, NEW y \in Int,
         NEW r \in 0 .. m - 1, NEW s \in 0 .. m - 1, m * x + r = m * y + s
  PROVE  r = s
<1>1. m * (x - y) = s - r
  OBVIOUS
<1>2. x - y <= -1 \/ x - y = 0 \/ x - y >= 1
  OBVIOUS
<1>3. x - y >= 1 => m * (x - y) >= m
  OBVIOUS
<1>4. x - y <= -1 => m * (x - y) <= -m
  OBVIOUS
<1> QED
  BY <1>1, <1>2, <1>3, <1>4

LEMMA ModNext ==
  ASSUME NEW n \in Nat, NEW m \in Nat \ {0}
  PROVE  (n + 1) % m = IF n % m = m - 1 THEN 0 ELSE (n % m) + 1
<1> DEFINE q == n \div m
           r == n % m
           p == (n + 1) \div m
           s == (n + 1) % m
<1>1. q \in Int /\ r \in 0 .. m - 1 /\ n = m * q + r
  OBVIOUS
<1>2. p \in Int /\ s \in 0 .. m - 1 /\ n + 1 = m * p + s
  OBVIOUS
<1> HIDE DEF q, r, p, s
<1>3. CASE r = m - 1
  <2>1. m * (q + 1) + 0 = m * p + s
    BY <1>1, <1>2, <1>3
  <2>2. 0 \in 0 .. m - 1 /\ q + 1 \in Int
    BY <1>1
  <2>3. s = 0
    BY <2>1, <2>2, <1>2, ModUnique, Zenon
  <2> QED
    BY <2>3, <1>3 DEF r, s
<1>4. CASE r # m - 1
  <2>1. m * q + (r + 1) = m * p + s
    BY <1>1, <1>2
  <2>2. r + 1 \in 0 .. m - 1
    BY <1>1, <1>4
  <2>3. s = r + 1
    BY <2>1, <2>2, <1>1, <1>2, ModUnique
  <2> QED
    BY <2>3, <1>4 DEF r, s
<1> QED
  BY <1>3, <1>4

\* Every place in the order of the validators is taken by one of them.
LEMMA PlaceTaken ==
  ASSUME NEW vals \in SUBSET Addrs, NEW i \in 0 .. Cardinality(vals) - 1
  PROVE  \E v \in vals : indexOfVal(vals, v) = i
<1> DEFINE n == Cardinality(vals)
           below(v) == {w \in vals : w < v}
           place == [v \in vals |-> Cardinality(below(v))]
<1>1. IsFiniteSet(vals) /\ n \in Nat /\ vals \subseteq Nat
  BY LimitFacts, SnapshotAssumption
<1>2. \A v \in vals : IsFiniteSet(below(v)) /\ Cardinality(below(v)) \in Nat
  BY <1>1, FS_Subset, FS_CardinalityType
<1>3. ASSUME NEW v \in vals, NEW w \in vals, v < w
      PROVE  Cardinality(below(v)) < Cardinality(below(w))
  <2>1. below(v) \in SUBSET below(w) /\ below(v) # below(w)
    <3>1. \A a \in vals : a < v => a < w
      BY <1>1, <1>3
    <3>2. v \in below(w) /\ v \notin below(v)
      BY <1>1, <1>3
    <3>3. below(v) \in SUBSET below(w)
      BY <3>1
    <3> HIDE DEF below
    <3> QED
      BY <3>2, <3>3
  <2>2. Cardinality(below(v)) <= Cardinality(below(w)) /\ Cardinality(below(w)) # Cardinality(below(v))
    BY <2>1, <1>2, FS_Subset
  <2> HIDE DEF below
  <2> QED
    BY <2>2, <1>2
<1>4. ASSUME NEW v \in vals PROVE Cardinality(below(v)) \in 0 .. n - 1
  <2>1. below(v) \in SUBSET vals /\ v \notin below(v)
    BY <1>1
  <2>2. Cardinality(below(v)) <= n /\ n # Cardinality(below(v))
    BY <2>1, <1>1, FS_Subset
  <2> HIDE DEF below, n
  <2> QED
    BY <2>2, <1>1, <1>2
<1>5. place \in Injection(vals, 0 .. n - 1)
  <2>1. place \in [vals -> 0 .. n - 1]
    BY <1>4
  <2>2. ASSUME NEW v \in vals, NEW w \in vals, place[v] = place[w] PROVE v = w
    <3>1. v < w \/ w < v \/ v = w
      BY <1>1
    <3>2. Cardinality(below(v)) = Cardinality(below(w))
      BY <2>2
    <3> HIDE DEF below
    <3> QED
      BY <3>1, <3>2, <1>2, <1>3
  <2> QED
    BY <2>1, <2>2, Zenon DEF Injection, IsInjective
<1>6. IsFiniteSet(0 .. n - 1) /\ Cardinality(0 .. n - 1) = n
  BY <1>1, FS_Interval
<1>7. place \in Surjection(vals, 0 .. n - 1)
  BY <1>5, <1>6, FS_Injection
<1>8. PICK v \in vals : place[v] = i
  BY <1>7, Zenon DEF Surjection
<1> QED
  BY <1>8 DEF indexOfVal

\* Whose turn it is: always one of the validators in force.
LEMMA InTurnIsValidator ==
  ASSUME NEW s, s.Number \in Nat, s.Validators \in (SUBSET Addrs) \ {{}}
  PROVE  supposeValidator(s) \in s.Validators
<1> DEFINE vals == s.Validators
           n == Cardinality(vals)
<1>1. IsFiniteSet(vals) /\ n \in Nat \ {0}
  BY LimitFacts, FS_EmptySet
<1>2. Offset(s) \in 0 .. n - 1
  <2>1. \A a \in Nat, b \in Nat \ {0} : (a + 1) % b \in 0 .. b - 1
    OBVIOUS
  <2> QED
    BY <2>1, <1>1 DEF Offset
<1>3. \E v \in vals : indexOfVal(vals, v) = Offset(s)
  BY <1>2, PlaceTaken
<1> QED
  BY <1>3 DEF supposeValidator

\* The inductive invariant for SnapshotRight: an entry of a map is an address because the
\* header it comes from has one, and the set in force is the elected one.
KInv ==
  /\ JInv
  /\ chain \in Seq(Header) /\ SnapshotRec(parentSnap)
  /\ InForceIsElected

LEMMA SnapTyped ==
  ASSUME JInv, chain \in Seq(Header)
  PROVE  SnapshotRec(snap)
<1>1. /\ snap.Number = Len(chain) /\ Len(chain) \in Nat
      /\ snap.Validators \in (SUBSET Addrs) \ {{}}
  BY DEF JInv, IInv, InWindow
<1> DEFINE r == Size(snap.Recents)
           f == Size(snap.RecentForkHashes)
<1>2. /\ r \in 0 .. Len(chain) /\ f \in 0 .. Len(chain)
      /\ snap.Recents = [k \in Len(chain) - r + 1 .. Len(chain) |-> Signers[k]]
      /\ snap.RecentForkHashes = [k \in Len(chain) - f + 1 .. Len(chain) |-> ForkHashes[k]]
  BY <1>1 DEF JInv, IsSuffix
<1>3. \A k \in 1 .. Len(chain) : Signers[k] \in Addrs
  <2>1. \A k \in 1 .. Len(chain) : chain[k] \in Header
    OBVIOUS
  <2>2. \A h \in Header : h.signer \in Addrs
    BY DEF Header
  <2> QED
    BY <2>1, <2>2 DEF Signers
<1> HIDE DEF r, f
<1>4. /\ Len(chain) - r + 1 .. Len(chain) \subseteq 1 .. Len(chain)
      /\ Len(chain) - f + 1 .. Len(chain) \subseteq 1 .. Len(chain)
  BY <1>1, <1>2
<1> QED
  BY <1>1, <1>2, <1>3, <1>4, Zenon DEF SnapshotRec

LEMMA PreparedHeader ==
  ASSUME NEW s, SnapshotRec(s), NEW v \in Addrs, NEW list \in SUBSET Addrs
  PROVE  Prepare(s, v, list) \in Header
<1>1. supposeValidator(s) \in Addrs
  BY InTurnIsValidator DEF SnapshotRec
<1>2. SpoiledVals(s, v) \in SUBSET Addrs
  BY <1>1 DEF SpoiledVals
<1>3. ForkHash[v] \in Range(ForkHash)
  BY SnapshotAssumption DEF Range
<1>4. CalcDifficulty(s, v) \in {diffInTurn, diffNoTurn}
  BY DEF CalcDifficulty
<1> QED
  BY <1>2, <1>3, <1>4 DEF Prepare, Header

\* The number of the last epoch header, half of a set, and the list in force n blocks after
\* genesis when the last two epoch headers have prev and last.
Start(n) == n - (n % Epoch)
Half(vals) == Cardinality(vals) \div 2
InForce(n, prev, last) == IF n % Epoch >= Half(prev) THEN last ELSE prev

\* One more header.  The epoch is longer than half of any set, so a list is in force before
\* the next one comes.
LEMMA ElectedStep ==
  ASSUME NEW N \in Nat, NEW prev \in SUBSET Addrs, NEW last \in SUBSET Addrs
  PROVE  /\ (N + 1) % Epoch = 0 => InForce(N, prev, last) = last /\ Start(N) = (N + 1) - Epoch
         /\ (N + 1) % Epoch # 0 =>
              /\ Start(N + 1) = Start(N)
              /\ (N + 1) % Epoch = Half(InForce(N, prev, last)) =>
                   /\ (N + 1) - Half(InForce(N, prev, last)) = Start(N)
                   /\ InForce(N + 1, prev, last) = last
              /\ (N + 1) % Epoch # Half(InForce(N, prev, last)) =>
                   InForce(N + 1, prev, last) = InForce(N, prev, last)
<1> DEFINE r == N % Epoch
           t == (N + 1) % Epoch
           h == Half(prev)
<1>1. Epoch \in Nat \ {0} /\ Cardinality(Addrs) \div 2 < Epoch
  BY SnapshotAssumption, EpochAssumption
<1>2. r \in 0 .. Epoch - 1
  BY <1>1
<1>3. t = IF r = Epoch - 1 THEN 0 ELSE r + 1
  BY <1>1, ModNext, Zenon
<1>4. h \in Nat /\ h < Epoch
  <2> DEFINE x == Cardinality(prev)
             y == Cardinality(Addrs)
  <2>1. x \in Nat /\ y \in Nat /\ x <= y
    BY SnapshotAssumption, FS_Subset, FS_CardinalityType, Zenon
  <2> HIDE DEF x, y
  <2>2. x \div 2 \in Nat /\ x \div 2 < Epoch
    BY <2>1, <1>1 DEF y
  <2> QED
    BY <2>2 DEF Half, x
<1>5. Start(N) = N - r /\ Start(N + 1) = (N + 1) - t
  BY Zenon DEF Start
<1>6. /\ InForce(N, prev, last) = IF r >= h THEN last ELSE prev
      /\ InForce(N + 1, prev, last) = IF t >= h THEN last ELSE prev
  BY DEF InForce
<1> HIDE DEF r, t, h
<1>7. CASE r = Epoch - 1
  <2>1. r >= h /\ t = 0 /\ N - r = (N + 1) - Epoch
    BY <1>1, <1>3, <1>4, <1>7
  <2> QED
    BY <2>1, <1>5, <1>6 DEF t
<1>8. CASE r # Epoch - 1
  <2>1. t = r + 1 /\ t # 0 /\ (N + 1) - t = N - r
    BY <1>2, <1>3, <1>8
  <2>2. CASE r >= h
    <3>1. t >= h
      BY <2>1, <2>2, <1>2, <1>4
    <3>2. InForce(N, prev, last) = last /\ InForce(N + 1, prev, last) = last
      BY <2>2, <3>1, <1>6
    <3> QED
      BY <2>1, <3>2, <1>5 DEF t
  <2>3. CASE ~(r >= h)
    <3>1. t >= h <=> t = h
      BY <2>1, <2>3, <1>2, <1>4
    <3>2. InForce(N, prev, last) = prev /\ InForce(N + 1, prev, last) = IF t = h THEN last ELSE prev
      BY <2>3, <3>1, <1>6
    <3>3. h = Half(InForce(N, prev, last))
      BY <3>2 DEF h
    <3> QED
      BY <2>1, <3>2, <3>3, <1>5 DEF t
  <2> QED
    BY <2>2, <2>3
<1> QED
  BY <1>7, <1>8

LEMMA InitKInv == Init => KInv
<1> SUFFICES ASSUME Init PROVE KInv
  OBVIOUS
<1>1. JInv
  BY InitJInv
<1>2. /\ chain = << >> /\ snap.Number = 0 /\ snap.Validators = Genesis
      /\ parentSnap.Number = 0 /\ parentSnap.Validators = Genesis
      /\ parentSnap.Recents = << >> /\ parentSnap.RecentForkHashes = << >>
  BY DEF Init, newSnapshot
<1>3. chain \in Seq(Header)
  BY <1>2
<1>4. SnapshotRec(parentSnap)
  <2>1. DOMAIN parentSnap.Recents = {} /\ DOMAIN parentSnap.RecentForkHashes = {}
    BY <1>2
  <2>2. Genesis \in SUBSET Addrs /\ Genesis # {}
    BY SnapshotAssumption
  <2>3. parentSnap.Validators \in (SUBSET Addrs) \ {{}}
    BY <2>2, <1>2, Zenon
  <2>4. parentSnap.Number \in Nat
    BY <1>2
  <2> QED
    BY <2>1, <2>3, <2>4, Zenon DEF SnapshotRec
<1>5. InForceIsElected
  <2>1. 0 % Epoch = 0 /\ 0 - 0 = 0 /\ 0 - Epoch <= 0 /\ 0 <= 0
    BY SnapshotAssumption
  <2>2. ListOf(0) = Genesis /\ ListOf(0 - Epoch) = Genesis
    BY <2>1 DEF ListOf
  <2> QED
    BY <1>2, <2>1, <2>2 DEF InForceIsElected
<1> QED
  BY <1>1, <1>3, <1>4, <1>5 DEF KInv

LEMMA SealElects ==
  ASSUME KInv, NEW v \in Addrs, NEW list \in Lists, Seal(v, list)
  PROVE  KInv' /\ SnapshotRec(snap) /\ chain' = Append(chain, Prepare(snap, v, list))
<1> DEFINE N == Len(chain)
           size == Cardinality(snap.Validators)
<1>1. JInv /\ chain \in Seq(Header) /\ InForceIsElected
  BY DEF KInv
<1>2. /\ JInv' /\ N \in Nat /\ Len(chain') = N + 1
      /\ \A k \in 1 .. N : chain'[k] = chain[k]
      /\ snap'.Validators \in SUBSET Addrs
  BY <1>1, SealKeeps
<1>3. /\ SnapshotRec(snap) /\ snap.Number = N /\ InWindow(snap)
      /\ snap.Validators \in SUBSET Addrs /\ size \in Nat
  <2>1. SnapshotRec(snap) /\ snap.Number = N /\ InWindow(snap) /\ snap.Validators \in SUBSET Addrs
    BY <1>1, SnapTyped DEF JInv, IInv, InWindow
  <2> QED
    BY <2>1, LimitFacts
<1>4. chain' = Append(chain, Prepare(snap, v, list)) /\ snap' = apply(snap, chain') /\ parentSnap' = snap
  <2>1. Applicable(snap, v)
    BY <1>3, SameRule DEF Seal
  <2> QED
    BY <2>1 DEF Seal
<1>5. chain' \in Seq(Header)
  <2>1. list \in SUBSET Addrs
    BY ElectionAssumption DEF Lists
  <2>2. Prepare(snap, v, list) \in Header
    BY <2>1, <1>3, PreparedHeader
  <2> HIDE DEF Header, Prepare
  <2> QED
    BY <2>2, <1>1, <1>4
<1>6. SnapshotRec(parentSnap)'
  BY <1>3, <1>4 DEF SnapshotRec
<1>7. InForceIsElected'
  <2> DEFINE M == N + 1
             vals == snap.Validators
             prev == ListOf(Start(N) - Epoch)
             last == ListOf(Start(N))
             at(k) == IF k <= 0 THEN Genesis ELSE chain'[k].extra
  <2>1. /\ Epoch \in Nat \ {0} /\ M \in Nat /\ M > N
        /\ Start(N) \in 0 .. N /\ M % Epoch \in 0 .. M /\ Half(vals) \in Nat
    <3>1. N % Epoch \in 0 .. N /\ M % Epoch \in 0 .. M
      <4>1. N \in Nat /\ M \in Nat /\ Epoch \in Nat \ {0}
        BY <1>2, SnapshotAssumption
      <4> HIDE DEF N, M
      <4> QED
        BY <4>1, ModBound
    <3>2. Half(vals) \in Nat
      BY <1>3 DEF Half
    <3>3. N - (N % Epoch) \in 0 .. N
      BY <3>1, <1>2
    <3> QED
      BY <3>1, <3>2, <3>3, <1>2, SnapshotAssumption DEF Start
  <2>2. \A k \in Int : k <= N => at(k) = ListOf(k)
    BY <1>2 DEF ListOf
  <2>3. vals = InForce(N, prev, last)
    BY <1>1, <1>3, Zenon DEF InForceIsElected, InForce, Half, Start
  <2>4. prev \in SUBSET Addrs /\ last \in SUBSET Addrs
    <3>1. \A k \in Int : k <= N => ListOf(k) \in SUBSET Addrs
      BY <1>1, SnapshotAssumption DEF ListOf, JInv, IInv
    <3>2. Start(N) \in Int /\ Start(N) <= N /\ Start(N) - Epoch \in Int /\ Start(N) - Epoch <= N
      BY <2>1, <1>2
    <3> QED
      BY <3>1, <3>2
  <2>5. Len(chain') = M /\ snap.Number + 1 = M /\ N \in Nat /\ size \div 2 = Half(vals)
    BY <1>2, <1>3 DEF Half
  <2>6. /\ M % Epoch = 0 => vals = last /\ Start(N) = M - Epoch
        /\ M % Epoch # 0 =>
             /\ Start(M) = Start(N)
             /\ M % Epoch = Half(vals) => M - Half(vals) = Start(N) /\ InForce(M, prev, last) = last
             /\ M % Epoch # Half(vals) => InForce(M, prev, last) = vals
    <3> DEFINE w == InForce(N, prev, last)
    <3> HIDE DEF prev, last, vals, N
    <3>1. /\ M % Epoch = 0 => w = last /\ Start(N) = M - Epoch
          /\ M % Epoch # 0 =>
               /\ Start(M) = Start(N)
               /\ M % Epoch = Half(w) => M - Half(w) = Start(N) /\ InForce(M, prev, last) = last
               /\ M % Epoch # Half(w) => InForce(M, prev, last) = w
      BY <2>4, <2>5, ElectedStep, Zenon
    <3> QED
      BY <2>3, <3>1, Zenon
  <2> HIDE DEF M, N
  <2>7. snap'.Number = M /\
        snap'.Validators = IF M % Epoch = Half(vals) THEN FindAncientHeader(chain', Half(vals)) ELSE vals
    BY <2>5, <1>4, Zenon DEF apply
  <2>8. M % Epoch = Half(vals) => FindAncientHeader(chain', Half(vals)) = at(M - Half(vals))
    <3> SUFFICES ASSUME M % Epoch = Half(vals)
                 PROVE  FindAncientHeader(chain', Half(vals)) = at(M - Half(vals))
      OBVIOUS
    <3>1. FindAncientHeader(chain', Half(vals)) =
            IF M - Half(vals) = 0 THEN Genesis ELSE chain'[M - Half(vals)].extra
      BY <2>5, Zenon DEF FindAncientHeader
    <3>2. M - Half(vals) = 0 <=> M - Half(vals) <= 0
      BY <2>1
    <3> QED
      BY <3>1, <3>2, Zenon
  <2>9. Start(M) = M - (M % Epoch)
    BY DEF Start
  <2>10. snap'.Validators = InForce(M, at(Start(M) - Epoch), at(Start(M)))
    <3>1. CASE M % Epoch = 0
      <4>1. vals = last /\ Start(N) = M - Epoch /\ Start(M) = M /\ Start(M) - Epoch = Start(N)
        BY <3>1, <2>1, <2>6, <2>9
      <4>2. Start(N) \in Int /\ Start(N) <= N
        BY <2>1, <2>5
      <4>3. at(Start(M) - Epoch) = vals
        BY <4>1, <4>2, <2>2
      <4>4. InForce(M, vals, at(M)) = IF M % Epoch >= Half(vals) THEN at(M) ELSE vals
        BY DEF InForce
      <4>5. (M % Epoch >= Half(vals) <=> M % Epoch = Half(vals)) /\ (M % Epoch = Half(vals) => M - Half(vals) = M)
        BY <3>1, <2>1
      <4> HIDE DEF at
      <4> QED
        BY <4>1, <4>3, <4>4, <4>5, <2>7, <2>8
    <3>2. CASE M % Epoch # 0
      <4>1. /\ Start(N) \in Int /\ Start(N) <= N
            /\ Start(N) - Epoch \in Int /\ Start(N) - Epoch <= N
        BY <2>1, <2>5
      <4>2. at(Start(M)) = last /\ at(Start(M) - Epoch) = prev
        BY <4>1, <3>2, <2>2, <2>6
      <4> HIDE DEF at, prev, last
      <4>3. M % Epoch = Half(vals) => at(M - Half(vals)) = last
        BY <3>2, <4>2, <2>6
      <4> QED
        BY <4>2, <4>3, <3>2, <2>6, <2>7, <2>8
    <3> QED
      BY <3>1, <3>2
  <2> QED
    BY <2>7, <2>10, Zenon DEF InForceIsElected, ListOf, InForce, Start, Half
<1> QED
  BY <1>2, <1>3, <1>4, <1>5, <1>6, <1>7 DEF KInv

LEMMA ElectedInvariant == Spec => []KInv
<1>1. KInv /\ [Next]_vars => KInv'
  <2> SUFFICES ASSUME KInv, [Next]_vars PROVE KInv'
    OBVIOUS
  <2>1. CASE Next
    BY <2>1, SealElects DEF Next
  <2>2. CASE UNCHANGED vars
    <3>1. /\ chain' = chain /\ snap' = snap /\ parentSnap' = parentSnap
          /\ Signers' = Signers /\ ForkHashes' = ForkHashes
      BY <2>2 DEF vars, Signers, ForkHashes
    <3>2. IInv'
      BY <3>1 DEF KInv, JInv, IInv, InWindow, Carried
    <3>3. JInv'
      BY <3>1, <3>2 DEF KInv, JInv, IsSuffix, Size
    <3> QED
      BY <3>1, <3>3 DEF KInv, SnapshotRec, InForceIsElected, ListOf
  <2> QED
    BY <2>1, <2>2
<1> QED
  BY <1>1, InitKInv, PTL DEF Spec

\* What apply makes of the snapshot, block by block, is what the headers say: the set in
\* force is the list of the last epoch header that half of its predecessors have signed on
\* top of, also when the sets differ in size, and the maps are the last blocks.
THEOREM SnapshotAlwaysRight == Spec => []SnapshotRight
<1>1. KInv => TypeOK /\ InForceIsElected
  BY SnapTyped DEF KInv, TypeOK
<1> QED
  BY <1>1, ElectedInvariant, MapsAlwaysSuffixes, PTL DEF SnapshotRight

\* FinalizeAndAssemble slashes nobody but a validator that was free to seal the block and
\* left it to another one.
THEOREM OnlyIdlersSlashed == Spec => SlashesOnlyIdlers
<1>1. KInv /\ [Next]_vars =>
        [\A v \in chain'[Len(chain')].slashed :
           MaySeal(snap, v) /\ v # chain'[Len(chain')].signer]_chain
  <2> SUFFICES ASSUME KInv, Next, NEW w \in chain'[Len(chain')].slashed
               PROVE  MaySeal(snap, w) /\ w # chain'[Len(chain')].signer
    BY DEF vars
  <2>1. PICK v \in Addrs, list \in Lists : Seal(v, list)
    BY DEF Next
  <2> DEFINE h == Prepare(snap, v, list)
  <2>2. SnapshotRec(snap) /\ chain \in Seq(Range(chain)) /\ chain' = Append(chain, h)
    BY <2>1, SealElects DEF KInv, JInv, IInv
  <2>3. chain'[Len(chain')] = h
    <3> HIDE DEF h
    <3> QED
      BY <2>2, AppendIsSeq
  <2>4. h.signer = v /\ h.slashed = SpoiledVals(snap, v)
    BY DEF Prepare
  <2>5. w = supposeValidator(snap) /\ CalcDifficulty(snap, v) # diffInTurn /\ w \notin Range(snap.Recents)
    BY <2>3, <2>4 DEF SpoiledVals
  <2>6. w \in snap.Validators
    BY <2>2, <2>5, InTurnIsValidator DEF SnapshotRec
  <2>7. w # v
    BY <2>5, <2>6 DEF CalcDifficulty, inturn
  <2>8. ~MustWait(snap, w, snap.Number + 1)
    BY <2>5 DEF MustWait, Range
  <2> QED
    BY <2>3, <2>4, <2>6, <2>7, <2>8 DEF MaySeal
<1> QED
  BY <1>1, ElectedInvariant, PTL DEF Spec, SlashesOnlyIdlers

=============================================================================
