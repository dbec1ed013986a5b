--------------------------- MODULE SelectionProofs --------------------------
(***************************************************************************)
(* Lemmas about lists and what they keep of themselves at some places, for *)
(* any list and any places: the proofs of several modules rest on them.    *)
(* No number of places is special, so they count: the k-th place exists    *)
(* because the places up to i are one more than those up to i - 1, or as   *)
(* many.                                                                   *)
(***************************************************************************)
EXTENDS Selection, Sequences, SequencesExt, FiniteSetTheorems, WellFoundedInduction,
        TLAPS

UpTo(S, i) == {j \in S : j <= i}

LEMMA UpToIs ==
    ASSUME NEW n \in Nat, NEW S \in SUBSET (1 .. n)
    PROVE  /\ IsFiniteSet(S) /\ Cardinality(S) \in Nat
           /\ \A i \in 0 .. n : /\ IsFiniteSet(UpTo(S, i)) /\ Cardinality(UpTo(S, i)) \in Nat
                                /\ Cardinality(UpTo(S, i)) <= Cardinality(S)
           /\ \A i \in S : \A j \in 0 .. n :
                 j < i => Cardinality(UpTo(S, j)) < Cardinality(UpTo(S, i))
<1>1. IsFiniteSet(1 .. n)
  BY FS_Interval
<1>2. IsFiniteSet(S)
  BY <1>1, FS_Subset
<1>3. ASSUME NEW T \in SUBSET S
      PROVE  IsFiniteSet(T) /\ Cardinality(T) \in Nat /\ Cardinality(T) <= Cardinality(S)
  BY <1>2, FS_Subset, FS_CardinalityType
<1>4. Cardinality(S) \in Nat
  BY <1>2, FS_CardinalityType
<1>5. ASSUME NEW i \in S, NEW j \in 0 .. n, j < i
      PROVE  Cardinality(UpTo(S, j)) < Cardinality(UpTo(S, i))
  <2> DEFINE A == UpTo(S, j)
             B == UpTo(S, i)
  <2>0. \A y \in S : y \in Nat
    OBVIOUS
  <2>1. A \in SUBSET S /\ B \in SUBSET S /\ i \in B /\ A \subseteq B \ {i}
    <3>1. A \in SUBSET S /\ B \in SUBSET S
      BY DEF UpTo
    <3>2. i \in B
      BY <2>0 DEF UpTo
    <3>3. A \subseteq B \ {i}
      <4>1. \A y \in S : y <= j => y <= i /\ y # i
        BY <1>5, <2>0
      <4> QED BY <4>1 DEF UpTo
    <3> QED BY <3>1, <3>2, <3>3
  <2> HIDE DEF A, B
  <2>2. IsFiniteSet(B) /\ Cardinality(B) \in Nat /\ Cardinality(A) \in Nat
    BY <2>1, <1>3
  <2>3. IsFiniteSet(B \ {i}) /\ Cardinality(B \ {i}) = Cardinality(B) - 1
    BY <2>1, <2>2, FS_RemoveElement
  <2>4. Cardinality(A) <= Cardinality(B \ {i})
    BY <2>1, <2>3, FS_Subset
  <2>5. Cardinality(A) < Cardinality(B)
    BY <2>2, <2>3, <2>4
  <2> QED BY <2>5 DEF A, B
<1>6. \A i \in 0 .. n : UpTo(S, i) \in SUBSET S
  BY DEF UpTo
<1> QED BY <1>2, <1>3, <1>4, <1>5, <1>6

LEMMA LeastOf ==
    ASSUME NEW S \in SUBSET Nat, S # {}
    PROVE  \E m \in S : \A y \in S : m <= y
<1>1. PICK m \in S : \A y \in S : <<y, m>> \notin OpToRel(<, Nat)
  BY NatLessThanWellFounded, WFMin
<1>2. ASSUME NEW y \in S PROVE m <= y
  <2>1. y < m => <<y, m>> \in OpToRel(<, Nat)
    BY DEF OpToRel
  <2>2. y \in Nat /\ m \in Nat /\ ~(y < m)
    BY <1>1, <2>1
  <2> QED BY <2>2
<1> QED BY <1>2

\* Each number up to the number of places is the place of one of them.
LEMMA NthExists ==
    ASSUME NEW n \in Nat, NEW S \in SUBSET (1 .. n), NEW k \in 1 .. Cardinality(S)
    PROVE  \E i \in S : Cardinality(UpTo(S, i)) = k
<1> DEFINE count(i) == Cardinality(UpTo(S, i))
           Enough == {i \in 0 .. n : k <= count(i)}
<1>1. Cardinality(S) \in Nat /\ \A i \in 0 .. n : count(i) \in Nat /\ IsFiniteSet(UpTo(S, i))
  BY UpToIs
<1>2. UpTo(S, n) = S /\ UpTo(S, 0) = {}
  <2>1. \A j \in S : j <= n /\ ~(j <= 0)
    OBVIOUS
  <2> QED BY <2>1 DEF UpTo
<1>3. count(n) = Cardinality(S) /\ count(0) = 0
  BY <1>2, FS_EmptySet
<1>4. n \in Enough
  BY <1>1, <1>3
<1>5. PICK m \in Enough : \A y \in Enough : m <= y
  <2>1. Enough \in SUBSET Nat /\ Enough # {}
    BY <1>4
  <2> HIDE DEF Enough
  <2> QED BY <2>1, LeastOf
<1>6. m \in 1 .. n /\ m - 1 \in 0 .. n /\ k <= count(m)
  BY <1>3
<1>7. count(m - 1) < k
  <2>1. m - 1 \notin Enough
    BY <1>5, <1>6
  <2> QED BY <1>1, <1>6, <2>1
<1>8. m \in S
  <2>0. \A j \in S : j <= m <=> j <= m - 1 \/ j = m
    BY <1>6
  <2>1. m \notin S => UpTo(S, m) = UpTo(S, m - 1)
    BY <2>0 DEF UpTo
  <2> QED BY <1>1, <1>6, <1>7, <2>1
<1>9. count(m) = count(m - 1) + 1
  <2>0. \A j \in S : (j <= m <=> j <= m - 1 \/ j = m) /\ ~(m <= m - 1)
    BY <1>6
  <2>1. UpTo(S, m) = UpTo(S, m - 1) \union {m} /\ m \notin UpTo(S, m - 1)
    BY <1>8, <2>0 DEF UpTo
  <2> QED BY <1>1, <1>6, <2>1, FS_AddElement
<1>10. count(m) = k
  <2>1. count(m) \in Nat /\ count(m - 1) \in Nat
    BY <1>1, <1>6
  <2> HIDE DEF count
  <2> QED BY <1>6, <1>7, <1>9, <2>1
<1> QED BY <1>8, <1>10

LEMMA NthIs ==
    ASSUME NEW n \in Nat, NEW S \in SUBSET (1 .. n)
    PROVE  /\ Cardinality(S) \in Nat
           /\ \A k \in 1 .. Cardinality(S) : Nth(S, k) \in S
           /\ \A i \in S : \E k \in 1 .. Cardinality(S) : Nth(S, k) = i
<1>1. ASSUME NEW k \in 1 .. Cardinality(S)
      PROVE  Nth(S, k) \in S /\ Cardinality(UpTo(S, Nth(S, k))) = k
  <2>1. \E i \in S : Cardinality({j \in S : j <= i}) = k
    BY NthExists DEF UpTo
  <2> QED BY <2>1 DEF Nth, UpTo
<1>2. ASSUME NEW i \in S, NEW j \in S, Cardinality(UpTo(S, i)) = Cardinality(UpTo(S, j))
      PROVE  i = j
  <2>1. i \in 0 .. n /\ j \in 0 .. n
    OBVIOUS
  <2>2. /\ Cardinality(UpTo(S, i)) \in Nat
        /\ i < j => Cardinality(UpTo(S, i)) < Cardinality(UpTo(S, j))
        /\ j < i => Cardinality(UpTo(S, j)) < Cardinality(UpTo(S, i))
    BY <2>1, UpToIs
  <2> QED BY <1>2, <2>1, <2>2
<1>3. Cardinality(S) \in Nat
  BY UpToIs
<1>4. ASSUME NEW i \in S
      PROVE  \E k \in 1 .. Cardinality(S) : Nth(S, k) = i
  <2> DEFINE k == Cardinality(UpTo(S, i))
  <2>1. i \in 0 .. n /\ 0 \in 0 .. n /\ 0 < i
    OBVIOUS
  <2>2. k \in Nat /\ k <= Cardinality(S) /\ Cardinality(UpTo(S, 0)) < k
    BY <2>1, UpToIs
  <2>3. Cardinality(UpTo(S, 0)) \in Nat
    BY <2>1, UpToIs
  <2>4. k \in 1 .. Cardinality(S)
    BY <1>3, <2>2, <2>3
  <2>5. Nth(S, k) \in S /\ Cardinality(UpTo(S, Nth(S, k))) = k
    BY <1>1, <2>4
  <2>6. Nth(S, k) = i
    BY <1>2, <2>5
  <2> QED BY <2>4, <2>6
<1> QED BY <1>1, <1>3, <1>4

LEMMA SeqIs ==
    ASSUME NEW T, NEW list \in Seq(T)
    PROVE  /\ Len(list) \in Nat /\ DOMAIN list = 1 .. Len(list)
           /\ \A k \in 1 .. Len(list) : list[k] \in T
           /\ list \in [1 .. Len(list) -> T]
OBVIOUS

LEMMA IsSeq ==
    ASSUME NEW T, NEW n \in Nat, NEW f, f = [k \in 1 .. n |-> f[k]],
           \A k \in 1 .. n : f[k] \in T
    PROVE  f \in Seq(T) /\ Len(f) = n
<1>1. f \in [1 .. n -> T]
  OBVIOUS
<1> QED BY <1>1

LEMMA ConcatIs ==
    ASSUME NEW T, NEW a \in Seq(T), NEW b \in Seq(T)
    PROVE  /\ a \o b \in Seq(T) /\ Len(a \o b) = Len(a) + Len(b)
           /\ DOMAIN (a \o b) = 1 .. Len(a) + Len(b)
           /\ \A k \in 1 .. Len(a) : (a \o b)[k] = a[k]
           /\ \A k \in 1 .. Len(a) + Len(b) : k > Len(a) =>
                 k - Len(a) \in 1 .. Len(b) /\ (a \o b)[k] = b[k - Len(a)]
OBVIOUS

\* The members are those at the places, as many as there are places.
LEMMA MembersAre ==
    ASSUME NEW T, NEW list \in Seq(T), NEW S \in SUBSET DOMAIN list
    PROVE  /\ Cardinality(S) \in Nat
           /\ Members(list, S) \in [1 .. Cardinality(S) -> {list[i] : i \in S}]
           /\ Members(list, S) \in Seq(T) /\ Len(Members(list, S)) = Cardinality(S)
           /\ \A i \in S : \E k \in 1 .. Cardinality(S) : Members(list, S)[k] = list[i]
<1>1. Len(list) \in Nat /\ S \in SUBSET (1 .. Len(list))
  OBVIOUS
<1>2. /\ Cardinality(S) \in Nat
      /\ \A k \in 1 .. Cardinality(S) : Nth(S, k) \in S
      /\ \A i \in S : \E k \in 1 .. Cardinality(S) : Nth(S, k) = i
  BY <1>1, NthIs
<1>3. \A i \in S : list[i] \in T
  OBVIOUS
<1>4. Members(list, S) \in [1 .. Cardinality(S) -> {list[i] : i \in S}]
  BY <1>2 DEF Members
<1>5. Members(list, S) \in [1 .. Cardinality(S) -> T]
  BY <1>2, <1>3 DEF Members
<1>6. Members(list, S) \in Seq(T) /\ Len(Members(list, S)) = Cardinality(S)
  BY <1>2, <1>5
<1>7. \A i \in S : \E k \in 1 .. Cardinality(S) : Members(list, S)[k] = list[i]
  BY <1>2 DEF Members
<1> QED BY <1>2, <1>4, <1>6, <1>7

\* A place is the k-th of some places for one k.
LEMMA NthOnce ==
    ASSUME NEW n \in Nat, NEW S \in SUBSET (1 .. n),
           NEW k \in 1 .. Cardinality(S), NEW l \in 1 .. Cardinality(S), Nth(S, k) = Nth(S, l)
    PROVE  k = l
<1>1. ASSUME NEW m \in 1 .. Cardinality(S)
      PROVE  Cardinality(UpTo(S, Nth(S, m))) = m
  <2>1. \E i \in S : Cardinality({j \in S : j <= i}) = m
    BY NthExists DEF UpTo
  <2> QED BY <2>1 DEF Nth, UpTo
<1> QED BY <1>1

\* A list without repetitions keeps none, and its members are those of the set.
LEMMA MembersOnce ==
    ASSUME NEW T, NEW list \in Seq(T), NEW S \in SUBSET DOMAIN list
    PROVE  /\ ToSet(Members(list, S)) = {list[i] : i \in S}
           /\ IsInjective(list) => IsInjective(Members(list, S))
<1> DEFINE m == Members(list, S)
           n == Cardinality(S)
<1>1. /\ DOMAIN m = 1 .. n /\ \A k \in 1 .. n : m[k] \in {list[i] : i \in S}
      /\ \A i \in S : \E k \in 1 .. n : m[k] = list[i]
  BY MembersAre
<1>2. ASSUME IsInjective(list), NEW k \in 1 .. n, NEW l \in 1 .. n, m[k] = m[l]
      PROVE  k = l
  <2>1. Len(list) \in Nat /\ S \in SUBSET (1 .. Len(list)) /\ DOMAIN list = 1 .. Len(list)
    BY SeqIs
  <2>2. Nth(S, k) \in S /\ Nth(S, l) \in S
    BY <2>1, NthIs
  <2>3. list[Nth(S, k)] = list[Nth(S, l)]
    BY <1>2 DEF Members
  <2>4. Nth(S, k) = Nth(S, l)
    BY <1>2, <2>2, <2>3 DEF IsInjective
  <2> QED BY <2>1, <2>4, NthOnce
<1> HIDE DEF m, n
<1>3. ToSet(m) = {list[i] : i \in S}
  BY <1>1 DEF ToSet
<1>4. IsInjective(list) => IsInjective(m)
  BY <1>1, <1>2 DEF IsInjective
<1> QED BY <1>3, <1>4 DEF m

\* A list is as long as its set is large, when it repeats nothing.
LEMMA SetOfList ==
    ASSUME NEW T, NEW list \in Seq(T)
    PROVE  /\ ToSet(list) \in SUBSET T /\ IsFiniteSet(ToSet(list))
           /\ Cardinality(ToSet(list)) \in Nat
           /\ IsInjective(list) => Cardinality(ToSet(list)) = Len(list)
<1> DEFINE n == Len(list)
           R == ToSet(list)
<1>1. n \in Nat /\ list \in [1 .. n -> T] /\ DOMAIN list = 1 .. n
  BY SeqIs
<1>2. R = {list[k] : k \in 1 .. n}
  BY <1>1 DEF ToSet
<1>3. IsFiniteSet(1 .. n) /\ Cardinality(1 .. n) = n
  BY <1>1, FS_Interval
<1> HIDE DEF n, R
<1>4. list \in Surjection(1 .. n, R) /\ R \in SUBSET T
  BY <1>1, <1>2 DEF Surjection
<1>5. IsFiniteSet(R) /\ (list \in Injection(1 .. n, R) => Cardinality(R) = n)
  BY <1>3, <1>4, FS_Surjection
<1>6. IsInjective(list) => list \in Injection(1 .. n, R)
  BY <1>4 DEF Injection, Surjection
<1>7. Cardinality(R) \in Nat
  BY <1>5, FS_CardinalityType
<1> QED BY <1>4, <1>5, <1>6, <1>7 DEF n, R

LEMMA ConcatSets ==
    ASSUME NEW T, NEW a \in Seq(T), NEW b \in Seq(T)
    PROVE  /\ ToSet(a \o b) = ToSet(a) \union ToSet(b)
           /\ IsInjective(a) /\ IsInjective(b) /\ ToSet(a) \cap ToSet(b) = {}
                 => IsInjective(a \o b)
<1> DEFINE c == a \o b
           m == Len(a)
           n == Len(b)
<1>1. /\ m \in Nat /\ n \in Nat /\ DOMAIN a = 1 .. m /\ DOMAIN b = 1 .. n
      /\ DOMAIN c = 1 .. m + n
  BY SeqIs, ConcatIs
<1>2. /\ \A k \in 1 .. m : c[k] = a[k]
      /\ \A k \in 1 .. m + n : k > m => k - m \in 1 .. n /\ c[k] = b[k - m]
  BY ConcatIs
<1> HIDE DEF c, m, n
<1>3. \A k \in 1 .. n : m + k \in 1 .. m + n /\ m + k > m /\ (m + k) - m = k
  BY <1>1
<1>4. \A k \in 1 .. m : k \in 1 .. m + n
  BY <1>1
<1>5. \A k \in 1 .. n : c[m + k] = b[k]
  BY <1>2, <1>3
<1>6. \A k \in 1 .. m + n : k \in 1 .. m \/ k > m
  BY <1>1
<1>7. ToSet(c) = ToSet(a) \union ToSet(b)
  <2>1. \A k \in 1 .. m + n : c[k] \in ToSet(a) \union ToSet(b)
    BY <1>1, <1>2, <1>6 DEF ToSet
  <2>2. \A k \in 1 .. m : a[k] \in ToSet(c)
    BY <1>1, <1>2, <1>4 DEF ToSet
  <2>3. \A k \in 1 .. n : b[k] \in ToSet(c)
    BY <1>1, <1>3, <1>5 DEF ToSet
  <2>4. ToSet(c) \subseteq ToSet(a) \union ToSet(b)
    <3>1. \A y \in ToSet(c) : \E k \in 1 .. m + n : y = c[k]
      BY <1>1 DEF ToSet
    <3> QED BY <2>1, <3>1
  <2>5. ToSet(a) \subseteq ToSet(c)
    BY <1>1, <2>2 DEF ToSet
  <2>6. ToSet(b) \subseteq ToSet(c)
    BY <1>1, <2>3 DEF ToSet
  <2> QED BY <2>4, <2>5, <2>6
<1>8. ASSUME IsInjective(a), IsInjective(b), ToSet(a) \cap ToSet(b) = {},
             NEW k \in 1 .. m + n, NEW l \in 1 .. m + n, c[k] = c[l]
      PROVE  k = l
  <2>1. \A i \in 1 .. m + n : /\ i \in 1 .. m => c[i] = a[i] /\ a[i] \in ToSet(a)
                              /\ i > m => c[i] = b[i - m] /\ b[i - m] \in ToSet(b)
    BY <1>1, <1>2 DEF ToSet
  <2>2. CASE k \in 1 .. m /\ l \in 1 .. m
    BY <1>1, <1>8, <2>1, <2>2 DEF IsInjective
  <2>3. CASE k > m /\ l > m
    <3>1. k - m \in 1 .. n /\ l - m \in 1 .. n /\ b[k - m] = b[l - m]
      BY <1>2, <1>8, <2>1, <2>3
    <3>2. k - m = l - m
      BY <1>1, <1>8, <3>1 DEF IsInjective
    <3> QED BY <1>1, <3>2
  <2>4. CASE (k \in 1 .. m /\ l > m) \/ (k > m /\ l \in 1 .. m)
    BY <1>8, <2>1, <2>4
  <2> QED BY <1>6, <2>2, <2>3, <2>4
<1>9. IsInjective(a) /\ IsInjective(b) /\ ToSet(a) \cap ToSet(b) = {} => IsInjective(c)
  BY <1>1, <1>8 DEF IsInjective
<1> QED BY <1>7, <1>9 DEF c

LEMMA AppendSets ==
    ASSUME NEW T, NEW list \in Seq(T), NEW e \in T
    PROVE  /\ Append(list, e) \in Seq(T)
           /\ ToSet(Append(list, e)) = ToSet(list) \union {e}
           /\ IsInjective(list) /\ e \notin ToSet(list) => IsInjective(Append(list, e))
<1> DEFINE one == <<e>>
<1>1. one \in Seq(T) /\ DOMAIN one = {1} /\ one[1] = e /\ Append(list, e) = list \o one
  OBVIOUS
<1> HIDE DEF one
<1>2. ToSet(one) = {e}
  BY <1>1 DEF ToSet
<1>3. IsInjective(one)
  BY <1>1 DEF IsInjective
<1>4. list \o one \in Seq(T)
  BY <1>1, ConcatIs
<1> QED BY <1>1, <1>2, <1>3, <1>4, ConcatSets
=============================================================================
