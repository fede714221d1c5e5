------------------------------ MODULE ListsProofs ------------------------------
(***************************************************************************)
(* Facts about the operators on sequences that the phases of a scan are    *)
(* modelled with: Select and UniqueBy of Lists, and FlattenSeq, IsSuffix   *)
(* and Max of the community modules.                                       *)
(*                                                                         *)
(* FlattenSeq is defined by recursion.  Where an induction is needed, the  *)
(* set of counterexamples is given a least element (LeastNat).             *)
(***************************************************************************)
EXTENDS Integers, Sequences, Lists, FiniteSetTheorems, SequenceTheorems, WellFoundedInduction, TLAPS

\* A set of natural numbers has a least element.
LEMMA LeastNat ==
  ASSUME NEW S \in SUBSET Nat, S # {}
  PROVE  \E m \in S : \A n \in S : m <= n
<1>1. IsWellFoundedOn(OpToRel(<, Nat), Nat)
  BY NatLessThanWellFounded
<1>2. PICK m \in S : \A n \in S : ~(<<n, m>> \in OpToRel(<, Nat))
  BY <1>1, WFMin
<1>3. \A n \in S : m <= n
  <2> SUFFICES ASSUME NEW n \in S, n < m PROVE FALSE
    OBVIOUS
  <2>1. <<n, m>> \in OpToRel(<, Nat)
    BY DEF OpToRel
  <2> QED
    BY <1>2, <2>1
<1> QED
  BY <1>3

----------------------------------------------------------------------------
(* Positions of a sequence, and their ranks.                               *)

Upto(S, i) == {j \in S : j <= i}      \* its cardinality is the rank of i in S

LEMMA InUpto ==
  ASSUME NEW S, NEW i
  PROVE  \A x : x \in Upto(S, i) <=> x \in S /\ x <= i
  BY DEF Upto

LEMMA UptoFinite ==
  ASSUME NEW n \in Nat, NEW S, \A i \in S : i \in 1..n
  PROVE  /\ IsFiniteSet(S) /\ Cardinality(S) \in Nat
         /\ \A i \in Nat : IsFiniteSet(Upto(S, i)) /\ Cardinality(Upto(S, i)) \in Nat
         /\ \A i \in Nat : Cardinality(Upto(S, i)) <= Cardinality(S)
         /\ Upto(S, n) = S /\ Upto(S, 0) = {}
         /\ Cardinality(Upto(S, 0)) = 0
<1>1. IsFiniteSet(1..n)
  BY FS_Interval
<1>2. IsFiniteSet(S) /\ Cardinality(S) \in Nat
  <2>1. S \in SUBSET (1..n)
    OBVIOUS
  <2> QED
    BY <1>1, <2>1, FS_Subset, FS_CardinalityType
<1>3. ASSUME NEW i \in Nat
      PROVE  /\ IsFiniteSet(Upto(S, i)) /\ Cardinality(Upto(S, i)) \in Nat
             /\ Cardinality(Upto(S, i)) <= Cardinality(S)
  <2>1. Upto(S, i) \in SUBSET S
    BY InUpto
  <2> QED
    BY <1>2, <2>1, FS_Subset, FS_CardinalityType
<1>4. Upto(S, n) = S /\ Upto(S, 0) = {}
  BY InUpto
<1>5. Cardinality(Upto(S, 0)) = 0
  BY <1>4, FS_EmptySet
<1> QED
  BY <1>2, <1>3, <1>4, <1>5

\* The rank goes up by one at a position of S and stays elsewhere.
LEMMA UptoNext ==
  ASSUME NEW n \in Nat, NEW S, \A i \in S : i \in 1..n, NEW i \in Nat
  PROVE  /\ i + 1 \in S => Cardinality(Upto(S, i + 1)) = Cardinality(Upto(S, i)) + 1
         /\ i + 1 \notin S => Cardinality(Upto(S, i + 1)) = Cardinality(Upto(S, i))
<1>1. CASE i + 1 \in S
  <2>1. Upto(S, i + 1) = Upto(S, i) \cup {i + 1} /\ i + 1 \notin Upto(S, i)
    BY <1>1, InUpto
  <2> QED
    BY <1>1, <2>1, UptoFinite, FS_AddElement
<1>2. CASE i + 1 \notin S
  <2>1. Upto(S, i + 1) = Upto(S, i)
    BY <1>2, InUpto
  <2> QED
    BY <1>2, <2>1
<1> QED
  BY <1>1, <1>2

\* Two positions of S have different ranks.
LEMMA RankInjective ==
  ASSUME NEW n \in Nat, NEW S, \A i \in S : i \in 1..n, NEW i \in S, NEW j \in S, i < j
  PROVE  Cardinality(Upto(S, i)) < Cardinality(Upto(S, j))
<1>1. i \in Nat /\ j \in Nat
  OBVIOUS
<1>2. \A x \in S : x <= i => x <= j
  BY <1>1
<1>3. Upto(S, i) \in SUBSET Upto(S, j)
  BY <1>2, InUpto
<1>4. j \in Upto(S, j) /\ j \notin Upto(S, i)
  BY <1>1, InUpto
<1>5. IsFiniteSet(Upto(S, j)) /\ Cardinality(Upto(S, j)) \in Nat /\ Cardinality(Upto(S, i)) \in Nat
  BY <1>1, UptoFinite
<1>6. Upto(S, i) # Upto(S, j)
  BY <1>4
<1>7. Cardinality(Upto(S, i)) <= Cardinality(Upto(S, j))
      /\ Cardinality(Upto(S, i)) # Cardinality(Upto(S, j))
  BY <1>3, <1>5, <1>6, FS_Subset
<1> QED
  BY <1>5, <1>7

\* Each rank is the rank of a position of S.
LEMMA RankSurjective ==
  ASSUME NEW n \in Nat, NEW S, \A i \in S : i \in 1..n, NEW k \in 1..Cardinality(S)
  PROVE  \E i \in S : Cardinality(Upto(S, i)) = k
<1> DEFINE M == {i \in Nat : Cardinality(Upto(S, i)) >= k}
<1>1. n \in M /\ k \in Nat /\ k >= 1
  BY UptoFinite
<1>2. PICK m \in M : \A i \in M : m <= i
  <2>1. M \in SUBSET Nat /\ M # {}
    BY <1>1
  <2> HIDE DEF M
  <2> QED
    BY <2>1, LeastNat
<1>3. m # 0
  BY <1>1, UptoFinite
<1>4. m - 1 \in Nat /\ m = (m - 1) + 1 /\ m - 1 \notin M
  BY <1>2, <1>3
<1>5. Cardinality(Upto(S, m - 1)) < k
  BY <1>1, <1>4, UptoFinite
<1>6. Cardinality(Upto(S, m)) >= k /\ Cardinality(Upto(S, m)) \in Nat
      /\ Cardinality(Upto(S, m - 1)) \in Nat
  BY <1>2, <1>4, UptoFinite
<1>7. m \in S /\ Cardinality(Upto(S, m)) = k
  BY <1>1, <1>4, <1>5, <1>6, UptoNext
<1> QED
  BY <1>7

----------------------------------------------------------------------------
(* Lists.                                                                  *)

\* The items kept are those at the positions of S, each position once.
LEMMA ItemsAtPositions ==
  ASSUME NEW T, NEW s \in Seq(T), NEW S, \A i \in S : i \in 1..Len(s)
  PROVE  /\ ItemsAt(s, S) \in Seq(T)
         /\ Len(ItemsAt(s, S)) = Cardinality(S) /\ Cardinality(S) \in Nat
         /\ \A k \in 1..Cardinality(S) : \E i \in S : ItemsAt(s, S)[k] = s[i]
         /\ \A i \in S : \E k \in 1..Cardinality(S) : ItemsAt(s, S)[k] = s[i]
         /\ \A k, l \in 1..Cardinality(S) :
              k # l => \E i, j \in S : i # j /\ ItemsAt(s, S)[k] = s[i] /\ ItemsAt(s, S)[l] = s[j]
<1> DEFINE n == Len(s)
           Rank(i) == Cardinality(Upto(S, i))
           At(k) == CHOOSE i \in S : Rank(i) = k
           r == ItemsAt(s, S)
<1>1. n \in Nat /\ \A i \in S : i \in 1..n /\ s[i] \in T
  OBVIOUS
<1>2. Cardinality(S) \in Nat
  BY <1>1, UptoFinite
<1>3. r = [k \in 1..Cardinality(S) |-> s[At(k)]]
  BY DEF ItemsAt, Upto
<1>4. ASSUME NEW k \in 1..Cardinality(S) PROVE At(k) \in S /\ Rank(At(k)) = k
  BY <1>1, RankSurjective
<1>5. ASSUME NEW i \in S PROVE Rank(i) \in 1..Cardinality(S) /\ At(Rank(i)) = i
  <2>1. i \in Nat /\ i \in 1..n
    BY <1>1
  <2>2. IsFiniteSet(Upto(S, i)) /\ Rank(i) \in Nat /\ Rank(i) <= Cardinality(S)
    BY <1>1, <2>1, UptoFinite
  <2>3. Rank(i) # 0
    <3>1. i \in Upto(S, i)
      BY <2>1, InUpto
    <3> QED
      BY <2>2, <3>1, FS_EmptySet
  <2>4. Rank(i) \in 1..Cardinality(S)
    BY <1>2, <2>2, <2>3
  <2>5. At(Rank(i)) \in S /\ Rank(At(Rank(i))) = Rank(i)
    BY <1>4, <2>4
  <2>6. \A j \in S : j < i => Rank(j) < Rank(i)
    BY <1>1, RankInjective
  <2>7. \A j \in S : i < j => Rank(i) < Rank(j)
    BY <1>1, RankInjective
  <2>8. \A j \in S : j \in Int /\ Rank(j) \in Nat
    <3> SUFFICES ASSUME NEW j \in S PROVE j \in Int /\ Rank(j) \in Nat
      OBVIOUS
    <3>1. j \in Nat
      BY <1>1
    <3>2. Rank(j) \in Nat
      BY <1>1, <3>1, UptoFinite
    <3> QED
      BY <3>1, <3>2
  <2> QED
    BY <2>1, <2>2, <2>4, <2>5, <2>6, <2>7, <2>8
<1> HIDE DEF At, Rank, n, r
<1>6. \A k \in 1..Cardinality(S) : r[k] = s[At(k)] /\ r[k] \in T
  BY <1>1, <1>3, <1>4
<1>7. r \in Seq(T) /\ Len(r) = Cardinality(S)
  BY <1>2, <1>3, <1>6
<1>8. \A k \in 1..Cardinality(S) : \E i \in S : r[k] = s[i]
  BY <1>4, <1>6
<1>9. \A i \in S : \E k \in 1..Cardinality(S) : r[k] = s[i]
  BY <1>5, <1>6
<1>10. \A k, l \in 1..Cardinality(S) :
         k # l => \E i, j \in S : i # j /\ r[k] = s[i] /\ r[l] = s[j]
  BY <1>4, <1>6
<1> QED
  BY <1>2, <1>7, <1>8, <1>9, <1>10 DEF r

\* The same for a sequence with a test on positions.
LEMMA ItemsAtDomain ==
  ASSUME NEW T, NEW s \in Seq(T), NEW S, \A i \in S : i \in DOMAIN s
  PROVE  /\ ItemsAt(s, S) \in Seq(T)
         /\ Len(ItemsAt(s, S)) = Cardinality(S) /\ Cardinality(S) \in Nat
         /\ ToSet(ItemsAt(s, S)) = {s[i] : i \in S}
         /\ (\A i, j \in S : s[i] = s[j] => i = j) => IsInjective(ItemsAt(s, S))
         /\ S # {} => ItemsAt(s, S) # <<>>
<1> DEFINE r == ItemsAt(s, S)
           c == Cardinality(S)
<1>1. \A i \in S : i \in 1..Len(s)
  OBVIOUS
<1>2. /\ r \in Seq(T) /\ Len(r) = c /\ c \in Nat
      /\ \A k \in 1..c : \E i \in S : r[k] = s[i]
      /\ \A i \in S : \E k \in 1..c : r[k] = s[i]
      /\ \A k, l \in 1..c : k # l => \E i, j \in S : i # j /\ r[k] = s[i] /\ r[l] = s[j]
  BY <1>1, ItemsAtPositions
<1> HIDE DEF r, c
<1>3. DOMAIN r = 1..c
  BY <1>2
<1>4. ToSet(r) = {s[i] : i \in S}
  <2>1. ToSet(r) = {r[k] : k \in 1..c}
    BY <1>3 DEF ToSet
  <2>2. \A k \in 1..c : r[k] \in {s[i] : i \in S}
    BY <1>2
  <2>3. \A i \in S : s[i] \in {r[k] : k \in 1..c}
    BY <1>2
  <2> QED
    BY <2>1, <2>2, <2>3
<1>5. (\A i, j \in S : s[i] = s[j] => i = j) => IsInjective(r)
  BY <1>2, <1>3 DEF IsInjective
<1>6. S # {} => r # <<>>
  BY <1>2
<1> QED
  BY <1>2, <1>4, <1>5, <1>6 DEF r, c

\* All positions keep the sequence as it is.
LEMMA ItemsAtAll ==
  ASSUME NEW T, NEW s \in Seq(T)
  PROVE  ItemsAt(s, DOMAIN s) = s
<1> DEFINE n == Len(s)
<1>1. n \in Nat /\ DOMAIN s = 1..n
  OBVIOUS
<1>2. Cardinality(1..n) = n
  BY <1>1, FS_Interval
<1>3. ASSUME NEW k \in 1..n PROVE (CHOOSE i \in 1..n : Cardinality({j \in 1..n : j <= i}) = k) = k
  <2>1. \A i \in 1..n : {j \in 1..n : j <= i} = 1..i /\ i \in Nat
    BY <1>1
  <2>2. \A i \in 1..n : Cardinality(1..i) = i
    BY <1>1, FS_Interval
  <2>3. \A i \in 1..n : Cardinality({j \in 1..n : j <= i}) = i
    BY <2>1, <2>2
  <2> QED
    BY <2>3
<1>4. ItemsAt(s, DOMAIN s) = ItemsAt(s, 1..n)
  BY <1>1
<1>5. ItemsAt(s, 1..n) = [k \in 1..n |-> s[CHOOSE i \in 1..n : Cardinality({j \in 1..n : j <= i}) = k]]
  BY <1>2 DEF ItemsAt
<1>6. ItemsAt(s, 1..n) = [k \in 1..n |-> s[k]]
  <2> HIDE DEF n
  <2> QED
    BY <1>3, <1>5
<1>7. s = [k \in 1..n |-> s[k]]
  OBVIOUS
<1> QED
  BY <1>4, <1>6, <1>7

\* Unique keeps each item once.
LEMMA UniqueItems ==
  ASSUME NEW T, NEW s \in Seq(T)
  PROVE  /\ Unique(s) \in Seq(T)
         /\ ToSet(Unique(s)) = ToSet(s)
         /\ IsInjective(Unique(s))
         /\ s # <<>> => Unique(s) # <<>>
<1> DEFINE S == {i \in DOMAIN s : \A j \in 1..i-1 : s[j] # s[i]}
<1>1. Unique(s) = ItemsAt(s, S)
  BY DEF Unique, UniqueBy
<1>2. \A i \in S : i \in DOMAIN s
  OBVIOUS
<1>3. /\ ItemsAt(s, S) \in Seq(T)
      /\ ToSet(ItemsAt(s, S)) = {s[i] : i \in S}
      /\ (\A i, j \in S : s[i] = s[j] => i = j) => IsInjective(ItemsAt(s, S))
      /\ S # {} => ItemsAt(s, S) # <<>>
  <2> HIDE DEF S
  <2> QED
    BY <1>2, ItemsAtDomain
<1>4. \A i, j \in S : s[i] = s[j] => i = j
  <2> SUFFICES ASSUME NEW i \in S, NEW j \in S, s[i] = s[j], i < j PROVE FALSE
    OBVIOUS
  <2>1. i \in 1..j-1
    OBVIOUS
  <2> QED
    BY <2>1
<1>5. ASSUME NEW i \in DOMAIN s PROVE \E m \in S : s[m] = s[i]
  <2> DEFINE M == {j \in DOMAIN s : s[j] = s[i]}
  <2>1. M \in SUBSET Nat /\ M # {}
    OBVIOUS
  <2>2. PICK m \in M : \A j \in M : m <= j
    <3> HIDE DEF M
    <3> QED
      BY <2>1, LeastNat
  <2>3. m \in DOMAIN s /\ s[m] = s[i] /\ m \in 1..Len(s)
    OBVIOUS
  <2>4. \A j \in 1..m-1 : s[j] # s[m]
    BY <2>2, <2>3
  <2> QED
    BY <2>3, <2>4
<1>6. ToSet(Unique(s)) = ToSet(s)
  <2>1. ToSet(Unique(s)) = {s[i] : i \in S}
    BY <1>1, <1>3
  <2>2. ToSet(s) = {s[i] : i \in DOMAIN s}
    BY DEF ToSet
  <2> HIDE DEF S
  <2> QED
    BY <1>2, <1>5, <2>1, <2>2
<1>7. s # <<>> => S # {}
  <2> SUFFICES ASSUME s # <<>> PROVE S # {}
    OBVIOUS
  <2>1. 1 \in DOMAIN s
    OBVIOUS
  <2> QED
    BY <1>5, <2>1
<1> QED
  BY <1>1, <1>3, <1>4, <1>6, <1>7

\* A concatenation holds the items of both lists; it repeats none if neither
\* does and they have none in common.
LEMMA ConcatItems ==
  ASSUME NEW T, NEW s \in Seq(T), NEW t \in Seq(T)
  PROVE  ToSet(s \o t) = ToSet(s) \cup ToSet(t)
<1> DEFINE m == Len(s)
           n == Len(t)
<1>1. /\ m \in Nat /\ n \in Nat /\ DOMAIN s = 1..m /\ DOMAIN t = 1..n
      /\ DOMAIN (s \o t) = 1..m+n
      /\ \A i \in 1..m : (s \o t)[i] = s[i]
      /\ \A i \in 1..n : (s \o t)[m + i] = t[i]
  OBVIOUS
<1>2. \A i \in 1..m+n : i \in 1..m \/ (i - m \in 1..n /\ m + (i - m) = i)
  BY <1>1
<1>3. \A i \in 1..m : i \in 1..m+n
  BY <1>1
<1>4. \A i \in 1..n : m + i \in 1..m+n
  BY <1>1
<1> HIDE DEF m, n
<1>5. ToSet(s \o t) = {(s \o t)[i] : i \in 1..m+n} /\ ToSet(s) = {s[i] : i \in 1..m}
      /\ ToSet(t) = {t[i] : i \in 1..n}
  BY <1>1 DEF ToSet
<1>6. \A i \in 1..m+n : (s \o t)[i] \in ToSet(s) \cup ToSet(t)
  BY <1>1, <1>2, <1>5
<1>7. \A i \in 1..m : s[i] \in ToSet(s \o t)
  BY <1>1, <1>3, <1>5
<1>8. \A i \in 1..n : t[i] \in ToSet(s \o t)
  BY <1>1, <1>4, <1>5
<1> QED
  BY <1>5, <1>6, <1>7, <1>8

LEMMA ConcatInjective ==
  ASSUME NEW T, NEW s \in Seq(T), NEW t \in Seq(T),
         IsInjective(s), IsInjective(t), ToSet(s) \cap ToSet(t) = {}
  PROVE  IsInjective(s \o t)
<1> DEFINE m == Len(s)
           n == Len(t)
<1>1. /\ m \in Nat /\ n \in Nat /\ DOMAIN s = 1..m /\ DOMAIN t = 1..n
      /\ DOMAIN (s \o t) = 1..m+n
      /\ \A i \in 1..m : (s \o t)[i] = s[i]
      /\ \A i \in 1..n : (s \o t)[m + i] = t[i]
  OBVIOUS
<1>2. \A i \in 1..m+n : i \in 1..m \/ (i - m \in 1..n /\ m + (i - m) = i)
  BY <1>1
<1>3. \A i \in 1..m : \A j \in 1..n : s[i] # t[j]
  BY <1>1 DEF ToSet
<1>4. \A i, j \in 1..m : s[i] = s[j] => i = j
  BY <1>1 DEF IsInjective
<1>5. \A i, j \in 1..n : t[i] = t[j] => i = j
  BY <1>1 DEF IsInjective
<1> HIDE DEF m, n
<1>6. ASSUME NEW i \in 1..m+n, NEW j \in 1..m+n, (s \o t)[i] = (s \o t)[j]
      PROVE  i = j
  <2>1. CASE i \in 1..m /\ j \in 1..m
    BY <1>1, <1>4, <1>6, <2>1
  <2>2. CASE i \in 1..m /\ j \notin 1..m
    BY <1>1, <1>2, <1>3, <1>6, <2>2
  <2>3. CASE i \notin 1..m /\ j \in 1..m
    BY <1>1, <1>2, <1>3, <1>6, <2>3
  <2>4. CASE i \notin 1..m /\ j \notin 1..m
    <3>1. i - m \in 1..n /\ j - m \in 1..n /\ m + (i - m) = i /\ m + (j - m) = j
      BY <1>2, <2>4
    <3>2. (s \o t)[i] = t[i - m] /\ (s \o t)[j] = t[j - m]
      BY <1>1, <3>1
    <3>3. i - m = j - m
      BY <1>5, <1>6, <3>1, <3>2
    <3> QED
      BY <1>1, <3>3
  <2> QED
    BY <2>1, <2>2, <2>3, <2>4
<1> QED
  BY <1>1, <1>6 DEF IsInjective

----------------------------------------------------------------------------
(* Short lists, and one item more or less.                                 *)

LEMMA OneItem ==
  ASSUME NEW T, NEW x \in T
  PROVE  <<x>> \in Seq(T) /\ Len(<<x>>) = 1 /\ ToSet(<<x>>) = {x}
<1>1. <<x>> \in Seq(T) /\ Len(<<x>>) = 1 /\ DOMAIN <<x>> = 1..1 /\ <<x>>[1] = x
  OBVIOUS
<1>2. 1..1 = {1}
  OBVIOUS
<1> QED
  BY <1>1, <1>2 DEF ToSet

LEMMA TwoItems ==
  ASSUME NEW T, NEW x \in T, NEW y \in T
  PROVE  <<x>> \o <<y>> = <<x, y>>
<1>1. <<x>> \in Seq(T) /\ <<y>> \in Seq(T) /\ <<x, y>> \in Seq(T)
      /\ Len(<<x>>) = 1 /\ Len(<<y>>) = 1 /\ Len(<<x, y>>) = 2
      /\ <<x>>[1] = x /\ <<y>>[1] = y /\ <<x, y>>[1] = x /\ <<x, y>>[2] = y
  OBVIOUS
<1>2. <<x>> \o <<y>> \in Seq(T) /\ Len(<<x>> \o <<y>>) = 2
      /\ (<<x>> \o <<y>>)[1] = x /\ (<<x>> \o <<y>>)[2] = y
  BY <1>1, ConcatProperties
<1>3. \A i \in 1..2 : i = 1 \/ i = 2
  OBVIOUS
<1>4. \A i \in 1..2 : (<<x>> \o <<y>>)[i] = <<x, y>>[i]
  BY <1>1, <1>2, <1>3
<1> QED
  BY <1>1, <1>2, <1>4, SeqEqual

LEMMA FirstItem ==
  ASSUME NEW T, NEW s \in Seq(T), s # <<>>
  PROVE  SubSeq(s, 1, 1) = <<s[1]>> /\ s[1] \in T
<1>1. Len(s) \in Nat \ {0} /\ s[1] \in T
  BY EmptySeq
<1>2. \A i \in 1..1 : s[i] \in T
  BY <1>1
<1>3. SubSeq(s, 1, 1) \in Seq(T) /\ Len(SubSeq(s, 1, 1)) = 1 /\ SubSeq(s, 1, 1)[1] = s[1]
  BY <1>2, SubSeqProperties
<1>4. <<s[1]>> \in Seq(T) /\ Len(<<s[1]>>) = 1 /\ <<s[1]>>[1] = s[1]
  BY <1>1
<1>5. \A i \in 1..1 : i = 1
  OBVIOUS
<1> QED
  BY <1>1, <1>3, <1>4, <1>5, SeqEqual

LEMMA SeqFromFunction ==
  ASSUME NEW T, NEW n \in Nat, NEW s \in [1..n -> T]
  PROVE  s \in Seq(T) /\ Len(s) = n
  OBVIOUS

LEMMA TailItems ==
  ASSUME NEW T, NEW s \in Seq(T), s # <<>>
  PROVE  /\ s[1] \in T /\ Tail(s) \in Seq(T)
         /\ ToSet(s) = {s[1]} \cup ToSet(Tail(s))
         /\ IsInjective(s) => IsInjective(Tail(s)) /\ s[1] \notin ToSet(Tail(s))
<1> DEFINE n == Len(s)
           t == Tail(s)
<1>1. n \in Nat \ {0} /\ DOMAIN s = 1..n /\ s[1] \in T
  BY EmptySeq
<1>2. t \in Seq(T) /\ Len(t) = n - 1 /\ \A i \in 1..n-1 : t[i] = s[i+1]
  BY HeadTailProperties
<1>3. DOMAIN t = 1..n-1
  BY <1>2
<1> HIDE DEF n, t
<1>4. \A i \in 1..n : i = 1 \/ (i - 1 \in 1..n-1 /\ (i - 1) + 1 = i)
  BY <1>1
<1>5. \A i \in 1..n-1 : i + 1 \in 1..n /\ i + 1 # 1
  BY <1>1
<1>6. 1 \in 1..n
  BY <1>1
<1>7. ToSet(s) = {s[1]} \cup ToSet(t)
  <2>1. ToSet(s) = {s[i] : i \in 1..n} /\ ToSet(t) = {t[i] : i \in 1..n-1}
    BY <1>1, <1>3 DEF ToSet
  <2>2. \A i \in 1..n : s[i] \in {s[1]} \cup ToSet(t)
    BY <1>2, <1>4, <2>1
  <2>3. \A i \in 1..n-1 : t[i] \in ToSet(s)
    BY <1>2, <1>5, <2>1
  <2>4. s[1] \in ToSet(s)
    BY <1>6, <2>1
  <2> QED
    BY <2>1, <2>2, <2>3, <2>4
<1>8. ASSUME IsInjective(s) PROVE IsInjective(t) /\ s[1] \notin ToSet(t)
  <2>1. \A i, j \in 1..n : s[i] = s[j] => i = j
    BY <1>1, <1>8 DEF IsInjective
  <2>2. ASSUME NEW i \in 1..n-1, NEW j \in 1..n-1, t[i] = t[j] PROVE i = j
    <3>1. i + 1 = j + 1
      BY <1>2, <1>5, <2>1, <2>2
    <3> QED
      BY <1>1, <3>1
  <2>3. \A i \in 1..n-1 : t[i] # s[1]
    BY <1>2, <1>5, <1>6, <2>1
  <2> QED
    BY <1>3, <2>2, <2>3 DEF IsInjective, ToSet
<1> QED
  BY <1>1, <1>2, <1>7, <1>8 DEF t

LEMMA AppendItems ==
  ASSUME NEW T, NEW s \in Seq(T), NEW e \in T
  PROVE  /\ Append(s, e) \in Seq(T)
         /\ DOMAIN s = 1..Len(s) /\ Len(s) \in Nat
         /\ DOMAIN Append(s, e) = 1..Len(s)+1
         /\ \A k \in 1..Len(s) : Append(s, e)[k] = s[k]
         /\ Append(s, e)[Len(s)+1] = e
         /\ ToSet(Append(s, e)) = ToSet(s) \cup {e}
         /\ IsInjective(s) /\ e \notin ToSet(s) => IsInjective(Append(s, e))
<1> DEFINE n == Len(s)
           t == Append(s, e)
<1>1. /\ t \in Seq(T) /\ n \in Nat /\ DOMAIN s = 1..n /\ DOMAIN t = 1..n+1
      /\ \A k \in 1..n : t[k] = s[k]
      /\ t[n+1] = e
  OBVIOUS
<1> HIDE DEF n, t
<1>2. \A k \in 1..n+1 : k \in 1..n \/ k = n+1
  BY <1>1
<1>3. n+1 \in 1..n+1 /\ \A k \in 1..n : k \in 1..n+1
  BY <1>1
<1>4. ToSet(t) = ToSet(s) \cup {e}
  <2>1. ToSet(s) = {s[i] : i \in 1..n} /\ ToSet(t) = {t[i] : i \in 1..n+1}
    BY <1>1 DEF ToSet
  <2>2. \A k \in 1..n+1 : t[k] \in ToSet(s) \cup {e}
    BY <1>1, <1>2, <2>1
  <2>3. \A k \in 1..n : s[k] \in ToSet(t)
    BY <1>1, <1>3, <2>1
  <2>4. e \in ToSet(t)
    BY <1>1, <1>3, <2>1
  <2> QED
    BY <2>1, <2>2, <2>3, <2>4
<1>5. ASSUME IsInjective(s), e \notin ToSet(s) PROVE IsInjective(t)
  <2>1. \A k \in 1..n : s[k] # e
    BY <1>1, <1>5 DEF ToSet
  <2> QED
    BY <1>1, <1>2, <1>5, <2>1 DEF IsInjective
<1> QED
  BY <1>1, <1>4, <1>5 DEF n, t

LEMMA ContainsItems ==
  ASSUME NEW T, NEW s \in Seq(T), NEW e
  PROVE  Contains(s, e) <=> e \in ToSet(s)
<1>1. DOMAIN s = 1..Len(s)
  OBVIOUS
<1> QED
  BY <1>1 DEF Contains, ToSet

----------------------------------------------------------------------------
(* FlattenSeq.                                                             *)

\* Its recursion has a value: f[i] is the concatenation of the first i lists.
LEMMA FlattenUnrolled ==
  ASSUME NEW T, NEW ss \in Seq(Seq(T)), ss # <<>>
  PROVE  \E f \in [1..Len(ss) -> Seq(T)] :
           /\ FlattenSeq(ss) = f[Len(ss)]
           /\ f[1] = ss[1]
           /\ \A i \in 2..Len(ss) : f[i] = f[i-1] \o ss[i]
<1> DEFINE n == Len(ss)
           Unrolls(f, m) == \A i \in 1..m : f[i] = IF i = 1 THEN ss[i] ELSE f[i-1] \o ss[i]
           Solvable(m) == \E f \in [1..m -> Seq(T)] : Unrolls(f, m)
           M == {m \in 1..n : ~Solvable(m)}
<1>1. n \in Nat /\ n >= 1 /\ \A i \in 1..n : ss[i] \in Seq(T)
  OBVIOUS
<1>2. M = {}
  <2> SUFFICES ASSUME M # {} PROVE FALSE
    OBVIOUS
  <2>1. M \in SUBSET Nat
    OBVIOUS
  <2>2. PICK m \in M : \A i \in M : m <= i
    <3> HIDE DEF M
    <3> QED
      BY <2>1, LeastNat
  <2>3. m \in 1..n
    OBVIOUS
  <2>4. CASE m = 1
    <3> DEFINE f == [i \in 1..1 |-> ss[1]]
    <3>1. f \in [1..m -> Seq(T)] /\ Unrolls(f, m)
      BY <1>1, <2>4
    <3> QED
      BY <2>2, <3>1
  <2>5. CASE m # 1
    <3>1. m - 1 \in 1..n /\ Solvable(m - 1)
      <4> HIDE DEF Solvable
      <4>1. m - 1 \in 1..n /\ ~(m <= m - 1)
        BY <1>1, <2>3, <2>5
      <4> QED
        BY <2>2, <4>1
    <3>2. PICK g \in [1..m-1 -> Seq(T)] : Unrolls(g, m - 1)
      BY <3>1
    <3> DEFINE f == [i \in 1..m |-> IF i = m THEN g[m-1] \o ss[m] ELSE g[i]]
    <3>3. m - 1 \in 1..m-1 /\ g[m-1] \in Seq(T) /\ ss[m] \in Seq(T)
      BY <1>1, <2>3, <2>5, <3>1
    <3>4. g[m-1] \o ss[m] \in Seq(T)
      BY <3>3
    <3>5. f \in [1..m -> Seq(T)]
      BY <3>4
    <3>6. ASSUME NEW i \in 1..m PROVE f[i] = IF i = 1 THEN ss[i] ELSE f[i-1] \o ss[i]
      <4>1. CASE i = m
        <5>1. i # 1 /\ i - 1 \in 1..m /\ i - 1 # m /\ f[i-1] = g[m-1]
          BY <2>3, <2>5, <4>1
        <5>2. f[i] = g[m-1] \o ss[m]
          BY <4>1
        <5> QED
          BY <4>1, <5>1, <5>2
      <4>2. CASE i # m
        <5>1. i \in 1..m-1 /\ f[i] = g[i]
          BY <2>3, <4>2
        <5>2. i # 1 => i - 1 \in 1..m /\ i - 1 # m /\ f[i-1] = g[i-1]
          BY <2>3, <4>2
        <5> QED
          BY <3>2, <5>1, <5>2
      <4> QED
        BY <4>1, <4>2
    <3>7. Unrolls(f, m)
      BY <3>6
    <3> QED
      BY <2>2, <3>5, <3>7
  <2> QED
    BY <2>4, <2>5
<1>3. PICK g \in [1..n -> Seq(T)] : Unrolls(g, n)
  <2>1. Solvable(n)
    <3> HIDE DEF Solvable
    <3> QED
      BY <1>1, <1>2
  <2> QED
    BY <2>1
<1> DEFINE Value == CHOOSE f : f = [i \in 1..n |-> IF i = 1 THEN ss[i] ELSE f[i-1] \o ss[i]]
<1>4. g = [i \in 1..n |-> IF i = 1 THEN ss[i] ELSE g[i-1] \o ss[i]]
  BY <1>3
<1>5. Value = [i \in 1..n |-> IF i = 1 THEN ss[i] ELSE Value[i-1] \o ss[i]]
  BY <1>4
<1>6. FlattenSeq(ss) = Value[n]
  BY <1>1 DEF FlattenSeq
<1> HIDE DEF Value
<1>7. DOMAIN Value = 1..n /\ Value[1] = ss[1]
      /\ \A i \in 2..n : Value[i] = Value[i-1] \o ss[i]
  <2> DEFINE Body(i) == IF i = 1 THEN ss[i] ELSE Value[i-1] \o ss[i]
  <2>1. Value = [i \in 1..n |-> Body(i)]
    BY <1>5
  <2>2. DOMAIN Value = 1..n /\ \A i \in 1..n : Value[i] = Body(i)
    <3> HIDE DEF Body, n
    <3> QED
      BY <2>1
  <2>3. Body(1) = ss[1] /\ \A i \in 2..n : Body(i) = Value[i-1] \o ss[i]
    <3>1. Body(1) = ss[1]
      OBVIOUS
    <3>2. ASSUME NEW i \in 2..n PROVE Body(i) = Value[i-1] \o ss[i]
      <4>1. i # 1
        OBVIOUS
      <4> QED
        BY <4>1
    <3> QED
      BY <3>1, <3>2
  <2>4. 1 \in 1..n /\ \A i \in 2..n : i \in 1..n
    BY <1>1
  <2> HIDE DEF Body, n
  <2> QED
    BY <2>2, <2>3, <2>4
<1> DEFINE W == {i \in 1..n : Value[i] \notin Seq(T)}
<1>8. W = {}
  <2> SUFFICES ASSUME W # {} PROVE FALSE
    OBVIOUS
  <2>1. W \in SUBSET Nat
    OBVIOUS
  <2>2. PICK m \in W : \A i \in W : m <= i
    <3> HIDE DEF W
    <3> QED
      BY <2>1, LeastNat
  <2>3. m \in 1..n /\ Value[m] \notin Seq(T)
    OBVIOUS
  <2>4. m \in 2..n /\ m - 1 \in 1..n /\ ~(m <= m - 1)
    BY <1>1, <1>7, <2>3
  <2>5. Value[m-1] \in Seq(T)
    BY <2>2, <2>4
  <2>6. Value[m] = Value[m-1] \o ss[m] /\ ss[m] \in Seq(T)
    BY <1>1, <1>7, <2>4
  <2>7. Value[m] \in Seq(T)
    BY <2>5, <2>6
  <2> QED
    BY <2>3, <2>7
<1>9. \A i \in 1..n : Value[i] \in Seq(T)
  BY <1>8
<1>10. Value \in [1..n -> Seq(T)]
  BY <1>5, <1>9
<1> QED
  BY <1>6, <1>7, <1>10

\* The result holds the items of all the lists, and nothing else.
LEMMA FlattenItems ==
  ASSUME NEW T, NEW ss \in Seq(Seq(T))
  PROVE  /\ FlattenSeq(ss) \in Seq(T)
         /\ ToSet(FlattenSeq(ss)) = UNION {ToSet(ss[i]) : i \in DOMAIN ss}
<1>1. CASE ss = <<>>
  <2>1. FlattenSeq(ss) = <<>>
    BY <1>1 DEF FlattenSeq
  <2>2. ToSet(FlattenSeq(ss)) = {} /\ FlattenSeq(ss) \in Seq(T)
    BY <2>1 DEF ToSet
  <2>3. DOMAIN ss = {}
    BY <1>1
  <2> QED
    BY <2>2, <2>3
<1>2. CASE ss # <<>>
  <2> DEFINE n == Len(ss)
  <2>1. n \in Nat /\ n >= 1 /\ DOMAIN ss = 1..n /\ \A i \in 1..n : ss[i] \in Seq(T)
    BY <1>2
  <2>2. PICK f \in [1..n -> Seq(T)] :
          /\ FlattenSeq(ss) = f[n]
          /\ f[1] = ss[1]
          /\ \A i \in 2..n : f[i] = f[i-1] \o ss[i]
    BY <1>2, FlattenUnrolled
  <2> DEFINE Upper(m) == UNION {ToSet(ss[i]) : i \in 1..m}
             W == {m \in 1..n : ToSet(f[m]) # Upper(m)}
  <2>3. W = {}
    <3> SUFFICES ASSUME W # {} PROVE FALSE
      OBVIOUS
    <3>1. W \in SUBSET Nat
      OBVIOUS
    <3>2. PICK m \in W : \A i \in W : m <= i
      <4> HIDE DEF W
      <4> QED
        BY <3>1, LeastNat
    <3>3. m \in 1..n /\ ToSet(f[m]) # Upper(m)
      OBVIOUS
    <3>4. m # 1
      <4>1. 1..1 = {1}
        OBVIOUS
      <4>2. Upper(1) = ToSet(ss[1])
        BY <4>1
      <4> QED
        BY <2>2, <3>3, <4>2
    <3>5. m - 1 \in 1..n /\ m \in 2..n /\ ~(m <= m - 1)
      <4>1. m \in 1..n /\ m # 1
        BY <3>3, <3>4
      <4> HIDE DEF n, W, Upper
      <4> QED
        BY <2>1, <4>1
    <3>6. ToSet(f[m-1]) = Upper(m-1)
      <4> HIDE DEF Upper
      <4> QED
        BY <3>2, <3>5
    <3>7. Upper(m) = Upper(m-1) \cup ToSet(ss[m])
      <4>1. 1..m = (1..m-1) \cup {m}
        BY <3>3
      <4> QED
        BY <4>1
    <3>8. ToSet(f[m-1] \o ss[m]) = ToSet(f[m-1]) \cup ToSet(ss[m])
      BY <2>1, <2>2, <3>3, <3>5, ConcatItems
    <3> QED
      BY <2>2, <3>3, <3>5, <3>6, <3>7, <3>8
  <2>4. n \in 1..n
    BY <2>1
  <2>5. ToSet(f[n]) = Upper(n)
    <3> HIDE DEF Upper, n
    <3> QED
      BY <2>3, <2>4
  <2> QED
    BY <2>1, <2>2, <2>4, <2>5
<1> QED
  BY <1>1, <1>2

\* Lists without repetitions and without common items make a list without
\* repetitions.
LEMMA FlattenInjective ==
  ASSUME NEW T, NEW ss \in Seq(Seq(T)),
         \A i \in DOMAIN ss : IsInjective(ss[i]),
         \A i, j \in DOMAIN ss : i # j => ToSet(ss[i]) \cap ToSet(ss[j]) = {}
  PROVE  IsInjective(FlattenSeq(ss))
<1>1. CASE ss = <<>>
  <2>1. FlattenSeq(ss) = <<>>
    BY <1>1 DEF FlattenSeq
  <2> QED
    BY <2>1 DEF IsInjective
<1>2. CASE ss # <<>>
  <2> DEFINE n == Len(ss)
  <2>1. n \in Nat /\ n >= 1 /\ DOMAIN ss = 1..n /\ \A i \in 1..n : ss[i] \in Seq(T)
    BY <1>2
  <2>2. PICK f \in [1..n -> Seq(T)] :
          /\ FlattenSeq(ss) = f[n]
          /\ f[1] = ss[1]
          /\ \A i \in 2..n : f[i] = f[i-1] \o ss[i]
    BY <1>2, FlattenUnrolled
  <2> DEFINE Upper(m) == UNION {ToSet(ss[i]) : i \in 1..m}
             Good(m) == IsInjective(f[m]) /\ ToSet(f[m]) \subseteq Upper(m)
             W == {m \in 1..n : ~Good(m)}
  <2>3. W = {}
    <3> SUFFICES ASSUME W # {} PROVE FALSE
      OBVIOUS
    <3>1. W \in SUBSET Nat
      OBVIOUS
    <3>2. PICK m \in W : \A i \in W : m <= i
      <4> HIDE DEF W
      <4> QED
        BY <3>1, LeastNat
    <3>3. m \in 1..n /\ ~Good(m)
      OBVIOUS
    <3>4. m # 1
      <4>1. 1 \in 1..1 /\ 1 \in 1..n
        BY <2>1
      <4>2. ToSet(ss[1]) \subseteq Upper(1)
        BY <4>1
      <4> QED
        BY <2>1, <2>2, <3>3, <4>1, <4>2
    <3>5. m - 1 \in 1..n /\ m \in 2..n /\ ~(m <= m - 1)
      <4>1. m \in 1..n /\ m # 1
        BY <3>3, <3>4
      <4> HIDE DEF n, W, Upper
      <4> QED
        BY <2>1, <4>1
    <3>6. Good(m-1)
      <4> HIDE DEF Good
      <4> QED
        BY <3>2, <3>5
    <3>7. Upper(m) = Upper(m-1) \cup ToSet(ss[m])
      <4>1. 1..m = (1..m-1) \cup {m}
        BY <3>3
      <4> QED
        BY <4>1
    <3>8. f[m-1] \in Seq(T) /\ ss[m] \in Seq(T) /\ f[m] = f[m-1] \o ss[m]
      BY <2>1, <2>2, <3>3, <3>5
    <3>9. ToSet(f[m]) = ToSet(f[m-1]) \cup ToSet(ss[m])
      BY <3>8, ConcatItems
    <3>10. Upper(m-1) \cap ToSet(ss[m]) = {}
      <4>1. \A i \in 1..m-1 : i \in DOMAIN ss /\ m \in DOMAIN ss /\ i # m
        BY <2>1, <3>3
      <4> QED
        BY <4>1
    <3>11. IsInjective(f[m])
      <4>1. IsInjective(ss[m]) /\ IsInjective(f[m-1])
        BY <2>1, <3>3, <3>6
      <4>2. ToSet(f[m-1]) \cap ToSet(ss[m]) = {}
        BY <3>6, <3>10
      <4> QED
        BY <3>8, <4>1, <4>2, ConcatInjective
    <3> QED
      BY <3>3, <3>6, <3>7, <3>9, <3>11
  <2>4. n \in 1..n
    BY <2>1
  <2>5. Good(n)
    <3> HIDE DEF Good, n
    <3> QED
      BY <2>3, <2>4
  <2> QED
    BY <2>2, <2>5
<1> QED
  BY <1>1, <1>2
===============================================================================
