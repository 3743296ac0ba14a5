----------------------------- MODULE ListLemmas -----------------------------
(***************************************************************************)
(* What the operations on lists do that the models of the Python lists are *)
(* built from (append, remove, del), and how places in a list are counted. *)
(***************************************************************************)
EXTENDS Integers, SequencesExt, FiniteSetTheorems, SequenceTheorems, NaturalsInduction,
        WellFoundedInduction, TLAPS

(* An element is added.                                                    *)
LEMMA Appended ==
    ASSUME NEW S, NEW s \in Seq(S), NEW e \in S
    PROVE  /\ Append(s, e) \in Seq(S)
           /\ Len(Append(s, e)) = Len(s) + 1
           /\ \A i \in 1..Len(s) : Append(s, e)[i] = s[i]
           /\ Append(s, e)[Len(s) + 1] = e
OBVIOUS

(* What a sequence contains once an element is added.                      *)
LEMMA AppendContains ==
    ASSUME NEW S, NEW s \in Seq(S), NEW e \in S, NEW x
    PROVE  Contains(Append(s, e), x) <=> Contains(s, x) \/ x = e
<1> DEFINE a == Append(s, e)
<1>1. Len(a) = Len(s) + 1 /\ (\A i \in 1..Len(s) : a[i] = s[i]) /\ a[Len(s) + 1] = e
  BY Appended
<1>2. Len(s) \in Nat
  OBVIOUS
<1> HIDE DEF a
<1>3. (\E i \in 1..Len(a) : a[i] = x) <=> (\E i \in 1..Len(s) : s[i] = x) \/ x = e
  BY <1>1, <1>2
<1> QED  BY <1>3 DEF Contains, a

(* What stands in one place is taken out: what is behind it moves up.      *)
LEMMA Removed ==
    ASSUME NEW S, NEW s \in Seq(S), NEW k \in 1..Len(s)
    PROVE  /\ RemoveAt(s, k) \in Seq(S)
           /\ Len(RemoveAt(s, k)) = Len(s) - 1
           /\ \A i \in 1..(Len(s) - 1) :
                 RemoveAt(s, k)[i] = IF i < k THEN s[i] ELSE s[i + 1]
<1> DEFINE a == SubSeq(s, 1, k - 1)
           b == SubSeq(s, k + 1, Len(s))
<1>1. a \in Seq(S) /\ Len(a) = k - 1 /\ \A i \in 1..(k - 1) : a[i] = s[i]
  OBVIOUS
<1>2. b \in Seq(S) /\ Len(b) = Len(s) - k /\ \A i \in 1..(Len(s) - k) : b[i] = s[i + k]
  OBVIOUS
<1>3. /\ a \o b \in Seq(S)
      /\ Len(a \o b) = Len(a) + Len(b)
      /\ \A i \in 1..(Len(a) + Len(b)) : (a \o b)[i] = IF i <= Len(a) THEN a[i] ELSE b[i - Len(a)]
  <2> HIDE DEF a, b
  <2> QED  BY <1>1, <1>2, ConcatProperties
<1>4. ASSUME NEW i \in 1..(Len(s) - 1)
      PROVE  (a \o b)[i] = IF i < k THEN s[i] ELSE s[i + 1]
  <2>0. i \in 1..(Len(a) + Len(b)) /\ (i <= Len(a) <=> i < k) /\ Len(a) = k - 1
    <3> HIDE DEF a, b
    <3> QED  BY <1>1, <1>2
  <2>1. CASE i < k
    <3> HIDE DEF a, b
    <3>1. (a \o b)[i] = a[i] /\ i \in 1..(k - 1)
      BY <1>3, <2>0, <2>1
    <3> QED  BY <1>1, <2>1, <3>1
  <2>2. CASE ~(i < k)
    <3>1. i - (k - 1) \in 1..(Len(s) - k)
      BY <2>2
    <3>2. b[i - (k - 1)] = s[(i - (k - 1)) + k]
      BY <1>2, <3>1
    <3>3. (a \o b)[i] = b[i - Len(a)]
      <4> HIDE DEF a, b
      <4> QED  BY <1>3, <2>0, <2>2
    <3>4. (i - (k - 1)) + k = i + 1
      OBVIOUS
    <3> HIDE DEF a, b
    <3> QED  BY <2>0, <2>2, <3>2, <3>3, <3>4
  <2> QED  BY <2>1, <2>2
<1>5. RemoveAt(s, k) = a \o b
  BY DEF RemoveAt
<1> HIDE DEF a, b
<1>6. Len(a) + Len(b) = Len(s) - 1
  BY <1>1, <1>2
<1> QED  BY <1>3, <1>4, <1>5, <1>6

(* A set of natural numbers has a least one.                               *)
LEMMA LeastOf ==
    ASSUME NEW S \in SUBSET Nat, S # {}
    PROVE  \E x \in S : \A y \in S : x <= y
<1>1. PICK x \in S : \A y \in S : ~ (<<y, x>> \in OpToRel(<, Nat))
  BY NatLessThanWellFounded, WFMin
<1>2. \A y \in S : <<y, x>> \in OpToRel(<, Nat) <=> y < x
  BY Zenon DEF OpToRel
<1>3. \A y \in S : ~ (y < x)
  BY <1>1, <1>2, Zenon
<1> QED  BY <1>3

(* The element taken out is the first that is equal to the one given.      *)
LEMMA FirstRemoved ==
    ASSUME NEW S, NEW s \in Seq(S), NEW e, NEW j \in 1..Len(s), s[j] = e
    PROVE  \E k \in 1..Len(s) : /\ s[k] = e /\ RemoveFirst(s, e) = RemoveAt(s, k)
                                /\ \A i \in 1..Len(s) : s[i] = e => k <= i
<1> DEFINE I == {i \in 1..Len(s) : s[i] = e}
<1>1. I \in SUBSET Nat /\ I # {}
  OBVIOUS
<1>2. PICK k \in I : \A i \in I : k <= i
  <2> HIDE DEF I
  <2> QED  BY <1>1, LeastOf
<1>3. \A i \in I : (\A l \in I : i <= l) => i = k
  BY <1>2
<1>4. Min(I) = k
  <2> HIDE DEF I
  <2> QED  BY <1>2, <1>3 DEF Min
<1>5. RemoveFirst(s, e) = RemoveAt(s, k)
  BY <1>4 DEF RemoveFirst, SelectInSeq
<1> QED  BY <1>2, <1>5

LEMMA RemovalMovesUp ==
    ASSUME NEW S, NEW s \in Seq(S), NEW k \in 1..Len(s), \A j \in 1..Len(s) : s[j] = s[k] => j = k
    PROVE  /\ RemoveFirst(s, s[k]) \in Seq(S)
           /\ Len(RemoveFirst(s, s[k])) = Len(s) - 1
           /\ \A i \in 1..(Len(s) - 1) :
                 RemoveFirst(s, s[k])[i] = IF i < k THEN s[i] ELSE s[i + 1]
<1>1. RemoveFirst(s, s[k]) = RemoveAt(s, k)
  BY FirstRemoved
<1> QED  BY <1>1, Removed

(* Everything else stays in the list.                                      *)
LEMMA OthersStay ==
    ASSUME NEW S, NEW s \in Seq(S), NEW e, NEW i \in 1..Len(s), s[i] # e
    PROVE  /\ RemoveFirst(s, e) \in Seq(S)
           /\ \E j \in 1..Len(RemoveFirst(s, e)) : RemoveFirst(s, e)[j] = s[i]
<1>1. CASE \E k \in 1..Len(s) : s[k] = e
  <2>1. PICK k \in 1..Len(s) : s[k] = e /\ RemoveFirst(s, e) = RemoveAt(s, k)
    BY <1>1, FirstRemoved
  <2>n. Len(s) \in Nat
    OBVIOUS
  <2>2. /\ RemoveAt(s, k) \in Seq(S) /\ Len(RemoveAt(s, k)) = Len(s) - 1
        /\ \A l \in 1..(Len(s) - 1) : RemoveAt(s, k)[l] = IF l < k THEN s[l] ELSE s[l + 1]
    BY Removed
  <2>3. CASE i < k
    <3>1. i \in 1..(Len(s) - 1) /\ RemoveAt(s, k)[i] = s[i]
      BY <2>n, <2>2, <2>3
    <3> QED  BY <2>1, <2>2, <3>1
  <2>4. CASE k < i
    <3>1. i - 1 \in 1..(Len(s) - 1) /\ ~(i - 1 < k) /\ (i - 1) + 1 = i
      BY <2>n, <2>2, <2>4
    <3>2. RemoveAt(s, k)[i - 1] = s[i]
      BY <2>2, <3>1
    <3> QED  BY <2>1, <2>2, <3>1, <3>2
  <2> QED  BY <2>1, <2>3, <2>4
<1>2. CASE ~\E k \in 1..Len(s) : s[k] = e
  BY <1>2 DEF RemoveFirst
<1> QED  BY <1>1, <1>2

-----------------------------------------------------------------------------
(* How many of a set of places are not beyond a given one.                 *)
Upto(places, m) == {j \in places : j <= m}

LEMMA UptoGrows ==
    ASSUME NEW places \in SUBSET Nat, IsFiniteSet(places), 0 \notin places
    PROVE  /\ \A m \in Nat : IsFiniteSet(Upto(places, m)) /\ Cardinality(Upto(places, m)) \in Nat
           /\ Cardinality(Upto(places, 0)) = 0
           /\ \A m \in Nat : Cardinality(Upto(places, m + 1)) =
                 IF m + 1 \in places THEN Cardinality(Upto(places, m)) + 1
                                     ELSE Cardinality(Upto(places, m))
           /\ \A m, l \in Nat : m <= l => Cardinality(Upto(places, m)) <= Cardinality(Upto(places, l))
<1>1. ASSUME NEW m \in Nat
      PROVE  IsFiniteSet(Upto(places, m)) /\ Cardinality(Upto(places, m)) \in Nat
  BY FS_Subset, FS_CardinalityType DEF Upto
<1>2. Cardinality(Upto(places, 0)) = 0
  <2>0. \A j \in places : ~(j <= 0)
    BY SMT
  <2>1. Upto(places, 0) = {}
    BY <2>0, Zenon DEF Upto
  <2> QED  BY <2>1, FS_EmptySet
<1>3. ASSUME NEW m \in Nat
      PROVE  Cardinality(Upto(places, m + 1)) =
                 IF m + 1 \in places THEN Cardinality(Upto(places, m)) + 1
                                     ELSE Cardinality(Upto(places, m))
  <2>0. /\ \A j \in places : j <= m + 1 <=> j <= m \/ j = m + 1
        /\ ~(m + 1 <= m)
    BY SMT
  <2>1. CASE m + 1 \in places
    <3>1. Upto(places, m + 1) = Upto(places, m) \cup {m + 1} /\ m + 1 \notin Upto(places, m)
      BY <2>0, <2>1, Zenon DEF Upto
    <3> QED  BY <1>1, <2>1, <3>1, FS_AddElement
  <2>2. CASE m + 1 \notin places
    <3>1. Upto(places, m + 1) = Upto(places, m)
      BY <2>0, <2>2, Zenon DEF Upto
    <3> QED  BY <2>2, <3>1
  <2> QED  BY <2>1, <2>2
<1>4. ASSUME NEW m \in Nat, NEW l \in Nat, m <= l
      PROVE  Cardinality(Upto(places, m)) <= Cardinality(Upto(places, l))
  <2>0. \A j \in places : j <= m => j <= l
    BY <1>4, SMT
  <2>1. Upto(places, m) \in SUBSET Upto(places, l)
    BY <2>0, Zenon DEF Upto
  <2> QED  BY <1>1, <2>1, FS_Subset
<1> QED  BY <1>1, <1>2, <1>3, <1>4

(* A count that grows by one at each of a number of places.                *)
LEMMA CountedPlaces ==
    ASSUME NEW n \in Nat, NEW places \in SUBSET Nat, NEW c \in [Nat -> Nat],
           \A i \in places : 1 <= i /\ i <= n,
           c[0] = 0,
           \A m \in Nat : c[m + 1] = IF m + 1 \in places THEN c[m] + 1 ELSE c[m],
           \A m, l \in Nat : m <= l => c[m] <= c[l]
    PROVE  /\ \A k \in 1..c[n] : \E i \in places : c[i] = k
           /\ \A i \in places : c[i] \in 1..c[n]
           /\ \A i, j \in places : i < j => c[i] < c[j]
<1>1. ASSUME NEW k \in 1..c[n] PROVE \E i \in places : c[i] = k
  <2> DEFINE A == {m \in Nat : c[m] >= k}
  <2>1. PICK m \in A : \A l \in A : m <= l
    <3>1. n \in A /\ A \in SUBSET Nat
      OBVIOUS
    <3> HIDE DEF A
    <3> QED  BY <3>1, LeastOf
  <2>2. m \in Nat /\ c[m] >= k /\ \A l \in Nat : c[l] >= k => m <= l
    BY <2>1
  <2>3. m # 0 /\ m - 1 \in Nat /\ (m - 1) + 1 = m
    BY <2>2
  <2>4. c[m - 1] < k
    BY <2>2, <2>3
  <2>5. c[m] = IF m \in places THEN c[m - 1] + 1 ELSE c[m - 1]
    BY <2>3
  <2>6. c[m] \in Nat /\ c[m - 1] \in Nat /\ c[n] \in Nat
    BY <2>2, <2>3
  <2>7. k \in Nat
    BY <2>6
  <2>8. m \in places /\ c[m] = k
    BY <2>2, <2>4, <2>5, <2>6, <2>7
  <2> QED  BY <2>8
<1>2. ASSUME NEW i \in places PROVE i - 1 \in Nat /\ (i - 1) + 1 = i /\ c[i] = c[i - 1] + 1
  OBVIOUS
<1>3. ASSUME NEW i \in places PROVE c[i] \in 1..c[n]
  <2>1. c[i] <= c[n]
    OBVIOUS
  <2> QED  BY <1>2, <2>1
<1>4. ASSUME NEW i \in places, NEW j \in places, i < j PROVE c[i] < c[j]
  <2>1. i <= j - 1
    BY <1>2, <1>4
  <2>2. c[i] <= c[j - 1]
    BY <1>2, <2>1
  <2> QED  BY <1>2, <2>2
<1> QED  BY <1>1, <1>3, <1>4

=============================================================================
