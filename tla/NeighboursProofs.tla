-------------------------- MODULE NeighboursProofs --------------------------
(***************************************************************************)
(* The neighbours of a server on a ring of any size: they are on the ring, *)
(* nothing lies between a server and its neighbour, and of two neighbours  *)
(* each is the other's, one to the left and one to the right.              *)
(***************************************************************************)
EXTENDS Neighbours, FiniteSetTheorems, WellFoundedInduction, TLAPS

(* A nonempty set of addresses has a lowest one, and Lowest returns it. *)
LEMMA LowestIsLeast ==
    ASSUME NEW S \in SUBSET Nat, S # {}
    PROVE  /\ Lowest(S) \in S
           /\ \A k \in S : Lowest(S) <= k
<1>1. PICK x \in S : \A y \in S : ~ (<<y, x>> \in OpToRel(<, Nat))
  BY NatLessThanWellFounded, WFMin
<1>2. \A y \in S : <<y, x>> \in OpToRel(<, Nat) <=> y < x
  BY Zenon DEF OpToRel
<1>3. \A y \in S : ~ (y < x)
  BY <1>1, <1>2, Zenon
<1>4. \A y \in S : x <= y
  BY <1>3
<1> QED  BY <1>4 DEF Lowest

(* A finite set of addresses has a highest one.  If there were sets        *)
(* without, take one with the least number of elements: without any of     *)
(* them it has a highest one, which the element taken out must exceed.     *)
LEMMA HighestIsGreatest ==
    ASSUME NEW S \in SUBSET Nat, S # {}, IsFiniteSet(S)
    PROVE  /\ Highest(S) \in S
           /\ \A k \in S : k <= Highest(S)
<1> DEFINE Fails(T) == /\ T \in SUBSET Nat /\ T # {} /\ IsFiniteSet(T)
                       /\ \A x \in T : \E y \in T : ~(y <= x)
           sizes == {n \in Nat : \E T \in SUBSET Nat : Fails(T) /\ Cardinality(T) = n}
<1>1. sizes = {}
  <2> SUFFICES ASSUME sizes # {} PROVE FALSE
    OBVIOUS
  <2>1. sizes \in SUBSET Nat
    OBVIOUS
  <2> HIDE DEF sizes
  <2>2. Lowest(sizes) \in sizes /\ \A k \in sizes : Lowest(sizes) <= k
    BY <2>1, LowestIsLeast
  <2>3. PICK T \in SUBSET Nat : Fails(T) /\ Cardinality(T) = Lowest(sizes)
    BY <2>2 DEF sizes
  <2>4. PICK x \in T : TRUE
    BY <2>3
  <2> DEFINE rest == T \ {x}
  <2>5. IsFiniteSet(rest) /\ Cardinality(rest) = Cardinality(T) - 1 /\ rest \in SUBSET Nat
    BY <2>3, <2>4, FS_RemoveElement
  <2>6. Cardinality(T) \in Nat /\ Cardinality(rest) \in Nat
    BY <2>3, <2>5, FS_CardinalityType
  <2>7. ~Fails(rest)
    <3>1. Cardinality(rest) \notin sizes
      BY <2>1, <2>2, <2>3, <2>5, <2>6
    <3> QED  BY <2>5, <2>6, <3>1 DEF sizes
  <2>8. CASE rest = {}
    <3>1. \A y \in T : y = x
      BY <2>8
    <3> QED  BY <2>3, <2>4, <3>1
  <2>9. CASE rest # {}
    <3>1. PICK z \in rest : \A y \in rest : y <= z
      BY <2>5, <2>7, <2>9
    <3>2. z \in Nat /\ x \in Nat /\ z \in T
      BY <2>4, <2>5, <3>1
    <3>3. \A y \in T : y = x \/ y <= z
      BY <3>1
    <3>4. \A y \in T : y <= (IF x <= z THEN z ELSE x)
      BY <3>2, <3>3
    <3> QED  BY <2>3, <2>4, <3>2, <3>4
  <2> QED  BY <2>8, <2>9
<1>2. ~Fails(S)
  BY <1>1, FS_CardinalityType
<1>3. PICK x \in S : \A y \in S : y <= x
  BY <1>2
<1> QED  BY <1>3 DEF Highest

(* SE messages go from a server to a server of the ring: the successor is  *)
(* the next higher address, or the lowest one when there is no higher one. *)
LEMMA LeftNeighbourProperties ==
    ASSUME NEW S \in SUBSET Nat, NEW n \in S
    PROVE  /\ LeftNeighbour(S, n) \in S
           /\ \/ /\ LeftNeighbour(S, n) > n
                 /\ \A k \in S : k > n => LeftNeighbour(S, n) <= k
              \/ \A k \in S : k <= n /\ LeftNeighbour(S, n) <= k
<1>1. CASE Above(S, n) # {}
  <2>1. /\ Lowest(Above(S, n)) \in Above(S, n)
        /\ \A k \in Above(S, n) : Lowest(Above(S, n)) <= k
    BY <1>1, LowestIsLeast DEF Above
  <2> QED  BY <1>1, <2>1 DEF LeftNeighbour, Above
<1>2. CASE Above(S, n) = {}
  <2>1. /\ Lowest(S) \in S
        /\ \A k \in S : Lowest(S) <= k
    BY LowestIsLeast
  <2>2. \A k \in S : k <= n
    BY <1>2 DEF Above
  <2> QED  BY <1>2, <2>1, <2>2 DEF LeftNeighbour
<1> QED  BY <1>1, <1>2

(* Heartbeats are expected from a server of the ring: the next lower       *)
(* address, or the highest one when there is no lower one.                 *)
LEMMA RightNeighbourProperties ==
    ASSUME NEW S \in SUBSET Nat, NEW n \in S, IsFiniteSet(S)
    PROVE  /\ RightNeighbour(S, n) \in S
           /\ \/ /\ RightNeighbour(S, n) < n
                 /\ \A k \in S : k < n => k <= RightNeighbour(S, n)
              \/ \A k \in S : n <= k /\ k <= RightNeighbour(S, n)
<1>1. CASE Below(S, n) # {}
  <2>0. Below(S, n) \in SUBSET Nat /\ IsFiniteSet(Below(S, n))
    BY FS_Subset DEF Below
  <2>1. /\ Highest(Below(S, n)) \in Below(S, n)
        /\ \A k \in Below(S, n) : k <= Highest(Below(S, n))
    BY <1>1, <2>0, HighestIsGreatest
  <2> QED  BY <1>1, <2>1 DEF RightNeighbour, Below
<1>2. CASE Below(S, n) = {}
  <2>1. /\ Highest(S) \in S
        /\ \A k \in S : k <= Highest(S)
    BY HighestIsGreatest
  <2>2. \A k \in S : n <= k
    BY <1>2 DEF Below
  <2> QED  BY <1>2, <2>1, <2>2 DEF RightNeighbour
<1> QED  BY <1>1, <1>2

(* What a server sends to the left comes from the right at its left        *)
(* neighbour, so a heartbeat is taken for one and passed on.               *)
LEMMA RightOfLeft ==
    ASSUME NEW S \in SUBSET Nat, NEW n \in S, IsFiniteSet(S)
    PROVE  RightNeighbour(S, LeftNeighbour(S, n)) = n
<1> DEFINE l == LeftNeighbour(S, n)
           r == RightNeighbour(S, l)
<1>1. /\ l \in S
      /\ \/ l > n /\ \A k \in S : k > n => l <= k
         \/ \A k \in S : k <= n /\ l <= k
  BY LeftNeighbourProperties
<1>2. /\ r \in S
      /\ \/ r < l /\ \A k \in S : k < l => k <= r
         \/ \A k \in S : l <= k /\ k <= r
  BY <1>1, RightNeighbourProperties
<1>3. n \in Nat /\ l \in Nat /\ r \in Nat
  BY <1>1, <1>2
<1> HIDE DEF l, r
<1>4. r = n
  BY <1>1, <1>2, <1>3
<1> QED  BY <1>4 DEF l, r

=============================================================================
