---------------------------- MODULE HashRingProofs ----------------------------
(***************************************************************************)
(* Proofs about HashRing, for any finite sets of nodes and positions and   *)
(* any placement of the points: the ring follows from who is known, a      *)
(* change moves only the keys it must, and get_nodes returns the owner     *)
(* first, distinct nodes, and in an order no change disturbs.              *)
(***************************************************************************)
EXTENDS HashRing, TLAPS, FiniteSetTheorems, WellFoundedInduction

\* Every nonempty set of positions has a least one, and Least names it.
LEMMA LeastExists ==
    ASSUME NEW S \in SUBSET Nat, S # {}
    PROVE  Least(S) \in S /\ \A q \in S : Least(S) <= q
<1>1. PICK x \in S : \A y \in S : ~ (<<y, x>> \in OpToRel(<, Nat))
  BY NatLessThanWellFounded, WFMin, Zenon
<1>2. \A y \in S : ~ (y < x)
  BY <1>1, Zenon DEF OpToRel
<1>3. \A y \in S : x <= y
  BY <1>2
<1> QED BY <1>3 DEF Least

\* The successor of h is occupied, and no occupied position lies between h and
\* it on the way round the circle.
LEMMA SuccessorFacts ==
    ASSUME NEW S \in SUBSET Nat, S # {}, NEW h \in Nat
    PROVE  /\ Successor(S, h) \in S
           /\ (\E p \in S : h <= p) =>
                 h <= Successor(S, h) /\ \A q \in S : h <= q => Successor(S, h) <= q
           /\ (\A p \in S : ~ (h <= p)) => \A q \in S : Successor(S, h) <= q
<1>1. CASE \E p \in S : h <= p
  <2> DEFINE T == {p \in S : h <= p}
  <2>1. Least(T) \in T /\ \A q \in T : Least(T) <= q
    BY <1>1, LeastExists
  <2> QED BY <1>1, <2>1 DEF Successor
<1>2. CASE \A p \in S : ~ (h <= p)
  BY <1>2, LeastExists DEF Successor
<1> QED BY <1>1, <1>2

\* A point of a larger set that is the successor of h there is its successor
\* in every smaller set that has it: taking points away moves no key whose
\* own point stays.
LEMMA SuccessorKept ==
    ASSUME NEW S \in SUBSET Nat, NEW T \in SUBSET S, NEW h \in Nat,
           Successor(S, h) \in T
    PROVE  Successor(T, h) = Successor(S, h)
<1> DEFINE s == Successor(S, h)
           t == Successor(T, h)
<1>1. S # {} /\ T # {} /\ T \in SUBSET Nat
  OBVIOUS
<1>2. s \in Nat /\ t \in Nat /\ t \in T /\ t \in S
  BY <1>1, SuccessorFacts
<1>3. CASE \E p \in S : h <= p
  <2>1. h <= s /\ \A q \in S : h <= q => s <= q
    BY <1>1, <1>3, SuccessorFacts
  <2>2. h <= t /\ \A q \in T : h <= q => t <= q
    BY <1>1, <2>1, SuccessorFacts
  <2>3. s <= t /\ t <= s
    BY <1>2, <2>1, <2>2
  <2>4. s = t
    <3> HIDE DEF s, t
    <3> QED BY <1>2, <2>3
  <2> QED BY <2>4
<1>4. CASE \A p \in S : ~ (h <= p)
  <2>1. \A q \in S : s <= q
    BY <1>1, <1>4, SuccessorFacts
  <2>2. \A q \in T : t <= q
    BY <1>1, <1>4, SuccessorFacts
  <2>3. s <= t /\ t <= s
    BY <1>2, <2>1, <2>2
  <2>4. s = t
    <3> HIDE DEF s, t
    <3> QED BY <1>2, <2>3
  <2> QED BY <2>4
<1> QED BY <1>3, <1>4

-----------------------------------------------------------------------------
(* The ring and the peers *)

\* Points are never shared: each position belongs to one node at most.
Disjoint ==
    /\ spots \in [Node -> SUBSET Pos]
    /\ \A m, n \in Node : m # n => spots[m] \cap spots[n] = {}
    /\ \A n \in Node : spots[n] # {}

IndInv == TypeOK /\ Disjoint /\ RingIsOfKnown

LEMMA InitInd == Init => IndInv
<1> SUFFICES ASSUME Init PROVE IndInv
  OBVIOUS
<1> USE RingConstants
<1>1. spots \in [Node -> SUBSET Pos] /\ known \subseteq Node /\ Self \in known
  BY DEF Init
<1>2. Disjoint
  <2>1. \A n \in Node : Cardinality(spots[n]) = VirtualNodes
    BY DEF Init
  <2>2. Cardinality({}) = 0
    BY FS_EmptySet
  <2> QED BY <1>1, <2>1, <2>2 DEF Init, Disjoint
<1>3. \A n \in known : \A p \in spots[n] : ring[p] = n
  <2> SUFFICES ASSUME NEW n \in known, NEW p \in spots[n] PROVE ring[p] = n
    OBVIOUS
  <2>1. \A m \in known : p \in spots[m] => m = n
    BY <1>1, <1>2 DEF Disjoint
  <2>2. ring[p] = CHOOSE m \in known : p \in spots[m]
    BY DEF Init, RingOf
  <2> QED BY <2>1, <2>2
<1>4. DOMAIN ring = UNION {spots[n] : n \in known}
  BY DEF Init, RingOf
<1>5. TypeOK
  <2>1. \A p \in DOMAIN ring : p \in Pos /\ ring[p] \in known
    BY <1>1, <1>3, <1>4
  <2> QED BY <1>1, <2>1 DEF TypeOK
<1> QED BY <1>2, <1>3, <1>4, <1>5 DEF IndInv, RingIsOfKnown

LEMMA NextInd == IndInv /\ [Next]_vars => IndInv'
<1> SUFFICES ASSUME IndInv, [Next]_vars PROVE IndInv'
  OBVIOUS
<1> USE RingConstants DEF IndInv
<1>1. ASSUME NEW n \in Node, AddPeer(n) PROVE IndInv'
  <2>0. known' = known \cup {n} /\ spots' = spots /\ ring' = AddNode(ring, n) /\ n \notin known
    BY <1>1 DEF AddPeer
  <2>1. DOMAIN ring' = UNION {spots'[m] : m \in known'}
    BY <2>0 DEF AddNode, RingIsOfKnown
  <2>2. \A m \in known' : \A p \in spots'[m] : ring'[p] = m
    BY <2>0 DEF AddNode, RingIsOfKnown, TypeOK, Disjoint
  <2>3. Disjoint'
    BY <2>0 DEF Disjoint
  <2>4. TypeOK'
    <3>1. \A p \in DOMAIN ring' : p \in Pos /\ ring'[p] \in known'
      <4> SUFFICES ASSUME NEW p \in DOMAIN ring' PROVE p \in Pos /\ ring'[p] \in known'
        OBVIOUS
      <4>1. PICK m \in known' : p \in spots'[m]
        BY <2>1
      <4>2. m \in Node /\ spots'[m] \subseteq Pos
        BY <2>0 DEF TypeOK
      <4> QED BY <2>2, <4>1, <4>2
    <3>2. known' \subseteq Node /\ Self \in known' /\ spots' \in [Node -> SUBSET Pos]
      BY <2>0 DEF TypeOK
    <3> QED BY <3>1, <3>2 DEF TypeOK
  <2> QED BY <2>1, <2>2, <2>3, <2>4 DEF RingIsOfKnown
<1>2. ASSUME NEW n \in Node, RemovePeer(n) PROVE IndInv'
  <2>0. /\ known' = known \ {n} /\ spots' = spots /\ ring' = RemoveNode(ring, n)
        /\ n \in known /\ n # Self
    BY <1>2 DEF RemovePeer
  <2>1. DOMAIN ring' = UNION {spots'[m] : m \in known'}
    BY <2>0 DEF RemoveNode, RingIsOfKnown, TypeOK, Disjoint
  <2>2. \A m \in known' : \A p \in spots'[m] : ring'[p] = m
    BY <2>0 DEF RemoveNode, RingIsOfKnown, TypeOK, Disjoint
  <2>3. Disjoint'
    BY <2>0 DEF Disjoint
  <2>4. TypeOK'
    <3>1. \A p \in DOMAIN ring' : p \in Pos /\ ring'[p] \in known'
      <4> SUFFICES ASSUME NEW p \in DOMAIN ring' PROVE p \in Pos /\ ring'[p] \in known'
        OBVIOUS
      <4>1. PICK m \in known' : p \in spots'[m]
        BY <2>1
      <4>2. m \in Node /\ spots'[m] \subseteq Pos
        BY <2>0 DEF TypeOK
      <4> QED BY <2>2, <4>1, <4>2
    <3>2. known' \subseteq Node /\ Self \in known' /\ spots' \in [Node -> SUBSET Pos]
      BY <2>0 DEF TypeOK
    <3> QED BY <3>1, <3>2 DEF TypeOK
  <2> QED BY <2>1, <2>2, <2>3, <2>4 DEF RingIsOfKnown
<1>3. CASE UNCHANGED vars
  BY <1>3 DEF vars, TypeOK, Disjoint, RingIsOfKnown
<1> QED BY <1>1, <1>2, <1>3 DEF Next

\* The types of the ring, in every behaviour.
THEOREM TypeCorrect == Spec => []TypeOK
<1>1. IndInv => TypeOK
  BY DEF IndInv
<1> QED BY <1>1, InitInd, NextInd, PTL DEF Spec

\* The ring of a node is a function of the set of nodes it knows.
THEOREM RingAgrees == Spec => []RingIsOfKnown
<1>1. IndInv => RingIsOfKnown
  BY DEF IndInv
<1> QED BY <1>1, InitInd, NextInd, PTL DEF Spec

\* A peer that comes takes keys for itself and from nobody to nobody else; a
\* peer that goes gives up its own keys alone.
THEOREM KeysMoveMinimally == Spec => OnlyTheirKeysMove
<1> DEFINE Move == \A h \in Pos : GetNode(ring', h) # GetNode(ring, h) =>
                      \/ GetNode(ring', h) \in known' \ known
                      \/ GetNode(ring, h) \in known \ known'
<1>1. IndInv /\ IndInv' /\ [Next]_vars => [Move]_vars
  <2> SUFFICES ASSUME IndInv, IndInv', [Next]_vars, ~ UNCHANGED vars,
                      NEW h \in Pos, GetNode(ring', h) # GetNode(ring, h)
               PROVE  \/ GetNode(ring', h) \in known' \ known
                      \/ GetNode(ring, h) \in known \ known'
    OBVIOUS
  <2> USE RingConstants
  <2> DEFINE S == DOMAIN ring
             T == DOMAIN ring'
  <2>1. S \in SUBSET Nat /\ T \in SUBSET Nat /\ S # {} /\ T # {} /\ h \in Nat
    <3>1. S \subseteq Pos /\ T \subseteq Pos
      BY DEF IndInv, TypeOK
    <3>2. spots[Self] \subseteq S /\ spots'[Self] \subseteq T
      BY DEF IndInv, TypeOK, RingIsOfKnown
    <3>3. spots[Self] # {} /\ spots'[Self] # {}
      BY DEF IndInv, Disjoint
    <3> QED BY <3>1, <3>2, <3>3
  <2>2. Successor(S, h) \in S /\ Successor(T, h) \in T
    BY <2>1, SuccessorFacts
  <2>3. ASSUME NEW n \in Node, AddPeer(n) PROVE GetNode(ring', h) \in known' \ known
    <3>1. S \subseteq T /\ \A p \in S : p \notin spots[n] => ring'[p] = ring[p]
      BY <2>3 DEF AddPeer, AddNode
    <3>2. Successor(T, h) \notin S
      <4> SUFFICES ASSUME Successor(T, h) \in S PROVE FALSE
        OBVIOUS
      <4>1. Successor(S, h) = Successor(T, h)
        BY <2>1, <3>1, SuccessorKept
      <4>2. Successor(S, h) \notin spots[n]
        BY <2>2, <2>3 DEF AddPeer, IndInv, TypeOK, Disjoint, RingIsOfKnown
      <4> QED BY <2>2, <3>1, <4>1, <4>2 DEF GetNode
    <3>3. ring'[Successor(T, h)] = n
      BY <2>2, <2>3, <3>2 DEF AddPeer, AddNode
    <3> QED BY <2>3, <3>3 DEF AddPeer, GetNode
  <2>4. ASSUME NEW n \in Node, RemovePeer(n) PROVE GetNode(ring, h) \in known \ known'
    <3>1. T = S \ spots[n] /\ \A p \in T : ring'[p] = ring[p]
      BY <2>4 DEF RemovePeer, RemoveNode
    <3>2. Successor(S, h) \in spots[n]
      <4> SUFFICES ASSUME Successor(S, h) \notin spots[n] PROVE FALSE
        OBVIOUS
      <4>1. Successor(S, h) \in T
        BY <2>2, <3>1
      <4>2. Successor(T, h) = Successor(S, h)
        BY <2>1, <3>1, <4>1, SuccessorKept
      <4> QED BY <3>1, <4>1, <4>2 DEF GetNode
    <3>3. ring[Successor(S, h)] = n
      BY <2>4, <3>2 DEF RemovePeer, IndInv, RingIsOfKnown
    <3> QED BY <2>4, <3>3 DEF RemovePeer, GetNode
  <2> QED BY <2>3, <2>4 DEF Next
<1> QED BY <1>1, InitInd, NextInd, PTL DEF Spec, OnlyTheirKeysMove


-----------------------------------------------------------------------------
(* Ranks: the place of a position among the sorted ones                    *)

Rank(S, p) == Cardinality({q \in S : q < p})

LEMMA RankType ==
    ASSUME NEW S \in SUBSET Nat, IsFiniteSet(S), NEW p
    PROVE  IsFiniteSet({q \in S : q < p}) /\ Rank(S, p) \in Nat
<1>1. {q \in S : q < p} \in SUBSET S
  OBVIOUS
<1>2. IsFiniteSet({q \in S : q < p})
  BY <1>1, FS_Subset
<1> QED BY <1>2, FS_CardinalityType DEF Rank

LEMMA RankRises ==
    ASSUME NEW S \in SUBSET Nat, IsFiniteSet(S), NEW p \in S, NEW q \in S, p < q
    PROVE  Rank(S, p) < Rank(S, q)
<1> DEFINE P == {x \in S : x < p}
           Q == {x \in S : x < q}
<1>1. P \in SUBSET Q /\ p \in Q /\ p \notin P
  <2>1. \A x \in S : x < p => x < q
    OBVIOUS
  <2>2. P \in SUBSET Q
    BY <2>1
  <2>3. ~(p < p)
    OBVIOUS
  <2> QED BY <2>2, <2>3
<1>2. IsFiniteSet(Q) /\ Rank(S, p) \in Nat /\ Rank(S, q) \in Nat
  BY RankType
<1>3. Cardinality(P) <= Cardinality(Q) /\ (Cardinality(P) = Cardinality(Q) => P = Q)
  <2> HIDE DEF P, Q
  <2> QED BY <1>1, <1>2, FS_Subset
<1>4. Rank(S, p) <= Rank(S, q) /\ Rank(S, p) # Rank(S, q)
  BY <1>1, <1>3 DEF Rank
<1> QED BY <1>2, <1>4

LEMMA RankIsBelow ==
    ASSUME NEW S \in SUBSET Nat, IsFiniteSet(S), NEW p \in S
    PROVE  /\ Cardinality(S) \in Nat \ {0}
           /\ Rank(S, p) \in 0 .. Cardinality(S) - 1
<1> DEFINE P == {x \in S : x < p}
<1>1. P \in SUBSET S /\ P # S
  OBVIOUS
<1>2. Cardinality(S) \in Nat /\ Rank(S, p) \in Nat
  BY RankType, FS_CardinalityType
<1>3. Cardinality(P) <= Cardinality(S) /\ (Cardinality(S) = Cardinality(P) => S = P)
  <2> HIDE DEF P
  <2> QED BY <1>1, FS_Subset
<1>4. Rank(S, p) <= Cardinality(S) /\ Rank(S, p) # Cardinality(S)
  BY <1>1, <1>3 DEF Rank
<1> QED BY <1>2, <1>4

\* No two positions have one rank, so Nth finds the one that has it.
LEMMA NthOfRank ==
    ASSUME NEW S \in SUBSET Nat, IsFiniteSet(S), NEW p \in S
    PROVE  Nth(S, Rank(S, p)) = p
<1>1. ASSUME NEW q \in S, Rank(S, q) = Rank(S, p) PROVE q = p
  <2>1. ~(q < p) /\ ~(p < q)
    <3>1. Rank(S, p) \in Nat /\ Rank(S, q) \in Nat
      BY RankType
    <3>2. p < q => Rank(S, p) < Rank(S, q)
      BY RankRises
    <3>3. q < p => Rank(S, q) < Rank(S, p)
      BY RankRises
    <3> QED BY <1>1, <3>1, <3>2, <3>3
  <2>2. p \in Nat /\ q \in Nat
    OBVIOUS
  <2> QED BY <2>1, <2>2
<1>2. Nth(S, Rank(S, p)) = CHOOSE q \in S : Rank(S, q) = Rank(S, p)
  BY DEF Nth, Rank
<1> QED BY <1>1, <1>2

\* Every place up to the last is somebody's rank: the ranks are as many as the
\* places and no two are the same.
LEMMA RanksAreAll ==
    ASSUME NEW S \in SUBSET Nat, IsFiniteSet(S), S # {}, NEW i \in 0 .. Cardinality(S) - 1
    PROVE  \E p \in S : Rank(S, p) = i
<1> DEFINE T == 0 .. Cardinality(S) - 1
           F == [p \in S |-> Rank(S, p)]
<1>1. Cardinality(S) \in Nat \ {0}
  BY RankIsBelow
<1>2. IsFiniteSet(T) /\ Cardinality(T) = Cardinality(S)
  <2>1. \A c \in Nat \ {0} : IsFiniteSet(0 .. c - 1) /\ Cardinality(0 .. c - 1) = c
    <3> TAKE c \in Nat \ {0}
    <3>1. 0 \in Int /\ c - 1 \in Int /\ ~(0 > c - 1) /\ (c - 1) - 0 + 1 = c
      OBVIOUS
    <3> QED BY <3>1, FS_Interval
  <2> QED BY <1>1, <2>1
<1>3. F \in [S -> T]
  BY RankIsBelow
<1>4. \A p, q \in S : F[p] = F[q] => p = q
  BY NthOfRank
<1>5. F \in Injection(S, T)
  BY <1>3, <1>4 DEF Injection, IsInjective
<1>6. F \in Surjection(S, T)
  <2> HIDE DEF F, T
  <2> QED BY <1>2, <1>5, FS_Injection
<1>7. \E p \in S : F[p] = i
  BY <1>6 DEF Surjection
<1> QED BY <1>7

\* The walk begins at the key's successor.
LEMMA BisectIsRank ==
    ASSUME NEW S \in SUBSET Nat, S # {}, NEW h \in Nat
    PROVE  Bisect(S, h) = Rank(S, Successor(S, h))
<1>0. PICK s \in S : s = Successor(S, h)
  BY SuccessorFacts
<1>1. CASE \E p \in S : h <= p
  <2>1. h <= s /\ \A q \in S : h <= q => s <= q
    BY <1>0, <1>1, SuccessorFacts
  <2>2. \A q \in S : q < s <=> q < h
    <3> TAKE q \in S
    <3>1. q \in Nat /\ s \in Nat
      OBVIOUS
    <3> QED BY <2>1, <3>1
  <2>3. {q \in S : q < s} = {q \in S : q < h}
    BY <2>2
  <2> QED BY <1>0, <1>1, <2>3 DEF Bisect, Rank
<1>2. CASE \A p \in S : ~ (h <= p)
  <2>1. \A q \in S : s <= q
    BY <1>0, <1>2, SuccessorFacts
  <2>2. \A q \in S : ~(q < s)
    <3> TAKE q \in S
    <3>1. q \in Nat /\ s \in Nat
      OBVIOUS
    <3> QED BY <2>1, <3>1
  <2>3. {q \in S : q < s} = {}
    BY <2>2
  <2> QED BY <1>0, <1>2, <2>3, FS_EmptySet DEF Bisect, Rank
<1> QED BY <1>1, <1>2

-----------------------------------------------------------------------------
(* The points of the walk                                                  *)

\* The walk visits occupied positions only, the key's successor first, and each
\* of them.
LEMMA WalkGoesRound ==
    ASSUME NEW r, DOMAIN r \in SUBSET Nat, IsFiniteSet(DOMAIN r), DOMAIN r # {}, NEW h \in Nat
    PROVE  /\ Cardinality(DOMAIN r) \in Nat \ {0}
           /\ \A i \in 1 .. Cardinality(DOMAIN r) : \E p \in DOMAIN r : Visited(r, h, i) = r[p]
           /\ Visited(r, h, 1) = GetNode(r, h)
           /\ \A p \in DOMAIN r : \E i \in 1 .. Cardinality(DOMAIN r) : Visited(r, h, i) = r[p]
<1>0. PICK S \in SUBSET Nat : S = DOMAIN r
  OBVIOUS
<1>1. PICK s \in S : s = Successor(S, h)
  BY <1>0, SuccessorFacts
<1>2. PICK c : c = Cardinality(S)
  OBVIOUS
<1>3. PICK b : b = Bisect(S, h)
  OBVIOUS
<1>4. c \in Nat \ {0} /\ b \in 0 .. c - 1 /\ b = Rank(S, s)
  BY <1>0, <1>1, <1>2, <1>3, BisectIsRank, RankIsBelow
<1>5. \A i : Visited(r, h, i) = r[Nth(S, (b + i - 1) % c)]
  BY <1>0, <1>2, <1>3 DEF Visited
<1>6. \A i \in 1 .. c : \E p \in S : Visited(r, h, i) = r[p]
  <2> TAKE i \in 1 .. c
  <2>1. (b + i - 1) % c \in 0 .. c - 1
    <3>1. b + i - 1 \in Nat /\ c \in Nat /\ c > 0
      BY <1>4
    <3> QED BY <3>1
  <2>2. PICK p \in S : Rank(S, p) = (b + i - 1) % c
    BY <1>0, <1>2, <2>1, RanksAreAll
  <2>3. Nth(S, (b + i - 1) % c) = p
    BY <1>0, <2>2, NthOfRank
  <2> QED BY <1>5, <2>3
<1>7. Visited(r, h, 1) = GetNode(r, h)
  <2>1. b + 1 - 1 = b /\ b \in Nat /\ b < c /\ c \in Nat /\ c > 0
    BY <1>4
  <2>2. (b + 1 - 1) % c = b
    BY <2>1
  <2>3. Nth(S, b) = s
    BY <1>0, <1>4, NthOfRank
  <2> QED BY <1>0, <1>1, <1>5, <2>2, <2>3 DEF GetNode
<1>8. \A p \in S : \E i \in 1 .. c : Visited(r, h, i) = r[p]
  <2> TAKE p \in S
  <2>1. PICK k \in 0 .. c - 1 : k = Rank(S, p)
    BY <1>0, <1>2, RankIsBelow
  <2>2. Nth(S, k) = p
    BY <1>0, <2>1, NthOfRank
  <2>3. \E i \in 1 .. c : (b + i - 1) % c = k
    <3>1. CASE b <= k
      <4>1. k - b + 1 \in 1 .. c /\ b + (k - b + 1) - 1 = k /\ k \in Nat /\ k < c /\ c \in Nat /\ c > 0
        BY <1>4, <3>1
      <4>2. (b + (k - b + 1) - 1) % c = k
        BY <4>1
      <4> QED BY <4>1, <4>2
    <3>2. CASE k < b
      <4>1. /\ k + c - b + 1 \in 1 .. c /\ b + (k + c - b + 1) - 1 = k + c
            /\ k \in Nat /\ k < c /\ c \in Nat /\ c > 0
        BY <1>4, <3>2
      <4>2. (k + c) % c = k
        BY <4>1
      <4> QED BY <4>1, <4>2
    <3>3. b <= k \/ k < b
      BY <1>4
    <3> QED BY <3>1, <3>2, <3>3
  <2> QED BY <1>5, <2>2, <2>3
<1> QED BY <1>0, <1>2, <1>4, <1>6, <1>7, <1>8

-----------------------------------------------------------------------------
(* The walk                                                                *)

\* What one point of the walk makes of the nodes taken so far.
Take(r, h, n, sofar, i) ==
    IF Visited(r, h, i) \in ToSet(sofar) \/ (i > 1 /\ Len(sofar) = n)
    THEN sofar ELSE Append(sofar, Visited(r, h, i))

Walks(f, r, h, n, m) ==
    f = [i \in 0 .. m |-> IF i = 0 THEN <<>> ELSE Take(r, h, n, f[i - 1], i)]

\* There is a walk of every length: the first length that had none would be one
\* point longer than a walk.
LEMMA WalkExists ==
    ASSUME NEW r, NEW h, NEW n, NEW m \in Nat
    PROVE  \E f : Walks(f, r, h, n, m)
<1> DEFINE Missing == {k \in Nat : ~\E f : Walks(f, r, h, n, k)}
<1> SUFFICES ASSUME Missing # {} PROVE FALSE
  OBVIOUS
<1>1. PICK k \in Missing : \A q \in Missing : k <= q
  BY LeastExists
<1>2. k \in Nat /\ ~\E f : Walks(f, r, h, n, k)
  OBVIOUS
<1>3. CASE k = 0
  <2>1. Walks([i \in 0 .. 0 |-> <<>>], r, h, n, 0)
    BY DEF Walks
  <2> QED BY <1>2, <1>3, <2>1
<1>4. CASE k # 0
  <2>1. k - 1 \in Nat /\ k - 1 \notin Missing
    BY <1>1, <1>2, <1>4
  <2>2. PICK f : Walks(f, r, h, n, k - 1)
    BY <2>1
  <2> DEFINE g == [i \in 0 .. k |-> IF i = k THEN Take(r, h, n, f[k - 1], k) ELSE f[i]]
  <2>3. \A i \in 0 .. k : g[i] = IF i = 0 THEN <<>> ELSE Take(r, h, n, g[i - 1], i)
    <3> TAKE i \in 0 .. k
    <3>1. CASE i = k
      <4>1. k - 1 \in 0 .. k /\ k - 1 # k
        BY <1>2, <1>4
      <4>2. g[k - 1] = f[k - 1]
        BY <4>1
      <4> QED BY <1>4, <3>1, <4>2
    <3>2. CASE i # k
      <4>1. i \in 0 .. k - 1 /\ (i # 0 => i - 1 \in 0 .. k /\ i - 1 # k)
        BY <1>2, <3>2
      <4>2. f[i] = IF i = 0 THEN <<>> ELSE Take(r, h, n, f[i - 1], i)
        BY <2>2, <4>1 DEF Walks
      <4>3. g[i] = f[i] /\ (i # 0 => g[i - 1] = f[i - 1])
        BY <3>2, <4>1
      <4> QED BY <4>2, <4>3
    <3> QED BY <3>1, <3>2
  <2>4. Walks(g, r, h, n, k)
    <3> HIDE DEF g
    <3>1. g = [i \in 0 .. k |-> g[i]]
      BY DEF g
    <3> QED BY <2>3, <3>1 DEF Walks
  <2> QED BY <1>2, <2>4
<1> QED BY <1>3, <1>4

LEMMA TakenWalks ==
    ASSUME NEW r, NEW h, NEW n, Cardinality(DOMAIN r) \in Nat
    PROVE  Walks(Taken(r, h, n), r, h, n, Cardinality(DOMAIN r))
<1>1. Taken(r, h, n) = CHOOSE f : Walks(f, r, h, n, Cardinality(DOMAIN r))
  BY DEF Taken, Walks, Take
<1>2. \E f : Walks(f, r, h, n, Cardinality(DOMAIN r))
  BY WalkExists
<1> HIDE DEF Walks
<1> QED BY <1>1, <1>2

\* What the walk has taken after i points, when n are asked for: distinct nodes
\* of the ring, the owner first, and n of them or all that were met.
Good(r, h, n, s, i) ==
    /\ s \in Seq({r[p] : p \in DOMAIN r})
    /\ IsInjective(s)
    /\ Len(s) <= n
    /\ i > 0 => Len(s) > 0 /\ s[1] = Visited(r, h, 1)
    /\ i = 0 => s = <<>>
    /\ Len(s) = n \/ \A j \in 1 .. i : Visited(r, h, j) \in ToSet(s)

\* Taking a node that is not there yet keeps nodes distinct.
LEMMA AppendIsInjective ==
    ASSUME NEW S, NEW s \in Seq(S), NEW e \in S, IsInjective(s), e \notin ToSet(s)
    PROVE  /\ IsInjective(Append(s, e))
           /\ ToSet(Append(s, e)) = ToSet(s) \cup {e}
<1>1. /\ Append(s, e) \in Seq(S)
      /\ Len(s) \in Nat /\ Len(Append(s, e)) = Len(s) + 1
      /\ \A i \in 1 .. Len(s) : Append(s, e)[i] = s[i]
      /\ Append(s, e)[Len(s) + 1] = e
  OBVIOUS
<1>2. DOMAIN s = 1 .. Len(s) /\ DOMAIN Append(s, e) = 1 .. Len(s) + 1
  BY <1>1
<1>3. \A i \in 1 .. Len(s) : s[i] # e
  BY <1>2 DEF ToSet
<1>4. \A i \in 1 .. Len(s) + 1 : i \in 1 .. Len(s) \/ i = Len(s) + 1
  BY <1>1
<1>5. IsInjective(Append(s, e))
  <2> SUFFICES ASSUME NEW a \in 1 .. Len(s) + 1, NEW b \in 1 .. Len(s) + 1,
                      Append(s, e)[a] = Append(s, e)[b]
               PROVE  a = b
    BY <1>2 DEF IsInjective
  <2>1. CASE a \in 1 .. Len(s) /\ b \in 1 .. Len(s)
    BY <1>1, <1>2, <2>1 DEF IsInjective
  <2>2. CASE a = Len(s) + 1 /\ b \in 1 .. Len(s)
    BY <1>1, <1>3, <2>2
  <2>3. CASE b = Len(s) + 1 /\ a \in 1 .. Len(s)
    BY <1>1, <1>3, <2>3
  <2> QED BY <1>4, <2>1, <2>2, <2>3
<1>6. ToSet(Append(s, e)) = ToSet(s) \cup {e}
  <2>1. \A x \in ToSet(Append(s, e)) : x \in ToSet(s) \cup {e}
    BY <1>1, <1>2, <1>4 DEF ToSet
  <2>2. \A x \in ToSet(s) : x \in ToSet(Append(s, e))
    <3> TAKE x \in ToSet(s)
    <3>1. PICK i \in 1 .. Len(s) : s[i] = x
      BY <1>2 DEF ToSet
    <3>2. i \in 1 .. Len(s) + 1 /\ Append(s, e)[i] = x
      BY <1>1, <3>1
    <3> QED BY <1>2, <3>2 DEF ToSet
  <2>3. e \in ToSet(Append(s, e))
    <3>1. Len(s) + 1 \in 1 .. Len(s) + 1
      BY <1>1
    <3> QED BY <1>1, <1>2, <3>1 DEF ToSet
  <2> QED BY <2>1, <2>2, <2>3
<1> QED BY <1>5, <1>6

LEMMA TakeIsGood ==
    ASSUME NEW r, DOMAIN r \in SUBSET Nat, IsFiniteSet(DOMAIN r), DOMAIN r # {}, NEW h \in Nat,
           NEW n \in Nat \ {0}, NEW i \in 1 .. Cardinality(DOMAIN r),
           NEW s, Good(r, h, n, s, i - 1)
    PROVE  Good(r, h, n, Take(r, h, n, s, i), i)
<1> DEFINE K == {r[p] : p \in DOMAIN r}
           v == Visited(r, h, i)
<1>1. v \in K /\ i \in Nat \ {0}
  <2>1. Cardinality(DOMAIN r) \in Nat \ {0} /\ \E p \in DOMAIN r : v = r[p]
    BY WalkGoesRound
  <2> QED BY <2>1
<1>2. /\ s \in Seq(K) /\ IsInjective(s) /\ Len(s) \in Nat /\ Len(s) <= n
      /\ i > 1 => Len(s) > 0 /\ s[1] = Visited(r, h, 1)
      /\ i = 1 => s = <<>>
      /\ Len(s) = n \/ \A j \in 1 .. i - 1 : Visited(r, h, j) \in ToSet(s)
  BY <1>1 DEF Good
<1>3. \A j \in 1 .. i : j \in 1 .. i - 1 \/ j = i
  BY <1>1
<1>4. CASE v \in ToSet(s)
  <2>1. i > 1
    BY <1>1, <1>2, <1>4 DEF ToSet
  <2>2. Len(s) = n \/ \A j \in 1 .. i : Visited(r, h, j) \in ToSet(s)
    BY <1>2, <1>3, <1>4
  <2> QED BY <1>1, <1>2, <1>4, <2>1, <2>2 DEF Good, Take
<1>5. CASE v \notin ToSet(s) /\ i > 1 /\ Len(s) = n
  BY <1>1, <1>2, <1>5 DEF Good, Take
<1>6. CASE v \notin ToSet(s) /\ ~(i > 1 /\ Len(s) = n)
  <2>1. Take(r, h, n, s, i) = Append(s, v)
    BY <1>6 DEF Take
  <2>2. IsInjective(Append(s, v)) /\ ToSet(Append(s, v)) = ToSet(s) \cup {v}
    <3> HIDE DEF K, v
    <3> QED BY <1>1, <1>2, <1>6, AppendIsInjective
  <2>3. /\ Append(s, v) \in Seq(K) /\ Len(Append(s, v)) = Len(s) + 1
        /\ Len(s) > 0 => Append(s, v)[1] = s[1]
        /\ Len(s) = 0 => Append(s, v)[1] = v
    <3> HIDE DEF K, v
    <3> QED BY <1>1, <1>2
  <2>4. Len(s) # n
    BY <1>1, <1>2, <1>6
  <2>5. Len(Append(s, v)) <= n /\ Len(Append(s, v)) > 0
    BY <1>2, <2>3, <2>4
  <2>6. Append(s, v)[1] = Visited(r, h, 1)
    <3>1. CASE i = 1
      BY <1>2, <2>3, <3>1
    <3>2. CASE i > 1
      BY <1>2, <2>3, <3>2
    <3> QED BY <1>1, <3>1, <3>2
  <2>7. \A j \in 1 .. i : Visited(r, h, j) \in ToSet(Append(s, v))
    BY <1>2, <1>3, <2>2, <2>4
  <2> QED BY <1>1, <2>1, <2>2, <2>3, <2>5, <2>6, <2>7 DEF Good
<1> QED BY <1>4, <1>5, <1>6

LEMMA TakenIsGood ==
    ASSUME NEW r, DOMAIN r \in SUBSET Nat, IsFiniteSet(DOMAIN r), DOMAIN r # {}, NEW h \in Nat,
           NEW n \in Nat \ {0}
    PROVE  Good(r, h, n, GetNodes(r, h, n), Cardinality(DOMAIN r))
<1>0. PICK c \in Nat \ {0} : c = Cardinality(DOMAIN r)
  BY WalkGoesRound
<1>1. PICK f : f = Taken(r, h, n)
  OBVIOUS
<1>2. Walks(f, r, h, n, c)
  BY <1>0, <1>1, TakenWalks
<1> DEFINE Bad == {k \in 0 .. c : ~Good(r, h, n, f[k], k)}
<1>3. Bad = {}
  <2> SUFFICES ASSUME Bad # {} PROVE FALSE
    OBVIOUS
  <2>0. Bad \in SUBSET Nat
    OBVIOUS
  <2>1. PICK k \in Bad : \A q \in Bad : k <= q
    BY <2>0, LeastExists
  <2>2. k \in 0 .. c /\ ~Good(r, h, n, f[k], k)
    OBVIOUS
  <2>3. CASE k = 0
    <3>1. f[0] = <<>>
      BY <1>0, <1>2 DEF Walks
    <3>2. Good(r, h, n, <<>>, 0)
      BY DEF Good, IsInjective
    <3> QED BY <2>2, <2>3, <3>1, <3>2
  <2>4. CASE k # 0
    <3>1. k - 1 \in 0 .. c /\ k - 1 < k /\ k \in 1 .. c
      BY <2>2, <2>4
    <3>2. Good(r, h, n, f[k - 1], k - 1)
      BY <2>1, <3>1
    <3>3. f[k] = Take(r, h, n, f[k - 1], k)
      BY <1>2, <2>2, <2>4 DEF Walks
    <3> QED BY <1>0, <2>2, <3>1, <3>2, <3>3, TakeIsGood
  <2> QED BY <2>3, <2>4
<1>4. Good(r, h, n, f[c], c)
  BY <1>0, <1>3
<1> QED BY <1>0, <1>1, <1>4 DEF GetNodes

-----------------------------------------------------------------------------
(* The replicas of a key                                                   *)

\* A node that knows its peers asks a ring that is finite and not empty, whose
\* nodes are the known ones.
LEMMA RingIsWalked ==
    ASSUME IndInv
    PROVE  /\ DOMAIN ring \in SUBSET Nat /\ IsFiniteSet(DOMAIN ring) /\ DOMAIN ring # {}
           /\ {ring[p] : p \in DOMAIN ring} = known
           /\ \A h \in Pos : h \in Nat
           /\ Cardinality(Node) \in Nat
<1>1. DOMAIN ring \in SUBSET Pos /\ Pos \subseteq Nat /\ IsFiniteSet(Pos) /\ IsFiniteSet(Node)
  BY RingConstants DEF IndInv, TypeOK
<1>2. IsFiniteSet(DOMAIN ring)
  BY <1>1, FS_Subset
<1>3. \A n \in known : n \in Node /\ spots[n] # {} /\ spots[n] \subseteq DOMAIN ring
                       /\ \A p \in spots[n] : ring[p] = n
  BY DEF IndInv, TypeOK, Disjoint, RingIsOfKnown
<1>4. DOMAIN ring # {}
  BY <1>3 DEF IndInv, TypeOK
<1>5. \A n \in known : \E p \in DOMAIN ring : ring[p] = n
  BY <1>3
<1>6. \A p \in DOMAIN ring : ring[p] \in known
  BY DEF IndInv, TypeOK
<1>7. {ring[p] : p \in DOMAIN ring} = known
  BY <1>5, <1>6
<1> QED BY <1>1, <1>2, <1>4, <1>7, FS_CardinalityType

\* The first of a key's replicas is its owner, for every hash placement, number
\* of copies and history of peers: put writes to the one and copies to the rest
\* of the other.
THEOREM OwnersComeFirst == Spec => []OwnerIsFirstReplica
<1>1. IndInv => OwnerIsFirstReplica
  <2> SUFFICES ASSUME IndInv, NEW h \in Pos, NEW n \in 1 .. Cardinality(Node)
               PROVE  GetNodes(ring, h, n)[1] = GetNode(ring, h)
    BY DEF OwnerIsFirstReplica
  <2>1. h \in Nat /\ n \in Nat \ {0}
    BY RingIsWalked
  <2>2. Good(ring, h, n, GetNodes(ring, h, n), Cardinality(DOMAIN ring))
    BY <2>1, RingIsWalked, TakenIsGood
  <2>3. Cardinality(DOMAIN ring) \in Nat \ {0} /\ Visited(ring, h, 1) = GetNode(ring, h)
    BY <2>1, RingIsWalked, WalkGoesRound
  <2> QED BY <2>2, <2>3 DEF Good
<1> QED BY <1>1, InitInd, NextInd, PTL DEF Spec

\* A sequence without repetitions is as long as the set of what is in it.
LEMMA InjectiveCounts ==
    ASSUME NEW S, NEW s \in Seq(S), IsInjective(s)
    PROVE  IsFiniteSet(ToSet(s)) /\ Cardinality(ToSet(s)) = Len(s) /\ Len(s) \in Nat
<1>1. Len(s) \in Nat /\ DOMAIN s = 1 .. Len(s) /\ ToSet(s) = {s[i] : i \in 1 .. Len(s)}
  BY DEF ToSet
<1>2. [i \in 1 .. Len(s) |-> s[i]] \in Bijection(1 .. Len(s), ToSet(s))
  BY <1>1 DEF Bijection, Injection, Surjection, IsInjective
<1>3. IsFiniteSet(1 .. Len(s)) /\ Cardinality(1 .. Len(s)) = Len(s)
  <2>1. \A c \in Nat : IsFiniteSet(1 .. c) /\ Cardinality(1 .. c) = c
    <3> TAKE c \in Nat
    <3>1. 1 \in Int /\ c \in Int /\ (IF 1 > c THEN 0 ELSE c - 1 + 1) = c
      OBVIOUS
    <3> QED BY <3>1, FS_Interval
  <2> QED BY <1>1, <2>1
<1>4. ExistsBijection(1 .. Len(s), ToSet(s))
  BY <1>2 DEF ExistsBijection
<1> QED BY <1>1, <1>3, <1>4, FS_Bijection

\* get_nodes returns distinct known nodes, as many as it is asked for or all.
THEOREM CopiesAreDistinct == Spec => []ReplicasAreDistinct
<1>1. IndInv => ReplicasAreDistinct
  <2> SUFFICES ASSUME IndInv, NEW h \in Pos, NEW n \in 1 .. Cardinality(Node) + 1
               PROVE  LET nodes == GetNodes(ring, h, n)
                      IN  /\ IsInjective(nodes)
                          /\ ToSet(nodes) \subseteq known
                          /\ Len(nodes) = IF n < Cardinality(known) THEN n ELSE Cardinality(known)
    BY DEF ReplicasAreDistinct
  <2>1. h \in Nat /\ n \in Nat \ {0}
    BY RingIsWalked
  <2>2. PICK s : s = GetNodes(ring, h, n)
    OBVIOUS
  <2>3. Good(ring, h, n, s, Cardinality(DOMAIN ring))
    BY <2>1, <2>2, RingIsWalked, TakenIsGood
  <2>4. s \in Seq(known) /\ IsInjective(s) /\ Len(s) <= n
    BY <2>3, RingIsWalked DEF Good
  <2>5. IsFiniteSet(ToSet(s)) /\ Cardinality(ToSet(s)) = Len(s) /\ Len(s) \in Nat
    BY <2>4, InjectiveCounts
  <2>6. ToSet(s) \in SUBSET known
    BY <2>4 DEF ToSet
  <2>7. IsFiniteSet(known) /\ Cardinality(known) \in Nat
    <3>1. known \in SUBSET Node
      BY DEF IndInv, TypeOK
    <3>2. IsFiniteSet(known)
      BY <3>1, RingConstants, FS_Subset
    <3> QED BY <3>2, FS_CardinalityType
  <2>8. Len(s) <= Cardinality(known)
    BY <2>5, <2>6, <2>7, FS_Subset
  <2>9. Len(s) = n \/ Len(s) = Cardinality(known)
    <3> SUFFICES ASSUME Len(s) # n PROVE Len(s) = Cardinality(known)
      OBVIOUS
    <3>1. \A p \in DOMAIN ring : ring[p] \in ToSet(s)
      <4> TAKE p \in DOMAIN ring
      <4>1. PICK i \in 1 .. Cardinality(DOMAIN ring) : Visited(ring, h, i) = ring[p]
        BY <2>1, RingIsWalked, WalkGoesRound
      <4> QED BY <2>3, <4>1 DEF Good
    <3>2. known \subseteq ToSet(s)
      BY <3>1, RingIsWalked
    <3>3. ToSet(s) = known
      BY <2>6, <3>2
    <3> QED BY <2>5, <3>3
  <2>10. Len(s) = IF n < Cardinality(known) THEN n ELSE Cardinality(known)
    BY <2>1, <2>4, <2>5, <2>7, <2>8, <2>9
  <2> QED BY <2>2, <2>4, <2>6, <2>10
<1> QED BY <1>1, InitInd, NextInd, PTL DEF Spec

-----------------------------------------------------------------------------
(* The order of the replicas                                               *)

\* The i-th point of the walk, where Visited finds its i-th node.
Point(S, h, i) == Nth(S, (Bisect(S, h) + i - 1) % Cardinality(S))

\* Going round the circle from h, p is met before q.
Sooner(h, p, q) ==
    \/ h <= p /\ q < h
    \/ (h <= p <=> h <= q) /\ p < q

\* The smaller rank is the smaller position's.
LEMMA RankOrders ==
    ASSUME NEW S \in SUBSET Nat, IsFiniteSet(S), NEW p \in S, NEW q \in S
    PROVE  Rank(S, p) < Rank(S, q) <=> p < q
<1>1. Rank(S, p) \in Nat /\ Rank(S, q) \in Nat
  BY RankType
<1>2. p < q => Rank(S, p) < Rank(S, q)
  BY RankRises
<1>3. q < p => Rank(S, q) < Rank(S, p)
  BY RankRises
<1>4. p = q => Rank(S, p) = Rank(S, q)
  OBVIOUS
<1>5. p \in Nat /\ q \in Nat
  OBVIOUS
<1> QED BY <1>1, <1>2, <1>3, <1>4, <1>5

\* The rank of the i-th point: the count from the successor on, round the circle.
LEMMA PointRank ==
    ASSUME NEW S \in SUBSET Nat, IsFiniteSet(S), S # {}, NEW h \in Nat,
           NEW i \in 1 .. Cardinality(S)
    PROVE  /\ Point(S, h, i) \in S
           /\ Rank(S, Point(S, h, i)) =
                 IF Bisect(S, h) + i - 1 < Cardinality(S) THEN Bisect(S, h) + i - 1
                 ELSE Bisect(S, h) + i - 1 - Cardinality(S)
<1>1. PICK c : c = Cardinality(S)
  OBVIOUS
<1>2. PICK s \in S : s = Successor(S, h)
  BY SuccessorFacts
<1>3. PICK b : b = Bisect(S, h)
  OBVIOUS
<1>4. c \in Nat \ {0} /\ b \in 0 .. c - 1 /\ b = Rank(S, s)
  BY <1>1, <1>2, <1>3, BisectIsRank, RankIsBelow
<1>5. \A k \in 1 .. c : (b + k - 1) % c = IF b + k - 1 < c THEN b + k - 1 ELSE b + k - 1 - c
  <2> TAKE k \in 1 .. c
  <2>1. k \in Nat /\ b \in Nat /\ c \in Nat /\ c > 0 /\ b + k - 1 \in Nat /\ b + k - 1 < 2 * c
    BY <1>4
  <2>2. CASE b + k - 1 < c
    BY <2>1, <2>2
  <2>3. CASE ~(b + k - 1 < c)
    <3>1. PICK d \in Nat : d = b + k - 1 - c
      BY <2>1, <2>3
    <3>2. d < c /\ b + k - 1 = d + c
      BY <2>1, <3>1
    <3>3. (d + c) % c = d
      BY <2>1, <3>2
    <3> QED BY <2>3, <3>1, <3>2, <3>3
  <2> QED BY <2>2, <2>3
<1>6. \A k \in 1 .. c : /\ Point(S, h, k) \in S
                        /\ Rank(S, Point(S, h, k)) = (b + k - 1) % c
  <2> TAKE k \in 1 .. c
  <2>1. (b + k - 1) % c \in 0 .. c - 1
    BY <1>4, <1>5
  <2>2. PICK p \in S : Rank(S, p) = (b + k - 1) % c
    BY <1>1, <2>1, RanksAreAll
  <2>3. Nth(S, (b + k - 1) % c) = p
    BY <2>2, NthOfRank
  <2> QED BY <1>1, <1>3, <2>2, <2>3 DEF Point
<1> QED BY <1>1, <1>3, <1>5, <1>6

\* The walk goes through the positions from h on, and then through those below.
LEMMA PointsInOrder ==
    ASSUME NEW S \in SUBSET Nat, IsFiniteSet(S), S # {}, NEW h \in Nat,
           NEW i \in 1 .. Cardinality(S), NEW j \in 1 .. Cardinality(S), i < j
    PROVE  /\ Point(S, h, i) \in S /\ Point(S, h, j) \in S
           /\ Sooner(h, Point(S, h, i), Point(S, h, j))
<1>1. PICK c : c = Cardinality(S)
  OBVIOUS
<1>2. PICK s \in S : s = Successor(S, h)
  BY SuccessorFacts
<1>3. PICK b : b = Bisect(S, h)
  OBVIOUS
<1>4. c \in Nat \ {0} /\ b \in 0 .. c - 1 /\ b = Rank(S, s)
  BY <1>1, <1>2, <1>3, BisectIsRank, RankIsBelow
<1>5. \A k \in 1 .. c : /\ Point(S, h, k) \in S
                        /\ Rank(S, Point(S, h, k)) =
                              IF b + k - 1 < c THEN b + k - 1 ELSE b + k - 1 - c
  BY <1>1, <1>3, PointRank
<1>7. PICK p \in S : p = Point(S, h, i)
  BY <1>1, <1>5
<1>8. PICK q \in S : q = Point(S, h, j)
  BY <1>1, <1>5
<1>9. PICK u : u = Rank(S, p)
  OBVIOUS
<1>10. PICK w : w = Rank(S, q)
  OBVIOUS
<1>11. /\ u = IF b + i - 1 < c THEN b + i - 1 ELSE b + i - 1 - c
       /\ w = IF b + j - 1 < c THEN b + j - 1 ELSE b + j - 1 - c
  BY <1>1, <1>5, <1>7, <1>8, <1>9, <1>10
<1>12. i \in Nat /\ j \in Nat /\ i < j /\ j <= c /\ i >= 1 /\ c \in Nat /\ b \in Nat /\ b < c
  BY <1>1, <1>4
<1>13. u < w <=> p < q
  BY <1>9, <1>10, RankOrders
<1>14. p \in Nat /\ q \in Nat /\ s \in Nat
  OBVIOUS
<1>15. CASE \E x \in S : h <= x
  <2>1. h <= s /\ \A x \in S : h <= x => s <= x
    BY <1>2, <1>15, SuccessorFacts
  <2>2. (h <= p <=> ~(p < s)) /\ (h <= q <=> ~(q < s))
    BY <1>14, <2>1
  <2>3. (u < b <=> p < s) /\ (w < b <=> q < s)
    BY <1>4, <1>9, <1>10, RankOrders
  <2>4. (h <= p <=> ~(u < b)) /\ (h <= q <=> ~(w < b))
    BY <2>2, <2>3
  <2>5. CASE b + j - 1 < c
    BY <1>11, <1>12, <1>13, <2>4, <2>5, <1>7, <1>8 DEF Sooner
  <2>6. CASE ~(b + j - 1 < c) /\ b + i - 1 < c
    <3>1. h <= p /\ ~(h <= q)
      BY <1>11, <1>12, <2>4, <2>6
    <3>2. q < h
      BY <3>1, <1>14
    <3> QED BY <3>1, <3>2, <1>7, <1>8 DEF Sooner
  <2>7. CASE ~(b + i - 1 < c)
    <3>1. u < b /\ w < b /\ u < w
      BY <1>11, <1>12, <2>7
    <3> QED BY <3>1, <1>13, <2>4, <1>7, <1>8 DEF Sooner
  <2> QED BY <2>5, <2>6, <2>7
<1>16. CASE \A x \in S : ~(h <= x)
  <2>1. b = 0
    BY <1>3, <1>16 DEF Bisect
  <2>2. u < w
    BY <1>11, <1>12, <2>1
  <2> QED BY <1>13, <1>16, <2>2, <1>7, <1>8 DEF Sooner
<1> QED BY <1>15, <1>16

\* A node is ahead of another when one of its points is met before all of the
\* other's.  This depends on where the points are and not on who else is there.
Ahead(sp, h, m, k) == \E p \in sp[m] : \A q \in sp[k] : Sooner(h, p, q)

LEMMA AheadIsOneWay ==
    ASSUME NEW sp, NEW h \in Nat, NEW m, NEW k, sp[m] \in SUBSET Nat, sp[k] \in SUBSET Nat,
           Ahead(sp, h, m, k)
    PROVE  ~Ahead(sp, h, k, m)
<1> SUFFICES ASSUME Ahead(sp, h, k, m) PROVE FALSE
  OBVIOUS
<1>1. PICK p \in sp[m] : \A q \in sp[k] : Sooner(h, p, q)
  BY DEF Ahead
<1>2. PICK q \in sp[k] : \A x \in sp[m] : Sooner(h, q, x)
  BY DEF Ahead
<1>3. Sooner(h, p, q) /\ Sooner(h, q, p) /\ p \in Nat /\ q \in Nat
  BY <1>1, <1>2
<1> QED BY <1>3 DEF Sooner

\* By the i-th point the walk has met m, and k not before it.
Met(r, h, m, k, i) ==
    \E j \in 1 .. i : Visited(r, h, j) = m /\ \A l \in 1 .. j : Visited(r, h, l) # k

\* The nodes taken were met in their order, and before every other.
Lined(r, h, s, i) ==
    \A a \in DOMAIN s :
        /\ \A b \in DOMAIN s : a < b => Met(r, h, s[a], s[b], i)
        /\ \A k : k \notin ToSet(s) => Met(r, h, s[a], k, i)

LEMMA TakeIsLined ==
    ASSUME NEW r, DOMAIN r \in SUBSET Nat, IsFiniteSet(DOMAIN r), DOMAIN r # {}, NEW h \in Nat,
           NEW n \in Nat \ {0}, NEW i \in 1 .. Cardinality(DOMAIN r),
           NEW s, Good(r, h, n, s, i - 1), Lined(r, h, s, i - 1)
    PROVE  Lined(r, h, Take(r, h, n, s, i), i)
<1>1. PICK v : v = Visited(r, h, i)
  OBVIOUS
<1>2. Cardinality(DOMAIN r) \in Nat /\ i \in Nat \ {0}
  <2>1. Cardinality(DOMAIN r) \in Nat
    BY FS_CardinalityType
  <2> QED BY <2>1
<1>3. \A m, k : Met(r, h, m, k, i - 1) => Met(r, h, m, k, i)
  <2>1. \A j \in 1 .. i - 1 : j \in 1 .. i
    BY <1>2
  <2> QED BY <2>1 DEF Met
<1>4. CASE Take(r, h, n, s, i) = s
  BY <1>3, <1>4 DEF Lined
<1>5. CASE Take(r, h, n, s, i) # s
  <2>1. Take(r, h, n, s, i) = Append(s, v) /\ v \notin ToSet(s) /\ ~(i > 1 /\ Len(s) = n)
    BY <1>1, <1>5 DEF Take
  <2>2. PICK K : s \in Seq(K) /\ v \in K
    <3>1. s \in Seq({r[p] : p \in DOMAIN r})
      BY DEF Good
    <3>2. v \in {r[p] : p \in DOMAIN r}
      BY <1>1, WalkGoesRound
    <3> QED BY <3>1, <3>2
  <2>3. Len(s) \in Nat /\ IsInjective(s) /\ Len(s) <= n
    BY <2>2 DEF Good
  <2>4. \A j \in 1 .. i - 1 : Visited(r, h, j) \in ToSet(s)
    <3>1. CASE i = 1
      BY <3>1
    <3>2. CASE i # 1
      <4>1. i > 1 /\ Len(s) # n
        BY <1>2, <2>1, <3>2
      <4> QED BY <4>1 DEF Good
    <3> QED BY <3>1, <3>2
  <2>5. \A j \in 1 .. i : j \in 1 .. i - 1 \/ j = i
    BY <1>2
  <2>6. PICK t : t = Append(s, v)
    OBVIOUS
  <2>7. /\ DOMAIN s = 1 .. Len(s) /\ DOMAIN t = 1 .. Len(s) + 1
        /\ \A a \in DOMAIN s : t[a] = s[a]
        /\ t[Len(s) + 1] = v
    BY <2>2, <2>6
  <2>8. ToSet(t) = ToSet(s) \cup {v}
    BY <2>1, <2>2, <2>3, <2>6, AppendIsInjective
  <2>9. \A a \in DOMAIN t : a \in DOMAIN s \/ a = Len(s) + 1
    BY <2>3, <2>7
  <2>10. ASSUME NEW a \in DOMAIN t, NEW b \in DOMAIN t, a < b
         PROVE  Met(r, h, t[a], t[b], i)
    <3>1. a \in DOMAIN s
      BY <2>3, <2>7, <2>9, <2>10
    <3>2. CASE b \in DOMAIN s
      BY <1>3, <2>7, <2>10, <3>1, <3>2 DEF Lined
    <3>3. CASE b = Len(s) + 1
      BY <1>3, <2>1, <2>7, <3>1, <3>3 DEF Lined
    <3> QED BY <2>9, <3>2, <3>3
  <2>11. ASSUME NEW a \in DOMAIN t, NEW k, k \notin ToSet(t)
         PROVE  Met(r, h, t[a], k, i)
    <3>1. k \notin ToSet(s) /\ k # v
      BY <2>8, <2>11
    <3>2. CASE a \in DOMAIN s
      BY <1>3, <2>7, <3>1, <3>2 DEF Lined
    <3>3. CASE a = Len(s) + 1
      <4>1. \A l \in 1 .. i : Visited(r, h, l) # k
        BY <1>1, <2>4, <2>5, <3>1
      <4>2. i \in 1 .. i
        BY <1>2
      <4> QED BY <1>1, <2>7, <3>3, <4>1, <4>2 DEF Met
    <3> QED BY <2>9, <3>2, <3>3
  <2>12. Lined(r, h, t, i)
    BY <2>10, <2>11 DEF Lined
  <2> QED BY <2>1, <2>6, <2>12
<1> QED BY <1>4, <1>5

LEMMA TakenIsLined ==
    ASSUME NEW r, DOMAIN r \in SUBSET Nat, IsFiniteSet(DOMAIN r), DOMAIN r # {}, NEW h \in Nat,
           NEW n \in Nat \ {0}
    PROVE  Lined(r, h, GetNodes(r, h, n), Cardinality(DOMAIN r))
<1>0. PICK c \in Nat \ {0} : c = Cardinality(DOMAIN r)
  BY WalkGoesRound
<1>1. PICK f : f = Taken(r, h, n)
  OBVIOUS
<1>2. Walks(f, r, h, n, c)
  BY <1>0, <1>1, TakenWalks
<1> DEFINE Fine(k) == Good(r, h, n, f[k], k) /\ Lined(r, h, f[k], k)
           Bad == {k \in 0 .. c : ~Fine(k)}
<1>3. Bad = {}
  <2> SUFFICES ASSUME Bad # {} PROVE FALSE
    OBVIOUS
  <2>0. Bad \in SUBSET Nat
    OBVIOUS
  <2>1. PICK k \in Bad : \A q \in Bad : k <= q
    BY <2>0, LeastExists
  <2>2. k \in 0 .. c /\ ~Fine(k)
    OBVIOUS
  <2>3. CASE k = 0
    <3>1. f[0] = <<>>
      BY <1>0, <1>2 DEF Walks
    <3>2. Good(r, h, n, <<>>, 0) /\ Lined(r, h, <<>>, 0)
      BY DEF Good, IsInjective, Lined
    <3> QED BY <2>2, <2>3, <3>1, <3>2
  <2>4. CASE k # 0
    <3>1. k - 1 \in 0 .. c /\ k - 1 < k /\ k \in 1 .. c
      BY <2>2, <2>4
    <3>2. Fine(k - 1)
      BY <2>1, <3>1
    <3>3. f[k] = Take(r, h, n, f[k - 1], k)
      BY <1>2, <2>2, <2>4 DEF Walks
    <3> QED BY <1>0, <2>2, <3>1, <3>2, <3>3, TakeIsGood, TakeIsLined
  <2> QED BY <2>3, <2>4
<1>4. Lined(r, h, f[c], c)
  BY <1>0, <1>3
<1> QED BY <1>0, <1>1, <1>4 DEF GetNodes

\* The ring r has the points sp of the nodes K and no others.
Placed(sp, r, K) ==
    /\ DOMAIN r \in SUBSET Nat /\ IsFiniteSet(DOMAIN r) /\ DOMAIN r # {}
    /\ \A k \in K : sp[k] # {} /\ \A p \in sp[k] : p \in DOMAIN r /\ r[p] = k
    /\ \A p \in DOMAIN r : r[p] \in K /\ p \in sp[r[p]]

\* The replicas s of a key: n of the nodes K or all, each ahead of those that
\* come after it and of those that are not taken.
Row(sp, h, n, s, K) ==
    /\ s \in Seq(K) /\ IsInjective(s) /\ Len(s) <= n
    /\ Len(s) = n \/ K \subseteq ToSet(s)
    /\ \A a, b \in DOMAIN s : a < b => Ahead(sp, h, s[a], s[b])
    /\ \A m \in ToSet(s), k \in K : k \notin ToSet(s) => Ahead(sp, h, m, k)

\* The points of the walk are all the positions.
LEMMA PointsAreAll ==
    ASSUME NEW S \in SUBSET Nat, IsFiniteSet(S), S # {}, NEW h \in Nat
    PROVE  /\ \A i \in 1 .. Cardinality(S) : Point(S, h, i) \in S
           /\ \A p \in S : \E i \in 1 .. Cardinality(S) : Point(S, h, i) = p
<1>1. PICK r : r = [p \in S |-> p]
  OBVIOUS
<1>2. DOMAIN r = S /\ \A p \in S : r[p] = p
  BY <1>1
<1>3. \A i : Visited(r, h, i) = r[Point(S, h, i)]
  BY <1>2 DEF Visited, Point
<1>4. \A i \in 1 .. Cardinality(S) : Point(S, h, i) \in S
  BY PointRank
<1>5. \A p \in S : \E i \in 1 .. Cardinality(S) : Visited(r, h, i) = r[p]
  BY <1>2, WalkGoesRound
<1>6. \A p \in S : \E i \in 1 .. Cardinality(S) : Point(S, h, i) = p
  <2> TAKE p \in S
  <2>1. PICK i \in 1 .. Cardinality(S) : Visited(r, h, i) = r[p]
    BY <1>5
  <2>2. Point(S, h, i) \in S /\ r[Point(S, h, i)] = r[p]
    BY <1>3, <1>4, <2>1
  <2>3. Point(S, h, i) = p
    BY <1>2, <2>2
  <2> QED BY <2>3
<1> QED BY <1>4, <1>6

\* Whom the walk meets first is ahead.
LEMMA MetIsAhead ==
    ASSUME NEW sp, NEW r, NEW K, Placed(sp, r, K), NEW h \in Nat,
           NEW m \in K, NEW k \in K, Met(r, h, m, k, Cardinality(DOMAIN r))
    PROVE  Ahead(sp, h, m, k)
<1>1. PICK S \in SUBSET Nat : S = DOMAIN r
  BY DEF Placed
<1>2. PICK c : c = Cardinality(S)
  OBVIOUS
<1>3. IsFiniteSet(S) /\ S # {} /\ c \in Nat
  BY <1>1, <1>2, FS_CardinalityType DEF Placed
<1>4. \A i : Visited(r, h, i) = r[Point(S, h, i)]
  BY <1>1 DEF Visited, Point
<1>5. PICK j \in 1 .. c : Visited(r, h, j) = m /\ \A l \in 1 .. j : Visited(r, h, l) # k
  BY <1>1, <1>2 DEF Met
<1>6. \A i \in 1 .. c, l \in 1 .. c : i < l =>
          /\ Point(S, h, i) \in S /\ Point(S, h, l) \in S
          /\ Sooner(h, Point(S, h, i), Point(S, h, l))
  BY <1>2, <1>3, PointsInOrder
<1>7. \A q \in sp[k] : \E l \in 1 .. c : Point(S, h, l) = q
  <2> TAKE q \in sp[k]
  <2>1. q \in S
    BY <1>1 DEF Placed
  <2> QED BY <1>2, <1>3, <2>1, PointsAreAll
<1>8. Point(S, h, j) \in S
  BY <1>2, <1>3, PointsAreAll
<1>9. Point(S, h, j) \in sp[m]
  BY <1>1, <1>4, <1>5, <1>8 DEF Placed
<1>10. ASSUME NEW q \in sp[k] PROVE Sooner(h, Point(S, h, j), q)
  <2>1. PICK l \in 1 .. c : Point(S, h, l) = q
    BY <1>7
  <2>2. Visited(r, h, l) = k
    BY <1>4, <2>1 DEF Placed
  <2>3. ~(l \in 1 .. j)
    BY <1>5, <2>2
  <2>4. j < l
    BY <1>3, <2>3
  <2> QED BY <1>6, <2>1, <2>4
<1> QED BY <1>9, <1>10 DEF Ahead

LEMMA ReplicasAreARow ==
    ASSUME NEW sp, NEW r, NEW K, Placed(sp, r, K), NEW h \in Nat, NEW n \in Nat \ {0}
    PROVE  Row(sp, h, n, GetNodes(r, h, n), K)
<1>1. DOMAIN r \in SUBSET Nat /\ IsFiniteSet(DOMAIN r) /\ DOMAIN r # {}
  BY DEF Placed
<1>2. PICK s : s = GetNodes(r, h, n)
  OBVIOUS
<1>3. PICK c : c = Cardinality(DOMAIN r)
  OBVIOUS
<1>4. Good(r, h, n, s, c) /\ Lined(r, h, s, c)
  BY <1>1, <1>2, <1>3, TakenIsGood, TakenIsLined
<1>5. {r[p] : p \in DOMAIN r} = K
  BY DEF Placed
<1>6. s \in Seq(K) /\ IsInjective(s) /\ Len(s) <= n
  BY <1>4, <1>5 DEF Good
<1>7. \A k \in K : \E i \in 1 .. c : Visited(r, h, i) = k
  <2> TAKE k \in K
  <2>1. PICK p \in DOMAIN r : r[p] = k
    BY <1>5
  <2> QED BY <1>1, <1>3, <2>1, WalkGoesRound
<1>8. Len(s) = n \/ K \subseteq ToSet(s)
  BY <1>4, <1>7 DEF Good
<1>9. \A a \in DOMAIN s : s[a] \in K
  BY <1>6
<1>10. \A m, k \in K : Met(r, h, m, k, c) => Ahead(sp, h, m, k)
  BY <1>3, MetIsAhead
<1>11. \A a, b \in DOMAIN s : a < b => Ahead(sp, h, s[a], s[b])
  BY <1>4, <1>9, <1>10 DEF Lined
<1>12. \A m \in ToSet(s), k \in K : k \notin ToSet(s) => Ahead(sp, h, m, k)
  <2> TAKE m \in ToSet(s), k \in K
  <2>1. PICK a \in DOMAIN s : s[a] = m
    BY DEF ToSet
  <2> QED BY <1>4, <1>9, <1>10, <2>1 DEF Lined
<1> QED BY <1>2, <1>6, <1>8, <1>11, <1>12 DEF Row

-----------------------------------------------------------------------------
(* Two rows over one placement of the points                               *)

\* Every node has points, and < decides between any two.
Sited(sp, h, N) == h \in Nat /\ \A k \in N : sp[k] \in SUBSET Nat

LEMMA RowsAgreeOnOrder ==
    ASSUME NEW sp, NEW h, NEW n \in Nat, NEW N, Sited(sp, h, N),
           NEW K \in SUBSET N, NEW L \in SUBSET N,
           NEW s, Row(sp, h, n, s, K), NEW t, Row(sp, h, n, t, L),
           NEW i \in DOMAIN s, NEW j \in DOMAIN s, NEW k \in DOMAIN t, NEW l \in DOMAIN t,
           s[i] = t[k], s[j] = t[l]
    PROVE  i < j <=> k < l
<1>1. s \in Seq(K) /\ t \in Seq(L) /\ IsInjective(s) /\ IsInjective(t)
  BY DEF Row
<1>2. s[i] \in N /\ s[j] \in N
  BY <1>1
<1>3. ~(Ahead(sp, h, s[i], s[j]) /\ Ahead(sp, h, s[j], s[i]))
  BY <1>2, AheadIsOneWay DEF Sited
<1>4. /\ i < j => Ahead(sp, h, s[i], s[j])
      /\ j < i => Ahead(sp, h, s[j], s[i])
      /\ k < l => Ahead(sp, h, s[i], s[j])
      /\ l < k => Ahead(sp, h, s[j], s[i])
  BY DEF Row
<1>5. i = j <=> k = l
  BY <1>1 DEF IsInjective
<1>6. i \in Nat /\ j \in Nat /\ k \in Nat /\ l \in Nat
  BY <1>1
<1> QED BY <1>3, <1>4, <1>5, <1>6

\* A node that was known before and became a replica took the place of one that
\* is gone: there were n replicas, and those still known are replicas still.
LEMMA NewcomerTakesAPlace ==
    ASSUME NEW sp, NEW h, NEW n \in Nat, NEW N, Sited(sp, h, N),
           NEW K \in SUBSET N, NEW L \in SUBSET N,
           NEW s, Row(sp, h, n, s, K), NEW t, Row(sp, h, n, t, L),
           NEW m \in ToSet(t) \ ToSet(s), m \in K
    PROVE  Len(s) = n /\ \A k \in ToSet(s) : k \in L => k \in ToSet(t)
<1>1. Len(s) = n
  BY DEF Row
<1>2. ASSUME NEW k \in ToSet(s), k \in L, k \notin ToSet(t) PROVE FALSE
  <2>1. Ahead(sp, h, k, m)
    BY DEF Row
  <2>2. Ahead(sp, h, m, k)
    BY <1>2 DEF Row
  <2>3. m \in N /\ k \in N
    BY <1>2
  <2> QED BY <2>1, <2>2, <2>3, AheadIsOneWay DEF Sited
<1> QED BY <1>1, <1>2

\* A set without two different elements has one at most.
LEMMA AtMostOne ==
    ASSUME NEW S, \A x, y \in S : x = y
    PROVE  Cardinality(S) <= 1
<1>1. CASE S = {}
  BY <1>1, FS_EmptySet
<1>2. CASE S # {}
  <2>1. PICK x : S = {x}
    BY <1>2
  <2> QED BY <2>1, FS_Singleton
<1> QED BY <1>1, <1>2

\* At most one node becomes a replica when one node x comes or goes.
LEMMA RowsDifferLittle ==
    ASSUME NEW sp, NEW h, NEW n \in Nat, NEW N, Sited(sp, h, N),
           NEW K \in SUBSET N, NEW L \in SUBSET N, NEW x,
           L = K \cup {x} \/ L = K \ {x},
           NEW s, Row(sp, h, n, s, K), NEW t, Row(sp, h, n, t, L)
    PROVE  Cardinality(ToSet(t) \ ToSet(s)) <= 1
<1>1. s \in Seq(K) /\ t \in Seq(L) /\ IsInjective(s) /\ IsInjective(t) /\ Len(t) <= n
  BY DEF Row
<1>2. /\ IsFiniteSet(ToSet(s)) /\ Cardinality(ToSet(s)) = Len(s) /\ Len(s) \in Nat
      /\ IsFiniteSet(ToSet(t)) /\ Cardinality(ToSet(t)) = Len(t) /\ Len(t) \in Nat
  BY <1>1, InjectiveCounts
<1>3. ToSet(s) \subseteq K /\ ToSet(t) \subseteq L
  BY <1>1 DEF ToSet
<1>4. SUFFICES ASSUME NEW m \in ToSet(t) \ ToSet(s), NEW o \in ToSet(t) \ ToSet(s), m # o
               PROVE  FALSE
  BY AtMostOne
<1>5. PICK A : A = ToSet(s)
  OBVIOUS
<1>6. PICK B : B = ToSet(t)
  OBVIOUS
<1>7. /\ IsFiniteSet(A) /\ IsFiniteSet(B) /\ Cardinality(B) <= n
      /\ Cardinality(A) \in Nat /\ Cardinality(B) \in Nat
      /\ m \in B /\ m \notin A /\ o \in B /\ o \notin A
  BY <1>1, <1>2, <1>5, <1>6
<1>8. CASE L = K \cup {x}
  <2>1. PICK z \in {m, o} : z \in K
    <3>1. m \in K \cup {x} /\ o \in K \cup {x}
      BY <1>3, <1>8
    <3> QED BY <1>4, <3>1
  <2>2. z \in ToSet(t) \ ToSet(s)
    OBVIOUS
  <2>3. Len(s) = n /\ A \subseteq B
    <3>1. Len(s) = n /\ \A k \in ToSet(s) : k \in L => k \in ToSet(t)
      BY <2>1, <2>2, NewcomerTakesAPlace
    <3> QED BY <1>3, <1>5, <1>6, <1>8, <3>1
  <2>4. IsFiniteSet(A \cup {m}) /\ Cardinality(A \cup {m}) = Cardinality(A) + 1
    BY <1>7, FS_AddElement
  <2>5. A \cup {m} \in SUBSET B
    BY <1>7, <2>3
  <2>6. Cardinality(A \cup {m}) <= Cardinality(B)
    BY <1>7, <2>5, FS_Subset
  <2> QED BY <1>2, <1>5, <1>7, <2>3, <2>4, <2>6
<1>9. CASE L = K \ {x}
  <2>1. m \in K
    BY <1>3, <1>9
  <2>2. Len(s) = n /\ A \ {x} \subseteq B
    <3>1. Len(s) = n /\ \A k \in ToSet(s) : k \in L => k \in ToSet(t)
      BY <2>1, NewcomerTakesAPlace
    <3> QED BY <1>3, <1>5, <1>6, <1>9, <3>1
  <2>3. PICK C : C = A \ {x}
    OBVIOUS
  <2>4. IsFiniteSet(C) /\ Cardinality(C) \in Nat /\ Cardinality(C) >= Cardinality(A) - 1
    <3>1. CASE x \in A
      <4>1. IsFiniteSet(A \ {x}) /\ Cardinality(A \ {x}) = Cardinality(A) - 1
        BY <1>7, <3>1, FS_RemoveElement
      <4>2. Cardinality(A \ {x}) \in Nat
        BY <4>1, FS_CardinalityType
      <4> QED BY <1>7, <2>3, <4>1, <4>2
    <3>2. CASE x \notin A
      <4>1. C = A
        BY <2>3, <3>2
      <4> QED BY <1>7, <4>1
    <3> QED BY <3>1, <3>2
  <2>5. m \notin C /\ o \notin C \cup {m}
    BY <1>4, <1>7, <2>3
  <2>6. IsFiniteSet(C \cup {m}) /\ Cardinality(C \cup {m}) = Cardinality(C) + 1
    BY <2>4, <2>5, FS_AddElement
  <2>7. Cardinality(C \cup {m} \cup {o}) = Cardinality(C \cup {m}) + 1
    BY <2>5, <2>6, FS_AddElement
  <2>8. C \cup {m} \cup {o} \in SUBSET B
    BY <1>7, <2>2, <2>3
  <2>9. Cardinality(C \cup {m} \cup {o}) <= Cardinality(B)
    BY <1>7, <2>8, FS_Subset
  <2> QED BY <1>2, <1>5, <1>7, <2>2, <2>4, <2>6, <2>7, <2>9
<1> QED BY <1>8, <1>9

LEMMA RingIsPlaced == IndInv => Placed(spots, ring, known)
<1> SUFFICES ASSUME IndInv PROVE Placed(spots, ring, known)
  OBVIOUS
<1>1. \A k \in known : spots[k] # {} /\ \A p \in spots[k] : p \in DOMAIN ring /\ ring[p] = k
  BY DEF IndInv, TypeOK, Disjoint, RingIsOfKnown
<1>2. \A p \in DOMAIN ring : ring[p] \in known /\ p \in spots[ring[p]]
  BY <1>1 DEF IndInv, TypeOK, RingIsOfKnown
<1> QED BY <1>1, <1>2, RingIsWalked DEF Placed

\* Whoever comes or goes, the replicas that remain keep their order and at most
\* one copy of a key has to be made.
THEOREM FewCopiesMove == Spec => ReplicasMoveLittle
<1> DEFINE Little == \A h \in Pos, n \in 1 .. Cardinality(Node) :
                       LET before == GetNodes(ring, h, n)
                           after == GetNodes(ring', h, n)
                       IN  /\ \A i, j \in DOMAIN before, k, l \in DOMAIN after :
                                 before[i] = after[k] /\ before[j] = after[l] => (i < j <=> k < l)
                           /\ Cardinality(ToSet(after) \ ToSet(before)) <= 1
<1>1. IndInv => Placed(spots, ring, known)
  BY RingIsPlaced
<1>2. IndInv /\ IndInv' /\ Placed(spots, ring, known) /\ Placed(spots, ring, known)' /\ [Next]_vars
      => [Little]_vars
  <2> SUFFICES ASSUME IndInv, IndInv', Placed(spots, ring, known), Placed(spots, ring, known)',
                      Next, NEW h \in Pos, NEW n \in 1 .. Cardinality(Node),
                      NEW before, before = GetNodes(ring, h, n),
                      NEW after, after = GetNodes(ring', h, n)
               PROVE  /\ \A i, j \in DOMAIN before, k, l \in DOMAIN after :
                            before[i] = after[k] /\ before[j] = after[l] => (i < j <=> k < l)
                      /\ Cardinality(ToSet(after) \ ToSet(before)) <= 1
    OBVIOUS
  <2>1. PICK x \in Node : AddPeer(x) \/ RemovePeer(x)
    BY DEF Next
  <2>2. spots' = spots /\ (known' = known \cup {x} \/ known' = known \ {x})
    BY <2>1 DEF AddPeer, RemovePeer
  <2>3. h \in Nat /\ n \in Nat \ {0} /\ n \in Nat
    BY RingIsWalked
  <2>4. Row(spots, h, n, before, known)
    BY <2>3, ReplicasAreARow
  <2>5. Row(spots, h, n, after, known')
    <3>1. Placed(spots, ring', known')
      BY <2>2
    <3> QED BY <2>3, <3>1, ReplicasAreARow
  <2>6. Sited(spots, h, Node) /\ known \in SUBSET Node /\ known' \in SUBSET Node
    BY <2>3, RingConstants DEF Sited, IndInv, TypeOK
  <2>7. ASSUME NEW i \in DOMAIN before, NEW j \in DOMAIN before,
               NEW k \in DOMAIN after, NEW l \in DOMAIN after,
               before[i] = after[k], before[j] = after[l]
        PROVE  i < j <=> k < l
    BY <2>3, <2>4, <2>5, <2>6, <2>7, RowsAgreeOnOrder
  <2>8. Cardinality(ToSet(after) \ ToSet(before)) <= 1
    BY <2>2, <2>3, <2>4, <2>5, <2>6, RowsDifferLittle
  <2> QED BY <2>7, <2>8
<1> QED BY <1>1, <1>2, InitInd, NextInd, PTL DEF Spec, ReplicasMoveLittle
=============================================================================
