------------------------------- MODULE HashRing -------------------------------
(***************************************************************************)
(* The consistent-hash ring of one node and the peers placed on it: class  *)
(* HashRing of pneuma_db/node.py, and the known_nodes list by which        *)
(* PNEUMANode adds and removes peers.                                      *)
(*                                                                         *)
(* md5 is any placement of the nodes' virtual points on the circle Pos     *)
(* that never puts two points in one place.  A key is its position.        *)
(***************************************************************************)
EXTENDS Integers, FiniteSets, SequencesExt

CONSTANTS
    Node,           \* every node id that may ever be a peer
    Self,           \* the node that keeps this ring
    Pos,            \* positions on the circle: hash values
    VirtualNodes    \* points per node

ASSUME RingConstants ==
    /\ Self \in Node
    /\ IsFiniteSet(Node)
    /\ Pos \subseteq Nat
    /\ IsFiniteSet(Pos)
    /\ VirtualNodes \in Nat \ {0}

VARIABLES
    spots,  \* the points md5 gives each node; never changes
    known,  \* known_nodes
    ring    \* _ring: the node at each occupied position

vars == <<spots, known, ring>>

-----------------------------------------------------------------------------
(* HashRing's methods *)

AddNode(r, n) == [p \in DOMAIN r \cup spots[n] |-> IF p \in spots[n] THEN n ELSE r[p]]

RemoveNode(r, n) == [p \in DOMAIN r \ spots[n] |-> r[p]]

Least(S) == CHOOSE p \in S : \A q \in S : p <= q

\* The first occupied position from h on, or the first of all: the wrap around.
Successor(S, h) ==
    IF \E p \in S : h <= p THEN Least({p \in S : h <= p}) ELSE Least(S)

\* The i-th of the sorted positions, counted from 0.
Nth(S, i) == CHOOSE p \in S : Cardinality({q \in S : q < p}) = i

\* A mutant of GetNode: a key past the last point is given to the last node.
GetNodeLast(r, h) ==
    LET S == DOMAIN r
    IN  r[IF \E p \in S : h <= p THEN Successor(S, h) ELSE Nth(S, Cardinality(S) - 1)]

\* A mutant of GetNode: the key's hash modulo the number of points.
GetNodeModulo(r, h) == r[Nth(DOMAIN r, h % Cardinality(DOMAIN r))]

GetNode(r, h) == r[Successor(DOMAIN r, h)]

\* Where the walk of get_nodes begins: the rank of the key's successor.
Bisect(S, h) == IF \E p \in S : h <= p THEN Cardinality({p \in S : p < h}) ELSE 0

\* The node at the i-th point of the walk, counted from 1.
Visited(r, h, i) ==
    LET S == DOMAIN r
    IN  r[Nth(S, (Bisect(S, h) + i - 1) % Cardinality(S))]

\* A mutant of GetNodes: the next n points, whosever they are.
GetNodesMutant(r, h, n) ==
    LET total == Cardinality(DOMAIN r)
    IN  [i \in 1 .. (IF n < total THEN n ELSE total) |-> Visited(r, h, i)]

\* The nodes taken after each point of the walk: each when first met, until n
\* are taken.  The test for n comes after a node is taken, so n = 0 takes all.
Taken(r, h, n) ==
    LET taken[i \in 0 .. Cardinality(DOMAIN r)] ==
            IF i = 0 THEN <<>>
            ELSE LET sofar == taken[i - 1]
                     node == Visited(r, h, i)
                 IN  IF node \in ToSet(sofar) \/ (i > 1 /\ Len(sofar) = n)
                     THEN sofar ELSE Append(sofar, node)
    IN  taken

\* get_nodes goes round the circle once.
GetNodes(r, h, n) == Taken(r, h, n)[Cardinality(DOMAIN r)]

-----------------------------------------------------------------------------
(* PNEUMANode's peers *)

\* The ring that holds exactly the points of S.
RingOf(S) ==
    [p \in UNION {spots[n] : n \in S} |-> CHOOSE n \in S : p \in spots[n]]

Init ==
    /\ spots \in [Node -> {S \in SUBSET Pos : Cardinality(S) = VirtualNodes}]
    /\ \A m, n \in Node : m # n => spots[m] \cap spots[n] = {}
    /\ known \in {S \in SUBSET Node : Self \in S}
    /\ ring = RingOf(known)

AddPeer(n) ==
    /\ n \notin known
    /\ known' = known \cup {n}
    /\ ring' = AddNode(ring, n)
    /\ UNCHANGED spots

\* A mutant of RemovePeer: the last of the peer's points is left on the ring.
RemovePeerMutant(n) ==
    /\ n \in known \ {Self}
    /\ known' = known \ {n}
    /\ ring' = [p \in DOMAIN ring \ {Least(spots[n])} |-> ring[p]]
    /\ UNCHANGED spots

RemovePeer(n) ==
    /\ n \in known \ {Self}
    /\ known' = known \ {n}
    /\ ring' = RemoveNode(ring, n)
    /\ UNCHANGED spots

Next == \E n \in Node : AddPeer(n) \/ RemovePeer(n)

Spec == Init /\ [][Next]_vars

-----------------------------------------------------------------------------
(* Properties *)

TypeOK ==
    /\ spots \in [Node -> SUBSET Pos]
    /\ known \subseteq Node
    /\ Self \in known
    /\ DOMAIN ring \subseteq Pos
    /\ \A p \in DOMAIN ring : ring[p] \in known

\* The ring depends on who is known and not on the order they came and went:
\* "the same algorithm runs on every node, so they all agree" (node.py:8-9).
RingIsOfKnown ==
    /\ DOMAIN ring = UNION {spots[n] : n \in known}
    /\ \A n \in known : \A p \in spots[n] : ring[p] = n

\* Keys that leave their owner when a peer is added go to the new peer, and
\* keys whose owner changes when one is removed were that peer's
\* (node.py:29: adding or removing nodes only remaps a share of the keys).
OnlyTheirKeysMove ==
    [][\A h \in Pos : GetNode(ring', h) # GetNode(ring, h) =>
           \/ GetNode(ring', h) \in known' \ known
           \/ GetNode(ring, h) \in known \ known']_vars

\* The replicas of a key begin with its owner: put writes to owner_of and sends
\* copies to replicas_of without itself (db.py:476-486), so were they to
\* disagree an owner would copy to too few nodes.
OwnerIsFirstReplica ==
    \A h \in Pos, n \in 1 .. Cardinality(Node) : GetNodes(ring, h, n)[1] = GetNode(ring, h)

\* get_nodes returns as many distinct nodes as it is asked for, or all there are.
ReplicasAreDistinct ==
    \A h \in Pos, n \in 1 .. Cardinality(Node) + 1 :
        LET nodes == GetNodes(ring, h, n)
        IN  /\ IsInjective(nodes)
            /\ ToSet(nodes) \subseteq known
            /\ Len(nodes) = IF n < Cardinality(known) THEN n ELSE Cardinality(known)

\* When a peer joins or leaves, the replicas of a key that remain keep their
\* order among themselves, and at most one node becomes a replica: at most one
\* copy has to move.
ReplicasMoveLittle ==
    [][\A h \in Pos, n \in 1 .. Cardinality(Node) :
           LET before == GetNodes(ring, h, n)
               after == GetNodes(ring', h, n)
           IN  /\ \A i, j \in DOMAIN before, k, l \in DOMAIN after :
                     before[i] = after[k] /\ before[j] = after[l] => (i < j <=> k < l)
               /\ Cardinality(ToSet(after) \ ToSet(before)) <= 1]_vars

=============================================================================
