---------------------------------- MODULE Mesh ----------------------------------
(***************************************************************************)
(* Who knows whom in the acoustic mesh: the schedules of tdma.py, the      *)
(* beacons and lists of discovery.py, and the ring and the pruning of      *)
(* mesh_node.py, for several nodes in one room.  All clocks agree.  A      *)
(* beacon sent in a node's slot is heard by any of the nodes that listen   *)
(* then, or by none; who begins to listen in one slot hears nothing of the *)
(* next.  Only the slots decide who can hear whom: how long a beacon       *)
(* sounds, and how long a listener waits for it, are left out.  Sessions   *)
(* come and go with the places on the ring and are left out too.           *)
(*                                                                         *)
(* A node's threads share no lock across modules: handling a beacon is     *)
(* three steps, and pruning is one step and one more per pruned peer.      *)
(***************************************************************************)
EXTENDS Integers, FiniteSets

CONSTANTS
    Node,           \* numbers, in the order of the nodes' names
    Listener,       \* the threads of a node that handle beacons
    Seedings,       \* what may be added to the schedules before the start
    Cycle,          \* slots after which all schedules begin anew
    Quiet,          \* the nodes that may go unheard for 60 s
    MaxSilences,    \* bound on how often that happens
    MaxBusy,        \* bound on the nodes that handle beacons at the same time
    Idle

ASSUME MeshConstants ==
    /\ Node \subseteq Nat /\ IsFiniteSet(Node)
    /\ Seedings \subseteq [Node -> SUBSET Node]
    /\ Cycle \in Nat \ {0}
    /\ \A k \in 1 .. Cardinality(Node) : Cycle % k = 0
    /\ Quiet \subseteq Node
    /\ MaxSilences \in Nat /\ MaxBusy \in Nat

\* A beacon being handled: its sender, its known_peers, and is_new for as long
\* as the callback is still to come.
Job == [from : Node, peers : SUBSET Node, new : BOOLEAN]

ASSUME IdleIsNoJob == Idle \notin Job

VARIABLES
    clock,      \* the slot number
    tdma,       \* all_nodes of each node's scheduler
    known,      \* _known_peers
    seen,       \* _peer_seen (and _peer_keys): not at all, recently, or not for 60 s
    ring,       \* the nodes on its hash ring
    job,        \* the beacon each listener is handling
    pruner,     \* stale peers the prune thread has yet to remove
    dead,       \* the nodes whose prune thread has died
    silences,   \* how often a peer has gone unheard
    seed,       \* history: what the schedules were given
    causes      \* history: what has happened to each node's ring

vars == <<clock, tdma, known, seen, ring, job, pruner, dead, silences, seed, causes>>

\* What parts a node's ring from the peers it hears:
Causes == {
    "absorbed", \* it heard a peer that it had only read of in others' beacons
    "raced"}    \* it heard a peer between prune_stale and its removal

Init ==
    /\ clock = 0
    /\ seed \in Seedings
    /\ tdma = [n \in Node |-> {n} \cup seed[n]]
    /\ known = [n \in Node |-> {n}]
    /\ seen = [n \in Node |-> [p \in Node |-> "no"]]
    /\ ring = [n \in Node |-> {n}]
    /\ job = [n \in Node |-> [t \in Listener |-> Idle]]
    /\ pruner = [n \in Node |-> {}]
    /\ dead = {}
    /\ silences = 0
    /\ causes = [n \in Node |-> {}]

-----------------------------------------------------------------------------
(* The schedule *)

\* my_slot: a node's place in its own sorted list.
MySlot(n) == Cardinality({p \in tdma[n] : p < n})

CurrentSlot(n) == clock % Cardinality(tdma[n])

\* Mutant: a slot more than there are nodes, in which nobody speaks.
IsMyTurnMutant(n) == clock % (Cardinality(tdma[n]) + 1) = MySlot(n)

IsMyTurn(n) == CurrentSlot(n) = MySlot(n)

\* n speaks and m listens; at the transport's rate and the listener's timeout
\* m may still hear nothing.
CanHear(m, n) == n # m /\ IsMyTurn(n) /\ ~IsMyTurn(m)

NextSlot ==
    /\ clock' = (clock + 1) % Cycle
    /\ UNCHANGED <<tdma, known, seen, ring, job, pruner, dead, silences, seed, causes>>

-----------------------------------------------------------------------------
(* Discovery *)

Give(f, n, S) == [f EXCEPT ![n] = @ \cup S]
Take(f, n, S) == [f EXCEPT ![n] = @ \ S]

Busy == {n \in Node : \E t \in Listener : job[n][t] # Idle}

\* A listener of m hears n's beacon: the first block of _handle_beacon.
Hear(m, t, n) ==
    /\ CanHear(m, n)
    /\ job[m][t] = Idle
    /\ Cardinality(Busy \cup {m}) <= MaxBusy
    /\ LET new == n \notin known[m]
       IN /\ known' = Give(known, m, {n})
          /\ tdma' = IF new THEN Give(tdma, m, {n}) ELSE tdma
          /\ seen' = [seen EXCEPT ![m][n] = "recently"]
          /\ job' = [job EXCEPT ![m][t] = [from |-> n, peers |-> known[n], new |-> new]]
          /\ causes' = Give(causes, m,
                (IF ~new /\ seen[m][n] = "no" THEN {"absorbed"} ELSE {})
                \cup (IF n \in pruner[m] THEN {"raced"} ELSE {}))
    /\ UNCHANGED <<clock, ring, pruner, dead, silences, seed>>

\* Mutant: a new peer gets no place on the ring.
MeetMutant(m, t) ==
    /\ job[m][t] # Idle /\ job[m][t].new
    /\ job' = [job EXCEPT ![m][t].new = FALSE]
    /\ UNCHANGED <<clock, tdma, known, seen, ring, pruner, dead, silences, seed, causes>>

\* on_peer_discovered: a place on the ring.
Meet(m, t) ==
    /\ job[m][t] # Idle /\ job[m][t].new
    /\ ring' = Give(ring, m, {job[m][t].from})
    /\ job' = [job EXCEPT ![m][t].new = FALSE]
    /\ UNCHANGED <<clock, tdma, known, seen, pruner, dead, silences, seed, causes>>

\* The last block of _handle_beacon: the beacon's peers are known and
\* scheduled, and no more.
Absorb(m, t) ==
    /\ job[m][t] # Idle /\ ~job[m][t].new
    /\ LET fresh == job[m][t].peers \ known[m]
       IN known' = Give(known, m, fresh) /\ tdma' = Give(tdma, m, fresh)
    /\ job' = [job EXCEPT ![m][t] = Idle]
    /\ UNCHANGED <<clock, seen, ring, pruner, dead, silences, seed, causes>>

-----------------------------------------------------------------------------
(* Pruning *)

\* n has not been heard by m for a minute.  Handling a beacon takes less.
FallSilent(m, n) ==
    /\ n \in Quiet
    /\ silences < MaxSilences
    /\ seen[m][n] = "recently"
    /\ \A t \in Listener : job[m][t] # Idle => job[m][t].from # n
    /\ seen' = [seen EXCEPT ![m][n] = "stale"]
    /\ silences' = silences + 1
    /\ UNCHANGED <<clock, tdma, known, ring, job, pruner, dead, seed, causes>>

Stale(m) == {n \in Node : seen[m][n] = "stale"}

\* Mutant: the schedule keeps the peers that are pruned.
PruneStaleMutant(m) ==
    /\ m \notin dead /\ pruner[m] = {} /\ Stale(m) # {}
    /\ known' = Take(known, m, Stale(m))
    /\ seen' = [seen EXCEPT ![m] = [n \in Node |-> IF n \in Stale(m) THEN "no" ELSE @[n]]]
    /\ pruner' = [pruner EXCEPT ![m] = Stale(m)]
    /\ UNCHANGED <<clock, tdma, ring, job, dead, silences, seed, causes>>

\* prune_stale, under discovery's lock.
PruneStale(m) ==
    /\ m \notin dead /\ pruner[m] = {} /\ Stale(m) # {}
    /\ known' = Take(known, m, Stale(m))
    /\ tdma' = Take(tdma, m, Stale(m))
    /\ seen' = [seen EXCEPT ![m] = [n \in Node |-> IF n \in Stale(m) THEN "no" ELSE @[n]]]
    /\ pruner' = [pruner EXCEPT ![m] = Stale(m)]
    /\ UNCHANGED <<clock, ring, job, dead, silences, seed, causes>>

\* Each of them leaves the ring.
PruneOne(m, n) ==
    /\ n \in ring[m]
    /\ ring' = Take(ring, m, {n})
    /\ pruner' = Take(pruner, m, {n})
    /\ UNCHANGED <<clock, tdma, known, seen, job, dead, silences, seed, causes>>

\* remove_node of a node that is not on the ring raises KeyError, and nothing
\* in the thread catches it.
PruneDies(m, n) ==
    /\ n \notin ring[m]
    /\ dead' = dead \cup {m}
    /\ pruner' = [pruner EXCEPT ![m] = {}]
    /\ UNCHANGED <<clock, tdma, known, seen, ring, job, silences, seed, causes>>

Prune(m) ==
    \E n \in pruner[m] : PruneOne(m, n) \/ PruneDies(m, n)

Next ==
    \/ NextSlot
    \/ \E m, n \in Node, t \in Listener : Hear(m, t, n)
    \/ \E m \in Node, t \in Listener : Meet(m, t) \/ Absorb(m, t)
    \/ \E m, n \in Node : FallSilent(m, n)
    \/ \E m \in Node : PruneStale(m) \/ Prune(m)

\* Handling a beacon takes milliseconds, a slot half a second.
PromptNext == Next /\ (clock' # clock => Busy = {})

\* Nobody else speaks in n's slot.
Clear(n) == \A p \in Node \ {n} : ~IsMyTurn(p)

\* Time passes and threads run.  That a beacon sent again and again in a slot
\* in which nobody else speaks is heard at last is more than the transport gives
\* (discovery.py:149-154): what fails under it fails without it.
Fairness ==
    /\ WF_vars(NextSlot)
    /\ \A m, n \in Node : SF_vars(Clear(n) /\ \E t \in Listener : Hear(m, t, n))
    /\ \A m \in Node, t \in Listener : WF_vars(Meet(m, t) \/ Absorb(m, t))

Spec == Init /\ [][Next]_vars

FairSpec == Init /\ [][PromptNext]_vars /\ Fairness

-----------------------------------------------------------------------------
(* Properties *)

\* Types; a node is always in its own lists, and its schedule is what it knows
\* and was given (discovery.py:164-184, 208-221; tdma.py:47-65).
TypeOK ==
    /\ clock \in 0 .. Cycle - 1
    /\ seed \in [Node -> SUBSET Node]
    /\ known \in [Node -> SUBSET Node]
    /\ tdma \in [Node -> SUBSET Node]
    /\ \A n \in Node : n \in known[n] /\ known[n] \subseteq tdma[n]
    /\ \A n \in Node : tdma[n] \subseteq known[n] \cup seed[n]
    /\ seen \in [Node -> [Node -> {"no", "recently", "stale"}]]
    /\ \A n \in Node : seen[n][n] = "no"
    /\ \A n, p \in Node : seen[n][p] # "no" => p \in known[n]
    /\ ring \in [Node -> SUBSET Node]
    /\ \A n \in Node : n \in ring[n]
    /\ job \in [Node -> [Listener -> Job \cup {Idle}]]
    /\ pruner \in [Node -> SUBSET Node]
    /\ dead \subseteq Node
    /\ silences \in 0 .. MaxSilences
    /\ causes \in [Node -> SUBSET Causes]

Meeting(n, p) == \E t \in Listener : job[n][t] # Idle /\ job[n][t].from = p /\ job[n][t].new

\* A node routes keys to those it hears, and to no one else (mesh_node.py:168-173
\* and 417-425 against discovery.py:164-184): a peer on its ring was heard and not
\* yet pruned, and a peer it heard is on its ring, unless it was known before
\* it was heard, or came back while it was being pruned, or the pruning died.
RingIsHeard ==
    \A n \in Node : causes[n] = {} =>
        \A p \in Node \ {n} :
            /\ p \in ring[n] => seen[n][p] # "no" \/ p \in pruner[n]
            /\ seen[n][p] # "no" => p \in ring[n] \/ Meeting(n, p)

\* The prune thread dies only at a node that heard a peer it had absorbed, or
\* heard one again in the middle of its pruning (mesh_node.py:420-422).
PruneDiesForCause == \A n \in dead : causes[n] # {}

\* A node whose schedule holds itself alone always has its turn and never
\* listens (tdma.py:68-79, discovery.py:147): whatever the others do it hears
\* no one, for good, also when it was left alone by pruning.
LonersHearNobody ==
    [][\A n \in Node :
          (tdma[n] = {n} /\ \A t \in Listener : job[n][t] = Idle) =>
              tdma'[n] = {n} /\ seen'[n] = seen[n]]_vars

\* "No coordination needed — nodes self-organise" (discovery.py:16): every node
\* comes to know every other.
NodesSelfOrganise == <>(\A n \in Node : known[n] = Node)
=============================================================================
