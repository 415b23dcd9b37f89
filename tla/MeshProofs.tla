------------------------------- MODULE MeshProofs -------------------------------
(***************************************************************************)
(* Mesh, for any number of nodes and listeners, any cycle and any start:   *)
(* what a node's ring, schedule and prune thread have to do with the peers *)
(* it hears, and that a node that starts alone stays alone.                *)
(***************************************************************************)
EXTENDS Mesh, TLAPS, FiniteSetTheorems

\* Who a beacon being handled came from was heard a moment ago.
HandledIsRecent ==
    \A n \in Node, t \in Listener :
        job[n][t] # Idle => job[n][t].from # n /\ seen[n][job[n][t].from] = "recently"

\* While nothing has parted the ring from the peers, those that are being
\* pruned are still on it and have not been heard since.
PrunedAreOnRing ==
    \A n \in Node : causes[n] = {} =>
        \A p \in pruner[n] : p \in ring[n] /\ seen[n][p] = "no"

\* A node never prunes itself.
PrunesOthers == \A n \in Node : n \notin pruner[n]

IInv ==
    /\ TypeOK /\ HandledIsRecent /\ PrunesOthers /\ PrunedAreOnRing
    /\ RingIsHeard /\ PruneDiesForCause

-----------------------------------------------------------------------------

LEMMA InvInit == Init => IInv
BY MeshConstants, IdleIsNoJob
   DEF Init, IInv, TypeOK, HandledIsRecent, PrunesOthers, PrunedAreOnRing, RingIsHeard, Meeting, PruneDiesForCause

LEMMA NextSlotInv == IInv /\ NextSlot => IInv'
<1> SUFFICES ASSUME IInv, NextSlot PROVE IInv'
  OBVIOUS
<1>1. clock' \in 0 .. Cycle - 1
  BY MeshConstants DEF NextSlot, IInv, TypeOK
<1>2. TypeOK'
  BY <1>1 DEF NextSlot, IInv, TypeOK
<1>3. RingIsHeard'
  BY DEF NextSlot, IInv, RingIsHeard, Meeting
<1> QED BY <1>2, <1>3 DEF NextSlot, IInv, HandledIsRecent, PrunesOthers, PrunedAreOnRing, PruneDiesForCause

LEMMA HearInv ==
    ASSUME IInv, NEW m \in Node, NEW n \in Node, NEW t \in Listener, Hear(m, t, n)
    PROVE  IInv'
<1> DEFINE new == n \notin known[m]
           J == [from |-> n, peers |-> known[n], new |-> new]
<1>1. /\ m # n /\ job[m][t] = Idle
      /\ known' = [known EXCEPT ![m] = @ \cup {n}]
      /\ tdma' = IF new THEN [tdma EXCEPT ![m] = @ \cup {n}] ELSE tdma
      /\ seen' = [seen EXCEPT ![m][n] = "recently"]
      /\ job' = [job EXCEPT ![m][t] = J]
      /\ UNCHANGED <<clock, ring, pruner, dead, silences, seed>>
  BY DEF Hear, CanHear, Give
<1>2. causes' = [causes EXCEPT ![m] = @ \cup
                    ((IF ~new /\ seen[m][n] = "no" THEN {"absorbed"} ELSE {})
                     \cup (IF n \in pruner[m] THEN {"raced"} ELSE {}))]
  BY DEF Hear, Give
<1>3. J \in Job /\ J # Idle
  <2>1. known[n] \in SUBSET Node /\ new \in BOOLEAN
    BY DEF IInv, TypeOK
  <2>2. J \in Job
    BY <2>1 DEF Job
  <2> QED BY <2>2, IdleIsNoJob
<1>4. TypeOK'
  <2>1. job' \in [Node -> [Listener -> Job \cup {Idle}]]
    BY <1>1, <1>3 DEF IInv, TypeOK
  <2>2. causes' \in [Node -> SUBSET Causes]
    BY <1>2 DEF IInv, TypeOK, Causes
  <2>3. seen' \in [Node -> [Node -> {"no", "recently", "stale"}]]
    BY <1>1 DEF IInv, TypeOK
  <2>4. /\ known' \in [Node -> SUBSET Node]
        /\ tdma' \in [Node -> SUBSET Node]
        /\ \A o \in Node : /\ o \in known'[o] /\ known'[o] \subseteq tdma'[o]
                           /\ tdma'[o] \subseteq known'[o] \cup seed[o]
    BY <1>1 DEF IInv, TypeOK
  <2>5. \A o, p \in Node : seen'[o][p] = IF o = m /\ p = n THEN "recently" ELSE seen[o][p]
    BY <1>1 DEF IInv, TypeOK
  <2>6. \A o \in Node : seen'[o][o] = "no"
    BY <1>1, <2>5 DEF IInv, TypeOK
  <2>7. \A o, p \in Node : seen'[o][p] # "no" => p \in known'[o]
    BY <1>1, <2>5 DEF IInv, TypeOK
  <2> QED BY <1>1, <2>1, <2>2, <2>3, <2>4, <2>6, <2>7 DEF IInv, TypeOK
<1>5. \A o, p \in Node : seen'[o][p] = IF o = m /\ p = n THEN "recently" ELSE seen[o][p]
  BY <1>1 DEF IInv, TypeOK
<1>6. \A o \in Node, u \in Listener : job'[o][u] = IF o = m /\ u = t THEN J ELSE job[o][u]
  BY <1>1 DEF IInv, TypeOK
<1>7. \A o \in Node, u \in Listener : job[o][u] # Idle => job[o][u].from \in Node
  BY DEF IInv, TypeOK, Job
<1>8. HandledIsRecent'
  BY <1>1, <1>3, <1>5, <1>6, <1>7 DEF IInv, HandledIsRecent
<1>9. \A o \in Node : causes'[o] = {} => causes[o] = {} /\ (o = m => n \notin pruner[m])
  BY <1>2 DEF IInv, TypeOK
<1>10. PrunedAreOnRing'
  <2>1. \A o \in Node : pruner[o] \subseteq Node
    BY DEF IInv, TypeOK
  <2> QED BY <1>1, <1>5, <1>9, <2>1 DEF IInv, PrunedAreOnRing
<1>11. \A o, p \in Node : Meeting(o, p) => Meeting(o, p)'
  BY <1>1, <1>6 DEF Meeting
<1>12. RingIsHeard'
  <2> SUFFICES ASSUME NEW o \in Node, causes'[o] = {}, NEW p \in Node \ {o}
               PROVE  /\ p \in ring[o] => seen'[o][p] # "no" \/ p \in pruner[o]
                      /\ seen'[o][p] # "no" => p \in ring[o] \/ Meeting(o, p)'
    BY <1>1 DEF RingIsHeard
  <2>1. /\ p \in ring[o] => seen[o][p] # "no" \/ p \in pruner[o]
        /\ seen[o][p] # "no" => p \in ring[o] \/ Meeting(o, p)
    BY <1>9 DEF IInv, RingIsHeard
  <2>2. CASE ~(o = m /\ p = n)
    BY <1>5, <1>11, <2>1, <2>2
  <2>3. CASE o = m /\ p = n /\ new
    <3>1. Meeting(o, p)'
      <4>1. job'[o][t] = J /\ J.from = p
        BY <1>6, <2>3
      <4>2. J.new
        BY <2>3
      <4>3. job'[o][t] # Idle /\ job'[o][t].from = p /\ job'[o][t].new
        BY <1>3, <4>1, <4>2
      <4> QED BY <4>3 DEF Meeting
    <3> QED BY <1>5, <2>3, <3>1
  <2>4. CASE o = m /\ p = n /\ ~new
    <3>1. seen[o][p] # "no"
      BY <1>2, <2>4 DEF IInv, TypeOK
    <3> QED BY <1>5, <1>11, <2>1, <2>4, <3>1
  <2> QED BY <2>2, <2>3, <2>4
<1>13. PruneDiesForCause'
  BY <1>1, <1>9 DEF IInv, TypeOK, PruneDiesForCause
<1> QED BY <1>1, <1>4, <1>8, <1>10, <1>12, <1>13 DEF IInv, PrunesOthers

LEMMA MeetInv ==
    ASSUME IInv, NEW m \in Node, NEW t \in Listener, Meet(m, t)
    PROVE  IInv'
<1> DEFINE n == job[m][t].from
<1>1. /\ job[m][t] # Idle /\ job[m][t].new
      /\ ring' = [ring EXCEPT ![m] = @ \cup {n}]
      /\ job' = [job EXCEPT ![m][t].new = FALSE]
      /\ UNCHANGED <<clock, tdma, known, seen, pruner, dead, silences, seed, causes>>
  BY DEF Meet, Give
<1>2. job[m][t] \in Job /\ n \in Node
  BY <1>1 DEF IInv, TypeOK, Job
<1>3. \A o \in Node, u \in Listener :
          job'[o][u] = IF o = m /\ u = t THEN [job[m][t] EXCEPT !.new = FALSE] ELSE job[o][u]
  BY <1>1 DEF IInv, TypeOK
<1>4. /\ [job[m][t] EXCEPT !.new = FALSE] \in Job
      /\ [job[m][t] EXCEPT !.new = FALSE].from = n
      /\ [job[m][t] EXCEPT !.new = FALSE] # Idle
  BY <1>2, IdleIsNoJob DEF Job
<1>5. TypeOK'
  <2>1. job' \in [Node -> [Listener -> Job \cup {Idle}]]
    BY <1>1, <1>4 DEF IInv, TypeOK
  <2> QED BY <1>1, <1>2, <2>1 DEF IInv, TypeOK
<1>6. HandledIsRecent'
  BY <1>1, <1>3, <1>4 DEF IInv, HandledIsRecent
<1>7. \A o \in Node : ring'[o] = IF o = m THEN ring[o] \cup {n} ELSE ring[o]
  BY <1>1 DEF IInv, TypeOK
<1>8. PrunedAreOnRing'
  BY <1>1, <1>7 DEF IInv, PrunedAreOnRing
<1>9. \A o, p \in Node : Meeting(o, p) => Meeting(o, p)' \/ (o = m /\ p = n)
  BY <1>3 DEF Meeting
<1>10. seen[m][n] # "no"
  BY <1>1 DEF IInv, HandledIsRecent
<1>11. RingIsHeard'
  BY <1>1, <1>7, <1>9, <1>10 DEF IInv, RingIsHeard
<1> QED BY <1>1, <1>5, <1>6, <1>8, <1>11 DEF IInv, PrunesOthers, PruneDiesForCause

LEMMA AbsorbInv ==
    ASSUME IInv, NEW m \in Node, NEW t \in Listener, Absorb(m, t)
    PROVE  IInv'
<1> DEFINE fresh == job[m][t].peers \ known[m]
<1>1. /\ job[m][t] # Idle /\ ~job[m][t].new
      /\ known' = [known EXCEPT ![m] = @ \cup fresh]
      /\ tdma' = [tdma EXCEPT ![m] = @ \cup fresh]
      /\ job' = [job EXCEPT ![m][t] = Idle]
      /\ UNCHANGED <<clock, seen, ring, pruner, dead, silences, seed, causes>>
  BY DEF Absorb, Give
<1>2. fresh \subseteq Node
  BY <1>1 DEF IInv, TypeOK, Job
<1>3. \A o \in Node, u \in Listener : job'[o][u] = IF o = m /\ u = t THEN Idle ELSE job[o][u]
  BY <1>1 DEF IInv, TypeOK
<1>4. TypeOK'
  <2>1. job' \in [Node -> [Listener -> Job \cup {Idle}]]
    BY <1>1 DEF IInv, TypeOK
  <2>2. /\ known' \in [Node -> SUBSET Node]
        /\ tdma' \in [Node -> SUBSET Node]
        /\ \A o \in Node : /\ known[o] \subseteq known'[o]
                           /\ o \in known'[o] /\ known'[o] \subseteq tdma'[o]
                           /\ tdma'[o] \subseteq known'[o] \cup seed[o]
    BY <1>1, <1>2 DEF IInv, TypeOK
  <2> QED BY <1>1, <2>1, <2>2 DEF IInv, TypeOK
<1>5. \A o, p \in Node : Meeting(o, p) => Meeting(o, p)'
  BY <1>1, <1>3 DEF Meeting
<1>6. HandledIsRecent' /\ RingIsHeard'
  BY <1>1, <1>3, <1>5 DEF IInv, HandledIsRecent, RingIsHeard
<1> QED BY <1>1, <1>4, <1>6 DEF IInv, PrunesOthers, PrunedAreOnRing, PruneDiesForCause

LEMMA FallSilentInv ==
    ASSUME IInv, NEW m \in Node, NEW n \in Node, FallSilent(m, n)
    PROVE  IInv'
<1>1. /\ silences < MaxSilences
      /\ seen[m][n] = "recently"
      /\ \A t \in Listener : job[m][t] # Idle => job[m][t].from # n
      /\ seen' = [seen EXCEPT ![m][n] = "stale"]
      /\ silences' = silences + 1
      /\ UNCHANGED <<clock, tdma, known, ring, job, pruner, dead, seed, causes>>
  BY DEF FallSilent
<1>2. \A o, p \in Node : seen'[o][p] = IF o = m /\ p = n THEN "stale" ELSE seen[o][p]
  BY <1>1 DEF IInv, TypeOK
<1>3. TypeOK'
  <2>1. seen' \in [Node -> [Node -> {"no", "recently", "stale"}]]
    BY <1>1 DEF IInv, TypeOK
  <2>2. \A o \in Node : seen'[o][o] = "no"
    BY <1>1, <1>2 DEF IInv, TypeOK
  <2>3. \A o, p \in Node : seen'[o][p] # "no" => p \in known[o]
    BY <1>1, <1>2 DEF IInv, TypeOK
  <2>4. silences' \in 0 .. MaxSilences
    BY <1>1, MeshConstants DEF IInv, TypeOK
  <2> QED BY <1>1, <2>1, <2>2, <2>3, <2>4 DEF IInv, TypeOK
<1>4. HandledIsRecent'
  <2>1. \A o \in Node, u \in Listener : job[o][u] # Idle => job[o][u].from \in Node
    BY DEF IInv, TypeOK, Job
  <2> QED BY <1>1, <1>2, <2>1 DEF IInv, HandledIsRecent
<1>5. PrunedAreOnRing'
  <2>1. \A o \in Node : pruner[o] \subseteq Node
    BY DEF IInv, TypeOK
  <2> QED BY <1>1, <1>2, <2>1 DEF IInv, PrunedAreOnRing
<1>6. RingIsHeard'
  BY <1>1, <1>2 DEF IInv, RingIsHeard, Meeting
<1> QED BY <1>1, <1>3, <1>4, <1>5, <1>6 DEF IInv, PrunesOthers, PruneDiesForCause

LEMMA PruneStaleInv ==
    ASSUME IInv, NEW m \in Node, PruneStale(m)
    PROVE  IInv'
<1> DEFINE S == Stale(m)
<1>1. /\ pruner[m] = {}
      /\ known' = [known EXCEPT ![m] = @ \ S]
      /\ tdma' = [tdma EXCEPT ![m] = @ \ S]
      /\ seen' = [seen EXCEPT ![m] = [n \in Node |-> IF n \in S THEN "no" ELSE @[n]]]
      /\ pruner' = [pruner EXCEPT ![m] = S]
      /\ UNCHANGED <<clock, ring, job, dead, silences, seed, causes>>
  BY DEF PruneStale, Take
<1>2. /\ S \subseteq Node /\ m \notin S
      /\ \A p \in S : seen[m][p] = "stale"
  BY DEF Stale, IInv, TypeOK
<1>3. \A o, p \in Node : seen'[o][p] = IF o = m /\ p \in S THEN "no" ELSE seen[o][p]
  BY <1>1 DEF IInv, TypeOK
<1>4. \A o \in Node : pruner'[o] = IF o = m THEN S ELSE pruner[o]
  BY <1>1 DEF IInv, TypeOK
<1>5. \A o \in Node : /\ known'[o] = IF o = m THEN known[o] \ S ELSE known[o]
                      /\ tdma'[o] = IF o = m THEN tdma[o] \ S ELSE tdma[o]
  BY <1>1 DEF IInv, TypeOK
<1>6. TypeOK'
  <2>1. /\ seen' \in [Node -> [Node -> {"no", "recently", "stale"}]]
        /\ pruner' \in [Node -> SUBSET Node]
        /\ known' \in [Node -> SUBSET Node]
        /\ tdma' \in [Node -> SUBSET Node]
    BY <1>1, <1>2 DEF IInv, TypeOK
  <2>2. \A o \in Node : /\ o \in known'[o] /\ known'[o] \subseteq tdma'[o]
                        /\ tdma'[o] \subseteq known'[o] \cup seed[o]
    <3>1. \A o \in Node : /\ o \in known[o] /\ known[o] \subseteq tdma[o]
                          /\ tdma[o] \subseteq known[o] \cup seed[o]
      BY DEF IInv, TypeOK
    <3> QED BY <1>2, <1>5, <3>1
  <2>3. \A o, p \in Node : seen'[o][p] # "no" => p \in known'[o]
    <3>1. \A o, p \in Node : seen[o][p] # "no" => p \in known[o]
      BY DEF IInv, TypeOK
    <3> QED BY <1>3, <1>5, <3>1
  <2>4. \A o \in Node : seen'[o][o] = "no"
    BY <1>3 DEF IInv, TypeOK
  <2> QED BY <1>1, <2>1, <2>2, <2>3, <2>4 DEF IInv, TypeOK
<1>7. HandledIsRecent'
  <2>1. \A o \in Node, u \in Listener : job[o][u] # Idle => job[o][u].from \in Node
    BY DEF IInv, TypeOK, Job
  <2> QED BY <1>1, <1>2, <1>3, <2>1 DEF IInv, HandledIsRecent
<1>8. causes[m] = {} => S \subseteq ring[m]
  <2>1. \A p \in S : ~Meeting(m, p)
    BY <1>2 DEF IInv, HandledIsRecent, Meeting
  <2> QED BY <1>2, <2>1 DEF IInv, RingIsHeard
<1>9. PrunedAreOnRing'
  <2>1. \A o \in Node : pruner[o] \subseteq Node
    BY DEF IInv, TypeOK
  <2> QED BY <1>1, <1>2, <1>3, <1>4, <1>8, <2>1 DEF IInv, PrunedAreOnRing
<1>10. RingIsHeard'
  BY <1>1, <1>3, <1>4 DEF IInv, RingIsHeard, Meeting
<1>11. PrunesOthers'
  BY <1>2, <1>4 DEF IInv, PrunesOthers
<1> QED BY <1>1, <1>6, <1>7, <1>9, <1>10, <1>11 DEF IInv, PruneDiesForCause

LEMMA PruneOneInv ==
    ASSUME IInv, NEW m \in Node, NEW n \in pruner[m], PruneOne(m, n)
    PROVE  IInv'
<1>1. /\ ring' = [ring EXCEPT ![m] = @ \ {n}]
      /\ pruner' = [pruner EXCEPT ![m] = @ \ {n}]
      /\ UNCHANGED <<clock, tdma, known, seen, job, dead, silences, seed, causes>>
  BY DEF PruneOne, Take
<1>2. \A o \in Node : /\ ring'[o] = IF o = m THEN ring[o] \ {n} ELSE ring[o]
                      /\ pruner'[o] = IF o = m THEN pruner[o] \ {n} ELSE pruner[o]
  BY <1>1 DEF IInv, TypeOK
<1>3. n # m /\ n \in Node
  BY DEF IInv, TypeOK, PrunesOthers
<1>4. TypeOK'
  BY <1>1, <1>3 DEF IInv, TypeOK
<1>5. HandledIsRecent'
  BY <1>1 DEF IInv, HandledIsRecent
<1>6. PrunesOthers'
  BY <1>2 DEF IInv, PrunesOthers
<1>7. PrunedAreOnRing'
  <2> SUFFICES ASSUME NEW o \in Node, causes[o] = {}, NEW p \in pruner'[o]
               PROVE  p \in ring'[o] /\ seen[o][p] = "no"
    BY <1>1 DEF PrunedAreOnRing
  <2>1. p \in pruner[o] /\ (o = m => p # n)
    BY <1>2
  <2>2. p \in ring[o] /\ seen[o][p] = "no"
    BY <2>1 DEF IInv, PrunedAreOnRing
  <2> QED BY <1>2, <2>1, <2>2
<1>8. causes[m] = {} => seen[m][n] = "no"
  BY DEF IInv, PrunedAreOnRing
<1>9. RingIsHeard'
  BY <1>1, <1>2, <1>8 DEF IInv, RingIsHeard, Meeting
<1> QED BY <1>1, <1>4, <1>5, <1>9, <1>7, <1>6 DEF IInv, PruneDiesForCause

LEMMA PruneDiesInv ==
    ASSUME IInv, NEW m \in Node, NEW n \in pruner[m], PruneDies(m, n)
    PROVE  IInv'
<1>1. /\ n \notin ring[m]
      /\ dead' = dead \cup {m}
      /\ pruner' = [pruner EXCEPT ![m] = {}]
      /\ UNCHANGED <<clock, tdma, known, seen, ring, job, silences, seed, causes>>
  BY DEF PruneDies
<1>2. \A o \in Node : pruner'[o] = IF o = m THEN {} ELSE pruner[o]
  BY <1>1 DEF IInv, TypeOK
<1>3. causes[m] # {}
  BY <1>1 DEF IInv, PrunedAreOnRing
<1>4. TypeOK'
  BY <1>1 DEF IInv, TypeOK
<1>5. HandledIsRecent' /\ PrunesOthers' /\ PrunedAreOnRing'
  BY <1>1, <1>2 DEF IInv, HandledIsRecent, PrunesOthers, PrunedAreOnRing
<1>6. RingIsHeard'
  BY <1>1, <1>2, <1>3 DEF IInv, RingIsHeard, Meeting
<1> QED BY <1>1, <1>3, <1>4, <1>5, <1>6 DEF IInv, PruneDiesForCause

LEMMA InvStep == IInv /\ [Next]_vars => IInv'
<1> SUFFICES ASSUME IInv, [Next]_vars PROVE IInv'
  OBVIOUS
<1>1. CASE UNCHANGED vars
  <2>1. TypeOK'
    BY <1>1 DEF vars, IInv, TypeOK
  <2>2. RingIsHeard'
    BY <1>1 DEF vars, IInv, RingIsHeard, Meeting
  <2> QED BY <1>1, <2>1, <2>2 DEF vars, IInv, HandledIsRecent, PrunesOthers, PrunedAreOnRing, PruneDiesForCause
<1> QED BY <1>1, NextSlotInv, HearInv, MeetInv, AbsorbInv, FallSilentInv, PruneStaleInv, PruneOneInv,
           PruneDiesInv DEF Next, Prune

\* The lists, the ring and the prune thread's work keep their types; a node is
\* always in its own schedule, and schedules what it knows and was told of.
THEOREM TypeCorrect == Spec => []TypeOK
<1>1. IInv => TypeOK
  BY DEF IInv
<1> QED BY <1>1, InvInit, InvStep, PTL DEF Spec

\* The ring follows discovery at every node that has heard no absorbed peer
\* and none in the middle of its pruning.
THEOREM RingFollowsDiscovery == Spec => []RingIsHeard
<1>1. IInv => RingIsHeard
  BY DEF IInv
<1> QED BY <1>1, InvInit, InvStep, PTL DEF Spec

\* Only at the other nodes can the prune thread die of its KeyError.
THEOREM PruningDiesForCause == Spec => []PruneDiesForCause
<1>1. IInv => PruneDiesForCause
  BY DEF IInv
<1> QED BY <1>1, InvInit, InvStep, PTL DEF Spec

-----------------------------------------------------------------------------
(* A schedule of one. *)

\* Its node always has its turn.
LEMMA LonerSpeaks ==
    ASSUME TypeOK, NEW n \in Node, tdma[n] = {n}
    PROVE  IsMyTurn(n)
<1>1. Cardinality(tdma[n]) = 1
  BY FS_Singleton
<1>2. {p \in tdma[n] : p < n} = {}
  <2>1. n \in Nat
    BY MeshConstants
  <2> QED BY <2>1
<1>3. MySlot(n) = 0
  BY <1>2, FS_EmptySet DEF MySlot
<1>4. clock % 1 = 0
  BY MeshConstants DEF TypeOK
<1> QED BY <1>1, <1>3, <1>4 DEF IsMyTurn, CurrentSlot

\* And no step of anyone changes what it knows or hears.
LEMMA LonerStep ==
    ASSUME TypeOK, [Next]_vars, NEW n \in Node, tdma[n] = {n},
           \A t \in Listener : job[n][t] = Idle
    PROVE  /\ tdma'[n] = {n} /\ seen'[n] = seen[n]
           /\ known'[n] = known[n] /\ job'[n] = job[n]
<1>1. \A p \in Node : seen[n][p] = "no"
  BY DEF TypeOK
<1>2. ASSUME NEW m \in Node, NEW p \in Node, NEW t \in Listener, Hear(m, t, p)
      PROVE  m # n
  BY <1>2, LonerSpeaks DEF Hear, CanHear
<1>3. ASSUME NEW m \in Node, NEW t \in Listener, Meet(m, t) \/ Absorb(m, t)
      PROVE  m # n
  BY <1>3 DEF Meet, Absorb
<1>4. ASSUME NEW m \in Node, NEW p \in Node, FallSilent(m, p)
      PROVE  m # n
  BY <1>1, <1>4 DEF FallSilent
<1>5. ASSUME NEW m \in Node, PruneStale(m)
      PROVE  m # n
  BY <1>1, <1>5 DEF PruneStale, Stale
<1>6. ASSUME NEW m \in Node, NEW p \in Node, NEW t \in Listener, Hear(m, t, p)
      PROVE  /\ tdma'[n] = tdma[n] /\ seen'[n] = seen[n]
             /\ known'[n] = known[n] /\ job'[n] = job[n]
  BY <1>2, <1>6 DEF Hear, Give, TypeOK
<1>7. ASSUME NEW m \in Node, NEW t \in Listener, Meet(m, t) \/ Absorb(m, t)
      PROVE  /\ tdma'[n] = tdma[n] /\ seen'[n] = seen[n]
             /\ known'[n] = known[n] /\ job'[n] = job[n]
  BY <1>3, <1>7 DEF Meet, Absorb, Give, TypeOK
<1>8. ASSUME NEW m \in Node, NEW p \in Node, FallSilent(m, p)
      PROVE  /\ tdma'[n] = tdma[n] /\ seen'[n] = seen[n]
             /\ known'[n] = known[n] /\ job'[n] = job[n]
  BY <1>4, <1>8 DEF FallSilent, TypeOK
<1>9. ASSUME NEW m \in Node, PruneStale(m)
      PROVE  /\ tdma'[n] = tdma[n] /\ seen'[n] = seen[n]
             /\ known'[n] = known[n] /\ job'[n] = job[n]
  BY <1>5, <1>9 DEF PruneStale, Take, TypeOK
<1>10. ASSUME NextSlot \/ (\E m \in Node : Prune(m)) \/ UNCHANGED vars
       PROVE  /\ tdma'[n] = tdma[n] /\ seen'[n] = seen[n]
              /\ known'[n] = known[n] /\ job'[n] = job[n]
  BY <1>10 DEF NextSlot, Prune, PruneOne, PruneDies, vars
<1> QED BY <1>6, <1>7, <1>8, <1>9, <1>10 DEF Next

\* A node whose schedule holds itself alone hears nobody for good, also when
\* pruning left it alone.
THEOREM LonersStayAlone == Spec => LonersHearNobody
<1>1. TypeOK /\ [Next]_vars =>
          [\A n \in Node : (tdma[n] = {n} /\ \A t \in Listener : job[n][t] = Idle) =>
                              tdma'[n] = {n} /\ seen'[n] = seen[n]]_vars
  BY LonerStep
<1> QED BY <1>1, TypeCorrect, PTL DEF Spec, LonersHearNobody

\* No node has heard or knows of any other.
Apart ==
    \A n \in Node : tdma[n] = {n} /\ known[n] = {n} /\ \A t \in Listener : job[n][t] = Idle

\* Nodes that start as the program starts them, each with itself alone in its
\* schedule (mesh_node.py:115-119), never come to know one another.
THEOREM UnseededNodesNeverMeet ==
    ASSUME Seedings = {[n \in Node |-> {}]}
    PROVE  Spec => [](\A n \in Node : known[n] = {n})
<1>1. Init => Apart
  BY DEF Init, Apart
<1>2. TypeOK /\ Apart /\ [Next]_vars => Apart'
  BY LonerStep DEF Apart
<1>3. Apart => \A n \in Node : known[n] = {n}
  BY DEF Apart
<1> QED BY <1>1, <1>2, <1>3, TypeCorrect, PTL DEF Spec
=============================================================================
