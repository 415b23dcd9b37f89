--------------------------- MODULE RelayServerProofs ---------------------------
(***************************************************************************)
(* RelayServer's registration table, for any number of nodes and           *)
(* connections: it only ever names handlers that are serving, the counter  *)
(* of connections is off by the HELLOs it never counted and by no more, a  *)
(* node is reached by the handler that serves it until another handler of  *)
(* the node takes or drops its entry; and when nodes wait for their old    *)
(* handlers, clients hear of one another before they hear one another.     *)
(***************************************************************************)
EXTENDS RelayServer, FiniteSetTheorems, TLAPS

Gone == {"leaving", "done"}

Typed ==
    /\ pc \in [Conn -> {"free", "hello", "leaving", "done"} \cup Serving]
    /\ who \in [Conn -> Node \cup {None}]
    /\ open \in [Conn -> BOOLEAN]
    /\ todo \in [Conn -> SUBSET Node]
    /\ nodes \in [Node -> Conn \cup {NoConn}]
    /\ active \in Int
    /\ present \in [Conn -> SUBSET Node]
    /\ strays \subseteq Conn
    /\ lost \subseteq Conn
    /\ uncounted \subseteq Conn
    /\ reconnect \in {"finished", "unregistered", "anytime"}

\* A connection has a node from its first frame on.
Named == \A c \in Conn : pc[c] = "free" <=> who[c] = None

\* A handler is uncounted only when it has cleaned up, and has lost its node only
\* after registering it.
Marked ==
    /\ \A c \in uncounted : pc[c] \in Gone
    /\ \A c \in lost : pc[c] \in Serving \cup Gone

\* Unless a node comes back at any time, it is waiting for its HELLO to be read,
\* or being served, on one connection at most.
OneAtATime ==
    reconnect # "anytime" =>
        \A c, d \in Conn : c # d /\ who[c] = who[d] /\ who[c] # None =>
            pc[c] \in Gone \/ pc[d] \in Gone

\* ... and no handler loses its node to another.
NoneLost == reconnect # "anytime" => lost = {}

IndInv == Typed /\ Named /\ Marked /\ RegisteredIsServing /\ ActiveCounts /\ OneAtATime
          /\ NoneLost /\ ServedIsRegistered

ServingSet == {c \in Conn : pc[c] \in Serving}

-----------------------------------------------------------------------------

LEMMA ConnFacts == IsFiniteSet(Conn) /\ NoConn \notin Conn
BY RelayConstants, FS_Interval DEF Conn, NoConn

LEMMA ServingSetFinite == IsFiniteSet(ServingSet) /\ Cardinality(ServingSet) \in Nat
<1>1. ServingSet \subseteq Conn
  BY DEF ServingSet
<1> QED BY <1>1, ConnFacts, FS_Subset, FS_CardinalityType

\* A handler that registers joins the serving ones, one that cleans up leaves
\* them, and nothing else changes who is serving.
LEMMA ServingGrows ==
    ASSUME NEW c \in Conn, c \notin ServingSet, ServingSet' = ServingSet \cup {c}
    PROVE  Cardinality(ServingSet)' = Cardinality(ServingSet) + 1
BY ServingSetFinite, FS_AddElement

LEMMA ServingShrinks ==
    ASSUME NEW c \in Conn, c \in ServingSet, ServingSet' = ServingSet \ {c}
    PROVE  Cardinality(ServingSet)' = Cardinality(ServingSet) - 1
BY ServingSetFinite, FS_RemoveElement

LEMMA CountKept ==
    ASSUME ActiveCounts, ServingSet' = ServingSet, UNCHANGED <<active, uncounted>>
    PROVE  ActiveCounts'
BY DEF ActiveCounts, ServingSet

LEMMA UncountedFinite ==
    ASSUME Typed
    PROVE  IsFiniteSet(uncounted) /\ Cardinality(uncounted) \in Nat
BY ConnFacts, FS_Subset, FS_CardinalityType DEF Typed

-----------------------------------------------------------------------------
(* What a handler's steps do to its own place, and to no other's *)

LEMMA SendOneFacts ==
    ASSUME Typed, NEW c \in Conn, NEW m \in Node, NEW after \in {"serve", "done"},
           SendOne(c, m, after)
    PROVE  /\ pc' = pc \/ pc' = [pc EXCEPT ![c] = after]
           /\ todo' \in [Conn -> SUBSET Node]
BY DEF SendOne, Typed

-----------------------------------------------------------------------------

LEMMA InitInv == Init => IndInv
<1> SUFFICES ASSUME Init PROVE IndInv
  OBVIOUS
<1>1. ServingSet = {}
  BY DEF Init, ServingSet, Serving
<1>2. ActiveCounts
  <2>1. Cardinality(ServingSet) = 0 /\ Cardinality(uncounted) = 0 /\ active = 0
    BY <1>1, FS_EmptySet DEF Init
  <2> QED BY <2>1 DEF ActiveCounts, ServingSet
<1>3. Typed
  BY DEF Init, Typed
<1> QED BY <1>2, <1>3 DEF Init, IndInv, Named, Marked, RegisteredIsServing,
             OneAtATime, NoneLost, ServedIsRegistered, Serving

\* Steps that leave the table and the nodes alone and keep a serving handler
\* serving and one that is gone, gone.
LEMMA QuietStep ==
    ASSUME IndInv, Typed', UNCHANGED <<who, nodes, active, lost, uncounted, reconnect>>,
           NEW c \in Conn, NEW p, pc' = pc \/ pc' = [pc EXCEPT ![c] = p],
           p # "free", pc[c] # "free",
           pc[c] \in Serving <=> p \in Serving,
           pc[c] \in Gone => p \in Gone
    PROVE  IndInv'
<1>1. \A d \in Conn : /\ pc[d] = "free" <=> pc'[d] = "free"
                      /\ pc[d] \in Serving <=> pc'[d] \in Serving
                      /\ pc[d] \in Gone => pc'[d] \in Gone
  BY DEF IndInv, Typed
<1>2. ServingSet' = ServingSet
  BY <1>1 DEF ServingSet
<1>3. ActiveCounts'
  BY <1>2, CountKept DEF IndInv
<1>4. Named'
  BY <1>1 DEF IndInv, Named
<1>5. RegisteredIsServing'
  BY <1>1, ConnFacts DEF IndInv, RegisteredIsServing, Typed
<1>6. OneAtATime'
  BY <1>1 DEF IndInv, OneAtATime
<1>7. ServedIsRegistered'
  BY <1>1 DEF IndInv, ServedIsRegistered
<1>8. Marked' /\ NoneLost'
  BY <1>1 DEF IndInv, Marked, NoneLost, Typed
<1> QED BY <1>3, <1>4, <1>5, <1>6, <1>7, <1>8 DEF IndInv

LEMMA ConnectStep ==
    ASSUME IndInv, NEW c \in Conn, NEW n \in Node, Connect(c, n)
    PROVE  IndInv'
<1>1. /\ pc[c] = "free" /\ pc' = [pc EXCEPT ![c] = "hello"]
      /\ who' = [who EXCEPT ![c] = n]
      /\ open' = [open EXCEPT ![c] = TRUE]
      /\ UNCHANGED <<todo, nodes, active, lost, uncounted, present, strays, reconnect>>
  BY DEF Connect, tableVars, clientVars, tableVars
<1>2. Typed'
  BY <1>1 DEF IndInv, Typed
<1>3. Named'
  BY <1>1, RelayConstants DEF IndInv, Named, Typed
<1>4. ActiveCounts'
  <2>1. ServingSet' = ServingSet
    BY <1>1 DEF ServingSet, Serving, IndInv, Typed
  <2> QED BY <2>1, <1>1, CountKept DEF IndInv
<1>5. RegisteredIsServing'
  <2>1. ASSUME NEW m \in Node, nodes[m] # NoConn
        PROVE  pc'[nodes[m]] \in Serving /\ who'[nodes[m]] = m
    <3>1. nodes[m] \in Conn /\ pc[nodes[m]] \in Serving /\ who[nodes[m]] = m
      BY <2>1 DEF IndInv, Typed, RegisteredIsServing
    <3>2. nodes[m] # c
      BY <3>1, <1>1 DEF Serving
    <3> QED BY <3>1, <3>2, <1>1 DEF IndInv, Typed
  <2> QED BY <2>1, <1>1 DEF RegisteredIsServing
<1>6. OneAtATime'
  <2> SUFFICES ASSUME reconnect # "anytime" PROVE OneAtATime'
    BY <1>1 DEF OneAtATime
  <2>1. \A d \in Conn : who[d] = n => pc[d] \in Gone
    BY DEF Connect, tableVars, Gone, IndInv, Typed
  <2> QED BY <2>1, <1>1 DEF IndInv, OneAtATime, Typed, Gone
<1>7. ServedIsRegistered'
  BY <1>1 DEF IndInv, ServedIsRegistered, Serving, Typed
<1>8. Marked' /\ NoneLost'
  BY <1>1 DEF IndInv, Marked, NoneLost, Typed, Serving, Gone
<1> QED BY <1>2, <1>3, <1>4, <1>5, <1>6, <1>7, <1>8 DEF IndInv

LEMMA RegisterStep ==
    ASSUME IndInv, NEW c \in Conn, Register(c)
    PROVE  IndInv'
<1>1. /\ pc[c] = "hello" /\ pc' = [pc EXCEPT ![c] = "welcome"]
      /\ nodes' = [nodes EXCEPT ![who[c]] = c]
      /\ active' = active + 1
      /\ lost' = lost \cup Rivals(c)
      /\ present' = [present EXCEPT ![c] = Registered \ {who[c]}]
      /\ UNCHANGED <<who, open, todo, strays, uncounted, reconnect>>
  BY DEF Register
<1>2. who[c] \in Node
  BY <1>1 DEF IndInv, Named, Typed
<1>3. Typed'
  BY <1>1, <1>2 DEF IndInv, Typed, Serving, Registered, Rivals
<1>4. Named'
  BY <1>1 DEF IndInv, Named, Typed
<1>5. ActiveCounts'
  <2>1. c \notin ServingSet /\ ServingSet' = ServingSet \cup {c}
    BY <1>1 DEF ServingSet, Serving, IndInv, Typed
  <2>2. Cardinality(ServingSet)' = Cardinality(ServingSet) + 1
    BY <2>1, ServingGrows
  <2>3. Cardinality(ServingSet) \in Nat /\ Cardinality(uncounted) \in Nat /\ active \in Int
    BY ServingSetFinite, UncountedFinite DEF IndInv, Typed
  <2>4. active + Cardinality(uncounted) = Cardinality(ServingSet)
    BY DEF IndInv, ActiveCounts, ServingSet
  <2>5. active' + Cardinality(uncounted)' = Cardinality(ServingSet)'
    BY <2>2, <2>3, <2>4, <1>1
  <2> QED BY <2>5 DEF ActiveCounts, ServingSet
<1>6. RegisteredIsServing'
  <2>1. ASSUME NEW m \in Node, nodes'[m] # NoConn
        PROVE  pc'[nodes'[m]] \in Serving /\ who'[nodes'[m]] = m
    <3>1. CASE m = who[c]
      BY <3>1, <1>1, <1>2 DEF IndInv, Typed, Serving
    <3>2. CASE m # who[c]
      <4>1. nodes'[m] = nodes[m] /\ nodes[m] \in Conn
        BY <3>2, <2>1, <1>1 DEF IndInv, Typed
      <4>2. pc[nodes[m]] \in Serving /\ who[nodes[m]] = m
        BY <4>1, <2>1 DEF IndInv, RegisteredIsServing
      <4>3. nodes[m] # c
        BY <4>2, <3>2
      <4> QED BY <4>1, <4>2, <4>3, <1>1 DEF IndInv, Typed
    <3> QED BY <3>1, <3>2
  <2> QED BY <2>1 DEF RegisteredIsServing
<1>7. OneAtATime'
  BY <1>1 DEF IndInv, OneAtATime, Typed, Gone
<1>8. ServedIsRegistered'
  <2>1. ASSUME NEW d \in Conn, pc'[d] \in Serving
        PROVE  nodes'[who[d]] = d <=> d \notin lost'
    <3>1. CASE d = c
      BY <3>1, <1>1, <1>2 DEF IndInv, Typed, Marked, Rivals, Serving, Gone
    <3>2. CASE d # c /\ who[d] = who[c]
      <4>1. pc[d] \in Serving /\ d \in Rivals(c)
        BY <3>2, <2>1, <1>1 DEF IndInv, Typed, Rivals
      <4> QED BY <4>1, <3>2, <1>1, <1>2 DEF IndInv, Typed
    <3>3. CASE d # c /\ who[d] # who[c]
      <4>1. pc[d] \in Serving /\ d \notin Rivals(c) /\ who[d] \in Node
        BY <3>3, <2>1, <1>1 DEF IndInv, Typed, Rivals, Named, Serving
      <4>2. nodes[who[d]] = d <=> d \notin lost
        BY <4>1 DEF IndInv, ServedIsRegistered
      <4> QED BY <4>1, <4>2, <3>3, <1>1, <1>2 DEF IndInv, Typed
    <3> QED BY <3>1, <3>2, <3>3
  <2> QED BY <2>1, <1>1 DEF ServedIsRegistered
<1>9. Marked' /\ NoneLost'
  <2>1. Marked'
    BY <1>1 DEF IndInv, Marked, Typed, Serving, Gone, Rivals
  <2>2. ASSUME reconnect # "anytime" PROVE Rivals(c) = {}
    <3> SUFFICES ASSUME NEW d \in Conn \ {c}, pc[d] \in Serving, who[d] = who[c]
                 PROVE  FALSE
      BY DEF Rivals
    <3> QED BY <2>2, <1>1, <1>2, RelayConstants DEF IndInv, OneAtATime, Serving, Gone
  <2> QED BY <2>1, <2>2, <1>1 DEF IndInv, NoneLost
<1> QED BY <1>3, <1>4, <1>5, <1>6, <1>7, <1>8, <1>9 DEF IndInv

\* What the finally block does to everything but the counter: Cleanup and
\* RejectKey have it in common.
LEMMA UnregisterStep ==
    ASSUME IndInv, NEW c \in Conn, pc[c] \notin Gone, pc[c] # "free", Unregister(c),
           uncounted' \in SUBSET Conn, \A d \in uncounted' : d \in uncounted \/ d = c
    PROVE  /\ Typed' /\ Named' /\ Marked' /\ RegisteredIsServing' /\ OneAtATime'
           /\ NoneLost' /\ ServedIsRegistered'
           /\ ServingSet' = ServingSet \ {c}
           /\ active' = active - 1
<1> DEFINE p == IF Registered \ {who[c]} = {} THEN "done" ELSE "leaving"
<1>1. /\ pc' = [pc EXCEPT ![c] = p]
      /\ nodes' = [nodes EXCEPT ![who[c]] = NoConn]
      /\ active' = active - 1
      /\ lost' = lost \cup Rivals(c)
      /\ todo' = [todo EXCEPT ![c] = Registered \ {who[c]}]
      /\ UNCHANGED <<who, open, present, strays, reconnect>>
  BY DEF Unregister, clientVars
<1>2. p \in Gone
  BY DEF Gone
<1> HIDE DEF p
<1>3. who[c] \in Node
  BY DEF IndInv, Named, Typed
<1>4. Typed'
  <2>0. pc' \in [Conn -> {"free", "hello", "leaving", "done"} \cup Serving]
    BY <1>1, <1>2 DEF IndInv, Typed, Gone
  <2>1. nodes' \in [Node -> Conn \cup {NoConn}] /\ active' \in Int
    BY <1>1, <1>3 DEF IndInv, Typed
  <2>2. todo' \in [Conn -> SUBSET Node] /\ lost' \subseteq Conn
    BY <1>1 DEF IndInv, Typed, Registered, Rivals
  <2>3. uncounted' \subseteq Conn
    OBVIOUS
  <2> QED BY <2>0, <2>1, <2>2, <2>3, <1>1 DEF IndInv, Typed
<1>5. Named'
  BY <1>1, <1>2 DEF IndInv, Named, Typed, Gone
<1>6. Marked'
  BY <1>1, <1>2 DEF IndInv, Marked, Typed, Rivals
<1>7. RegisteredIsServing'
  <2>1. ASSUME NEW m \in Node, nodes'[m] # NoConn
        PROVE  pc'[nodes'[m]] \in Serving /\ who'[nodes'[m]] = m
    <3>1. m # who[c] /\ nodes'[m] = nodes[m] /\ nodes[m] \in Conn
      BY <2>1, <1>1, <1>3 DEF IndInv, Typed
    <3>2. pc[nodes[m]] \in Serving /\ who[nodes[m]] = m
      BY <3>1, <2>1 DEF IndInv, RegisteredIsServing
    <3>3. nodes[m] # c
      BY <3>1, <3>2
    <3> QED BY <3>1, <3>2, <3>3, <1>1 DEF IndInv, Typed
  <2> QED BY <2>1 DEF RegisteredIsServing
<1>8. OneAtATime'
  BY <1>1, <1>2 DEF IndInv, OneAtATime, Typed
<1>9. NoneLost'
  <2>1. ASSUME reconnect # "anytime" PROVE Rivals(c) = {}
    <3> SUFFICES ASSUME NEW d \in Conn \ {c}, pc[d] \in Serving, who[d] = who[c]
                 PROVE  FALSE
      BY DEF Rivals
    <3> QED BY <2>1, <1>3, RelayConstants DEF IndInv, OneAtATime, Serving, Gone
  <2> QED BY <2>1, <1>1 DEF IndInv, NoneLost
<1>10. ServedIsRegistered'
  <2>1. ASSUME NEW d \in Conn, pc'[d] \in Serving
        PROVE  nodes'[who[d]] = d <=> d \notin lost'
    <3>1. d # c /\ pc[d] \in Serving /\ who[d] \in Node
      BY <2>1, <1>1, <1>2 DEF IndInv, Typed, Named, Serving, Gone
    <3>2. CASE who[d] = who[c]
      <4>1. d \in Rivals(c) /\ nodes'[who[d]] = NoConn
        BY <3>1, <3>2, <1>1, <1>3 DEF Rivals, IndInv, Typed
      <4> QED BY <4>1, <1>1, ConnFacts
    <3>3. CASE who[d] # who[c]
      <4>1. d \notin Rivals(c) /\ nodes'[who[d]] = nodes[who[d]]
        BY <3>1, <3>3, <1>1, <1>3 DEF Rivals, IndInv, Typed
      <4>2. nodes[who[d]] = d <=> d \notin lost
        BY <3>1 DEF IndInv, ServedIsRegistered
      <4> QED BY <4>1, <4>2, <1>1
    <3> QED BY <3>2, <3>3
  <2> QED BY <2>1, <1>1 DEF ServedIsRegistered
<1>11. ServingSet' = ServingSet \ {c}
  BY <1>1, <1>2 DEF ServingSet, Serving, Gone, IndInv, Typed
<1> QED BY <1>1, <1>4, <1>5, <1>6, <1>7, <1>8, <1>9, <1>10, <1>11

LEMMA RejectKeyStep ==
    ASSUME IndInv, NEW c \in Conn, RejectKey(c)
    PROVE  IndInv'
<1>1. pc[c] = "hello" /\ Unregister(c) /\ uncounted' = uncounted \cup {c}
  BY DEF RejectKey
<1>2. /\ Typed' /\ Named' /\ Marked' /\ RegisteredIsServing' /\ OneAtATime'
      /\ NoneLost' /\ ServedIsRegistered'
      /\ ServingSet' = ServingSet \ {c}
      /\ active' = active - 1
  <2>1. pc[c] \notin Gone /\ pc[c] # "free"
    BY <1>1 DEF Gone
  <2>2. uncounted' \in SUBSET Conn /\ \A d \in uncounted' : d \in uncounted \/ d = c
    BY <1>1 DEF IndInv, Typed
  <2> QED BY <2>1, <2>2, <1>1, UnregisterStep
<1>3. ActiveCounts'
  <2>1. ServingSet' = ServingSet
    BY <1>1, <1>2 DEF ServingSet, Serving
  <2>2. c \notin uncounted
    BY <1>1 DEF IndInv, Marked, Gone
  <2>3. Cardinality(uncounted)' = Cardinality(uncounted) + 1
    BY <1>1, <2>2, UncountedFinite, FS_AddElement DEF IndInv
  <2>4. Cardinality(ServingSet) \in Nat /\ Cardinality(uncounted) \in Nat /\ active \in Int
    BY ServingSetFinite, UncountedFinite DEF IndInv, Typed
  <2>5. active + Cardinality(uncounted) = Cardinality(ServingSet)
    BY DEF IndInv, ActiveCounts, ServingSet
  <2>6. Cardinality(ServingSet)' = Cardinality(ServingSet)
    BY <2>1
  <2>7. active' + Cardinality(uncounted)' = Cardinality(ServingSet)'
    BY <1>2, <2>3, <2>4, <2>5, <2>6
  <2> QED BY <2>7 DEF ActiveCounts, ServingSet
<1> QED BY <1>2, <1>3 DEF IndInv

LEMMA CleanupStep ==
    ASSUME IndInv, NEW c \in Conn, Cleanup(c)
    PROVE  IndInv'
<1>1. pc[c] \in {"welcome", "serve"} /\ Unregister(c) /\ uncounted' = uncounted
  BY DEF Cleanup
<1>2. /\ Typed' /\ Named' /\ Marked' /\ RegisteredIsServing' /\ OneAtATime'
      /\ NoneLost' /\ ServedIsRegistered'
      /\ ServingSet' = ServingSet \ {c}
      /\ active' = active - 1
  <2>1. pc[c] \notin Gone /\ pc[c] # "free"
    BY <1>1 DEF Gone
  <2>2. uncounted' \in SUBSET Conn /\ \A d \in uncounted' : d \in uncounted \/ d = c
    BY <1>1 DEF IndInv, Typed
  <2> QED BY <2>1, <2>2, <1>1, UnregisterStep
<1>3. ActiveCounts'
  <2>1. c \in ServingSet
    BY <1>1 DEF ServingSet, Serving
  <2>2. Cardinality(ServingSet)' = Cardinality(ServingSet) - 1
    BY <2>1, <1>2, ServingShrinks
  <2>3. Cardinality(ServingSet) \in Nat /\ Cardinality(uncounted) \in Nat /\ active \in Int
    BY ServingSetFinite, UncountedFinite DEF IndInv, Typed
  <2>4. active + Cardinality(uncounted) = Cardinality(ServingSet)
    BY DEF IndInv, ActiveCounts, ServingSet
  <2>5. active' + Cardinality(uncounted)' = Cardinality(ServingSet)'
    BY <1>1, <1>2, <2>2, <2>3, <2>4
  <2> QED BY <2>5 DEF ActiveCounts, ServingSet
<1> QED BY <1>2, <1>3 DEF IndInv

-----------------------------------------------------------------------------

LEMMA NextInv == IndInv /\ [Next]_vars => IndInv'
<1> SUFFICES ASSUME IndInv, [Next]_vars PROVE IndInv'
  OBVIOUS
<1>1. ASSUME NEW c \in Conn, NEW n \in Node, Connect(c, n) PROVE IndInv'
  BY <1>1, ConnectStep
<1>2. ASSUME NEW c \in Conn, Break(c) PROVE IndInv'
  <2>1. Typed' /\ UNCHANGED <<pc, who, nodes, active, lost, uncounted, reconnect>>
    BY <1>2 DEF Break, tableVars, handlerVars, clientVars, IndInv, Typed
  <2>2. ServingSet' = ServingSet
    BY <2>1 DEF ServingSet
  <2> QED BY <2>1, <2>2, CountKept DEF IndInv, Named, Marked, RegisteredIsServing,
             OneAtATime, NoneLost, ServedIsRegistered
<1>3. ASSUME NEW c \in Conn, GiveUp(c) PROVE IndInv'
  <2>1. /\ pc[c] = "hello" /\ pc' = [pc EXCEPT ![c] = "done"]
        /\ UNCHANGED <<who, nodes, active, lost, uncounted, reconnect>>
    BY <1>3 DEF GiveUp, tableVars
  <2>2. Typed'
    BY <1>3 DEF GiveUp, tableVars, clientVars, IndInv, Typed
  <2> QED BY <2>1, <2>2, QuietStep DEF Serving, Gone
<1>4. ASSUME NEW c \in Conn, Register(c) PROVE IndInv'
  BY <1>4, RegisterStep
<1>5. ASSUME NEW c \in Conn, RejectKey(c) PROVE IndInv'
  BY <1>5, RejectKeyStep
<1>6. ASSUME NEW c \in Conn, JoinBegin(c) PROVE IndInv'
  <2> DEFINE p == IF Registered \ {who[c]} = {} THEN "serve" ELSE "joining"
  <2>1. /\ pc[c] = "welcome" /\ pc' = [pc EXCEPT ![c] = p]
        /\ UNCHANGED <<who, nodes, active, lost, uncounted, reconnect>>
    BY <1>6 DEF JoinBegin, tableVars
  <2>2. Typed'
    BY <1>6 DEF JoinBegin, tableVars, clientVars, IndInv, Typed, Serving, Registered
  <2> QED BY <2>1, <2>2, QuietStep DEF Serving, Gone
<1>7. ASSUME NEW c \in Conn, NEW m \in Node, JoinTell(c, m) PROVE IndInv'
  <2>1. /\ pc[c] = "joining" /\ UNCHANGED <<who, nodes, active, lost, uncounted, reconnect>>
        /\ pc' = pc \/ pc' = [pc EXCEPT ![c] = "serve"]
    BY <1>7, SendOneFacts DEF JoinTell, tableVars, IndInv
  <2>2. present' \in [Conn -> SUBSET Node]
    <3>1. who[c] \in Node
      BY <2>1 DEF IndInv, Named, Typed
    <3> QED BY <1>7, <3>1 DEF JoinTell, tableVars, IndInv, Typed
  <2>3. Typed'
    BY <1>7, <2>1, <2>2, SendOneFacts DEF JoinTell, tableVars, IndInv, Typed, Serving
  <2> QED BY <2>1, <2>3, QuietStep DEF Serving, Gone
<1>8. ASSUME NEW c \in Conn, NEW m \in Node, Forward(c, m) PROVE IndInv'
  <2>1. Typed' /\ UNCHANGED <<pc, who, nodes, active, lost, uncounted, reconnect>>
    BY <1>8 DEF Forward, tableVars, Deliver, handlerVars, IndInv, Typed
  <2>2. ServingSet' = ServingSet
    BY <2>1 DEF ServingSet
  <2> QED BY <2>1, <2>2, CountKept DEF IndInv, Named, Marked, RegisteredIsServing,
             OneAtATime, NoneLost, ServedIsRegistered
<1>9. ASSUME NEW c \in Conn, CastBegin(c) PROVE IndInv'
  <2>1. /\ pc[c] = "serve" /\ pc' = [pc EXCEPT ![c] = "cast"]
        /\ UNCHANGED <<who, nodes, active, lost, uncounted, reconnect>>
    BY <1>9 DEF CastBegin, tableVars
  <2>2. Typed'
    BY <1>9 DEF CastBegin, tableVars, clientVars, IndInv, Typed, Serving, Registered
  <2> QED BY <2>1, <2>2, QuietStep DEF Serving, Gone
<1>10. ASSUME NEW c \in Conn, NEW m \in Node, CastOne(c, m) PROVE IndInv'
  <2>1. /\ pc[c] = "cast" /\ UNCHANGED <<who, nodes, active, lost, uncounted, reconnect>>
        /\ pc' = pc \/ pc' = [pc EXCEPT ![c] = "serve"]
    BY <1>10, SendOneFacts DEF CastOne, tableVars, IndInv
  <2>2. Typed'
    BY <1>10, <2>1, SendOneFacts DEF CastOne, tableVars, Deliver, IndInv, Typed, Serving
  <2> QED BY <2>1, <2>2, QuietStep DEF Serving, Gone
<1>11. ASSUME NEW c \in Conn, Cleanup(c) PROVE IndInv'
  BY <1>11, CleanupStep
<1>12. ASSUME NEW c \in Conn, NEW m \in Node, LeaveTell(c, m) PROVE IndInv'
  <2>1. /\ pc[c] = "leaving" /\ UNCHANGED <<who, nodes, active, lost, uncounted, reconnect>>
        /\ pc' = pc \/ pc' = [pc EXCEPT ![c] = "done"]
    BY <1>12, SendOneFacts DEF LeaveTell, tableVars, IndInv
  <2>2. Typed'
    BY <1>12, <2>1, SendOneFacts DEF LeaveTell, tableVars, IndInv, Typed
  <2> QED BY <2>1, <2>2, QuietStep DEF Serving, Gone
<1>13. CASE UNCHANGED vars
  BY <1>13, CountKept DEF vars, IndInv, Typed, Named, Marked, RegisteredIsServing,
     ActiveCounts, OneAtATime, NoneLost, ServedIsRegistered
<1> QED BY <1>1, <1>2, <1>3, <1>4, <1>5, <1>6, <1>7, <1>8, <1>9, <1>10, <1>11, <1>12,
           <1>13 DEF Next

LEMMA Invariance == Spec => []IndInv
BY InitInv, NextInv, PTL DEF Spec

\* The variables keep their types for every number of nodes and connections: no
\* handler registers or is sent anything under a name that is not a node's
\* (relay_server.py:101-113).
THEOREM TypeCorrect == Spec => []TypeOK
<1>1. IndInv => TypeOK
  BY DEF IndInv, Typed, TypeOK
<1> QED BY <1>1, Invariance, PTL

\* No registration outlives the handler that made it, however connections of one
\* node replace one another (relay_server.py:107-113, 139-143).
THEOREM RegistrationsAreServed == Spec => []RegisteredIsServing
<1>1. IndInv => RegisteredIsServing
  BY DEF IndInv
<1> QED BY <1>1, Invariance, PTL

\* active_connections is the number of handlers between their registration and
\* their finally block, less one for every HELLO whose public key was refused
\* after its node id was taken (relay_server.py:101-115, 139-143).
THEOREM ConnectionsAreCounted == Spec => []ActiveCounts
<1>1. IndInv => ActiveCounts
  BY DEF IndInv
<1> QED BY <1>1, Invariance, PTL

\* A node is reached by the handler that serves it until, and only until,
\* another handler of the node registers or cleans up: what a node that comes
\* back at any time loses, and loses for good (relay_server.py:107-145).
THEOREM ServedNodesAreRegistered == Spec => []ServedIsRegistered
<1>1. IndInv => ServedIsRegistered
  BY DEF IndInv
<1> QED BY <1>1, Invariance, PTL


-----------------------------------------------------------------------------
(* Who is told of whom, when every reconnection waits for the old handler  *)
(* to finish                                                               *)

\* A node's handlers follow one another: all but the last are done.
OthersAreDone ==
    \A c, d \in Conn : c # d /\ who[c] = who[d] /\ who[c] # None =>
        pc[c] = "done" \/ pc[d] = "done"

\* A joiner does not announce itself to itself.
JoinsOthers == \A c \in Conn : pc[c] = "joining" => who[c] \notin todo[c]

\* A client that is served has been told of every node served beside it, or that
\* node's handler has yet to announce it to this one.
Told ==
    \A c, d \in Conn :
        pc[c] \in Serving /\ pc[d] \in Serving /\ open[d] /\ who[c] # who[d] =>
            \/ who[c] \in present[d]
            \/ pc[c] = "welcome"
            \/ pc[c] = "joining" /\ who[d] \in todo[c]

\* The handler that unregistered n has yet to say so to m.
FarewellDue(n, m) == \E e \in Conn : who[e] = n /\ pc[e] = "leaving" /\ m \in todo[e]

\* A node a served client believes in is another one, and registered, or the
\* handler that unregistered it has yet to say so to this client.
Believed ==
    \A d \in Conn, m \in Node : pc[d] \in Serving /\ open[d] /\ who[d] = m =>
        \A n \in present[d] : n # m /\ (n \in Registered \/ FarewellDue(n, m))

Talk == OthersAreDone /\ JoinsOthers /\ Told /\ Believed

Informed == reconnect = "finished" => Talk /\ strays = {}

\* Who is served is registered under the connection that serves it.
LEMMA ServedFacts ==
    ASSUME IndInv, reconnect = "finished", NEW c \in Conn, pc[c] \in Serving
    PROVE  who[c] \in Node /\ nodes[who[c]] = c /\ who[c] \in Registered
<1>1. who[c] \in Node
  BY DEF IndInv, Named, Typed, Serving
<1>2. nodes[who[c]] = c
  BY DEF IndInv, ServedIsRegistered, NoneLost
<1> QED BY <1>1, <1>2, ConnFacts DEF Registered

\* A frame for m goes to the connection that serves m.
LEMMA ReceiverFacts ==
    ASSUME IndInv, NEW m \in Node, NEW d \in Conn, Receives(m, d)
    PROVE  pc[d] \in Serving /\ who[d] = m /\ open[d]
BY ConnFacts DEF Receives, IndInv, RegisteredIsServing

\* Two handlers that are not done are of different nodes.
LEMMA Differ ==
    ASSUME Named, OthersAreDone, NEW c \in Conn, NEW d \in Conn, c # d,
           pc[c] \notin {"free", "done"}, pc[d] # "done"
    PROVE  who[c] # who[d]
BY DEF Named, OthersAreDone

LEMMA OthersKept ==
    ASSUME OthersAreDone, UNCHANGED who, \A c \in Conn : pc[c] = "done" => pc'[c] = "done"
    PROVE  OthersAreDone'
BY DEF OthersAreDone

\* Steps that tell nobody anything and neither begin nor end a handler's time
\* as a served, an announced or a leaving one.
LEMMA QuietTalk ==
    ASSUME Typed, Talk, UNCHANGED <<who, nodes, present>>,
           NEW c \in Conn, NEW p \in {"serve", "cast", "done"},
           pc' = pc \/ pc' = [pc EXCEPT ![c] = p],
           pc[c] \in {"hello", "serve", "cast"}, p # "done" => pc[c] \in Serving,
           \A d \in Conn \ {c} : todo'[d] = todo[d],
           \A d \in Conn : open'[d] => open[d]
    PROVE  Talk'
<1>1. \A d \in Conn \ {c} : pc'[d] = pc[d]
  BY DEF Typed
<1>2. pc'[c] \in {"hello", "serve", "cast", "done"} /\ (pc'[c] \in Serving => pc[c] \in Serving)
  BY DEF Typed, Serving
<1>3. Registered' = Registered
  BY DEF Registered
<1>4. OthersAreDone'
  BY OthersKept DEF Typed, Talk
<1>5. JoinsOthers'
  BY <1>1, <1>2 DEF Talk, JoinsOthers
<1>6. \A d \in Conn : pc'[d] \in Serving => pc[d] \in Serving
  BY <1>1, <1>2
<1>7. Told'
  BY <1>1, <1>2, <1>6 DEF Talk, Told
<1>8. \A e \in Conn : pc[e] = "leaving" => pc'[e] = "leaving" /\ todo'[e] = todo[e]
  BY <1>1
<1>9. Believed'
  BY <1>3, <1>6, <1>8 DEF Talk, Believed, FarewellDue
<1> QED BY <1>4, <1>5, <1>7, <1>9 DEF Talk

LEMMA ConnectTalk ==
    ASSUME IndInv, Talk, reconnect = "finished", NEW c \in Conn, NEW n \in Node, Connect(c, n)
    PROVE  Talk'
<1>1. /\ pc[c] = "free" /\ pc' = [pc EXCEPT ![c] = "hello"]
      /\ who' = [who EXCEPT ![c] = n]
      /\ open' = [open EXCEPT ![c] = TRUE]
      /\ UNCHANGED <<todo, nodes, present>>
      /\ \A d \in Conn : who[d] = n => pc[d] = "done"
  BY DEF Connect, tableVars, clientVars
<1>2. \A d \in Conn \ {c} : pc'[d] = pc[d] /\ who'[d] = who[d] /\ open'[d] = open[d]
  BY <1>1 DEF IndInv, Typed
<1>3. pc'[c] = "hello" /\ who'[c] = n
  BY <1>1 DEF IndInv, Typed
<1>4. OthersAreDone'
  BY <1>1, <1>2, <1>3 DEF Talk, OthersAreDone
<1>5. JoinsOthers'
  BY <1>1, <1>2, <1>3 DEF Talk, JoinsOthers
<1>6. Told'
  BY <1>1, <1>2, <1>3 DEF Talk, Told, Serving
<1>7. Registered' = Registered
  BY <1>1 DEF Registered
<1>8. \A e \in Conn : pc[e] = "leaving" => pc'[e] = "leaving" /\ who'[e] = who[e]
  BY <1>1, <1>2
<1>9. \A d \in Conn : pc'[d] \in Serving => pc[d] \in Serving /\ who'[d] = who[d] /\ open'[d] = open[d]
  BY <1>2, <1>3 DEF Serving
<1>10. Believed'
  <2> SUFFICES ASSUME NEW d \in Conn, NEW m \in Node, pc'[d] \in Serving, open'[d], who'[d] = m,
                      NEW x \in present'[d]
               PROVE  x # m /\ (x \in Registered' \/ FarewellDue(x, m)')
    BY DEF Believed
  <2>1. pc[d] \in Serving /\ open[d] /\ who[d] = m /\ x \in present[d]
    BY <1>1, <1>9
  <2>2. x # m /\ (x \in Registered \/ FarewellDue(x, m))
    BY <2>1 DEF Talk, Believed
  <2>3. FarewellDue(x, m) => FarewellDue(x, m)'
    BY <1>1, <1>8 DEF FarewellDue
  <2> QED BY <2>2, <2>3, <1>7
<1> QED BY <1>4, <1>5, <1>6, <1>10 DEF Talk

LEMMA RegisterTalk ==
    ASSUME IndInv, Talk, reconnect = "finished", NEW c \in Conn, Register(c)
    PROVE  Talk'
<1>1. /\ pc[c] = "hello" /\ pc' = [pc EXCEPT ![c] = "welcome"]
      /\ nodes' = [nodes EXCEPT ![who[c]] = c]
      /\ present' = [present EXCEPT ![c] = Registered \ {who[c]}]
      /\ UNCHANGED <<who, open, todo>>
  BY DEF Register
<1>2. pc'[c] = "welcome" /\ \A d \in Conn \ {c} : pc'[d] = pc[d] /\ present'[d] = present[d]
  BY <1>1 DEF IndInv, Typed
<1>3. present'[c] = Registered \ {who[c]}
  BY <1>1 DEF IndInv, Typed
<1>4. Registered \subseteq Registered'
  BY <1>1, ConnFacts DEF Registered, IndInv, Typed
<1>5. OthersAreDone'
  BY <1>1, <1>2, OthersKept DEF Talk
<1>6. JoinsOthers'
  BY <1>1, <1>2 DEF Talk, JoinsOthers
<1>7. Told'
  <2> SUFFICES ASSUME NEW e \in Conn, NEW d \in Conn, pc'[e] \in Serving, pc'[d] \in Serving,
                      open[d], who[e] # who[d]
               PROVE  \/ who[e] \in present'[d]
                      \/ pc'[e] = "welcome"
                      \/ pc'[e] = "joining" /\ who[d] \in todo[e]
    BY <1>1 DEF Told
  <2>1. CASE e = c
    BY <2>1, <1>2
  <2>2. CASE e # c /\ d = c
    <3>1. pc[e] \in Serving
      BY <2>2, <1>2
    <3> QED BY <3>1, <2>2, <1>3, ServedFacts
  <2>3. CASE e # c /\ d # c
    BY <2>3, <1>2 DEF Talk, Told
  <2> QED BY <2>1, <2>2, <2>3
<1>8. Believed'
  <2> SUFFICES ASSUME NEW d \in Conn, NEW m \in Node, pc'[d] \in Serving, open[d], who[d] = m,
                      NEW n \in present'[d]
               PROVE  n # m /\ (n \in Registered' \/ FarewellDue(n, m)')
    BY <1>1 DEF Believed
  <2>1. CASE d = c
    BY <2>1, <1>3, <1>4
  <2>2. CASE d # c
    <3>1. n \in present[d] /\ pc[d] \in Serving
      BY <2>2, <1>2
    <3>2. n # m /\ (n \in Registered \/ FarewellDue(n, m))
      BY <3>1 DEF Talk, Believed
    <3>3. \A e \in Conn : pc[e] = "leaving" => pc'[e] = "leaving"
      BY <1>1, <1>2
    <3>4. FarewellDue(n, m) => FarewellDue(n, m)'
      BY <3>3, <1>1 DEF FarewellDue
    <3> QED BY <3>2, <3>4, <1>4
  <2> QED BY <2>1, <2>2
<1> QED BY <1>5, <1>6, <1>7, <1>8 DEF Talk

\* A handler drops its node's registration and is about to say so to all who
\* are registered: what RejectKey and Cleanup do to the talk.
LEMMA DropTalk ==
    ASSUME IndInv, Talk, reconnect = "finished", NEW c \in Conn, NEW p \in Gone,
           pc[c] \in {"hello", "welcome", "serve"}, pc' = [pc EXCEPT ![c] = p],
           nodes' = [nodes EXCEPT ![who[c]] = NoConn],
           todo' = [todo EXCEPT ![c] = Registered \ {who[c]}],
           p = "done" => Registered \ {who[c]} = {},
           UNCHANGED <<who, open, present>>
    PROVE  Talk'
<1>1. who[c] \in Node /\ \A d \in Conn \ {c} : pc'[d] = pc[d] /\ todo'[d] = todo[d]
  BY DEF IndInv, Named, Typed
<1>2. pc'[c] = p /\ todo'[c] = Registered \ {who[c]}
  BY DEF IndInv, Typed
<1>3. \A d \in Conn : pc'[d] \in Serving => pc[d] \in Serving /\ d # c
  BY <1>1, <1>2 DEF Gone, Serving
<1>4. \A n \in Registered : n # who[c] => n \in Registered'
  BY <1>1 DEF Registered, IndInv, Typed
<1>5. OthersAreDone'
  BY <1>1, <1>2, OthersKept DEF Talk
<1>6. JoinsOthers'
  BY <1>1, <1>2 DEF Talk, JoinsOthers, Gone
<1>7. Told'
  BY <1>1, <1>3 DEF Talk, Told
<1>8. Believed'
  <2> SUFFICES ASSUME NEW d \in Conn, NEW m \in Node, pc'[d] \in Serving, open[d], who[d] = m,
                      NEW n \in present[d]
               PROVE  n # m /\ (n \in Registered' \/ FarewellDue(n, m)')
    BY DEF Believed
  <2>1. pc[d] \in Serving /\ d # c
    BY <1>3
  <2>2. n # m /\ (n \in Registered \/ FarewellDue(n, m))
    BY <2>1 DEF Talk, Believed
  <2>3. who[c] # m
    <3>1. pc[c] \notin {"free", "done"} /\ pc[d] # "done"
      BY <2>1 DEF Serving
    <3> QED BY <2>1, <3>1, Differ DEF IndInv, Talk
  <2>4. CASE n = who[c]
    <3>1. m \in Registered
      BY <2>1, ServedFacts
    <3>2. p # "done" /\ m \in todo'[c]
      BY <1>2, <2>3, <3>1
    <3>3. pc'[c] = "leaving" /\ who'[c] = n
      BY <1>2, <2>4, <3>2 DEF Gone
    <3> QED BY <2>2, <3>2, <3>3 DEF FarewellDue
  <2>5. CASE n # who[c]
    <3>1. n \in Registered => n \in Registered'
      BY <1>4, <2>5
    <3>2. FarewellDue(n, m) => FarewellDue(n, m)'
      BY <1>1, <2>5 DEF FarewellDue
    <3> QED BY <2>2, <3>1, <3>2
  <2> QED BY <2>4, <2>5
<1> QED BY <1>5, <1>6, <1>7, <1>8 DEF Talk

LEMMA JoinBeginTalk ==
    ASSUME IndInv, Talk, reconnect = "finished", NEW c \in Conn, JoinBegin(c)
    PROVE  Talk'
<1> DEFINE p == IF Registered \ {who[c]} = {} THEN "serve" ELSE "joining"
<1>1. /\ pc[c] = "welcome" /\ pc' = [pc EXCEPT ![c] = p]
      /\ todo' = [todo EXCEPT ![c] = Registered \ {who[c]}]
      /\ UNCHANGED <<who, open, nodes, present>>
  BY DEF JoinBegin, tableVars, clientVars
<1>2. pc'[c] = p /\ todo'[c] = Registered \ {who[c]}
  BY <1>1 DEF IndInv, Typed
<1>3. \A d \in Conn \ {c} : pc'[d] = pc[d] /\ todo'[d] = todo[d]
  BY <1>1 DEF IndInv, Typed
<1>4. p \in Serving
  BY DEF Serving
<1>5. \A d \in Conn : pc'[d] \in Serving => pc[d] \in Serving
  BY <1>1, <1>3 DEF Serving
<1>6. OthersAreDone'
  BY <1>1, <1>3, OthersKept DEF Talk
<1>7. JoinsOthers'
  BY <1>1, <1>2, <1>3 DEF Talk, JoinsOthers
<1>8. Told'
  <2> SUFFICES ASSUME NEW e \in Conn, NEW d \in Conn, pc'[e] \in Serving, pc'[d] \in Serving,
                      open[d], who[e] # who[d]
               PROVE  \/ who[e] \in present[d]
                      \/ pc'[e] = "welcome"
                      \/ pc'[e] = "joining" /\ who[d] \in todo'[e]
    BY <1>1 DEF Told
  <2>1. CASE e = c
    <3>1. who[d] \in Registered
      BY <1>5, ServedFacts
    <3>2. who[d] \in todo'[c] /\ p = "joining"
      BY <2>1, <1>2, <3>1
    <3> QED BY <3>2, <2>1, <1>2
  <2>2. CASE e # c
    BY <2>2, <1>3, <1>5 DEF Talk, Told
  <2> QED BY <2>1, <2>2
<1>9. Believed'
  <2>1. Registered' = Registered
    BY <1>1 DEF Registered
  <2>2. \A e \in Conn : pc[e] = "leaving" => pc'[e] = "leaving" /\ todo'[e] = todo[e]
    BY <1>1, <1>3
  <2>3. ASSUME NEW n, NEW m, FarewellDue(n, m) PROVE FarewellDue(n, m)'
    BY <2>2, <2>3, <1>1 DEF FarewellDue
  <2> QED BY <1>1, <1>5, <2>1, <2>3 DEF Talk, Believed
<1> QED BY <1>6, <1>7, <1>8, <1>9 DEF Talk

LEMMA JoinTellTalk ==
    ASSUME IndInv, Talk, reconnect = "finished", NEW c \in Conn, NEW m \in Node, JoinTell(c, m)
    PROVE  Talk'
<1>1. /\ pc[c] = "joining" /\ m \in todo[c]
      /\ todo' = [todo EXCEPT ![c] = @ \ {m}]
      /\ pc' = IF todo[c] = {m} THEN [pc EXCEPT ![c] = "serve"] ELSE pc
      /\ present' = [d \in Conn |-> IF Receives(m, d) THEN present[d] \cup {who[c]} ELSE present[d]]
      /\ UNCHANGED <<who, open, nodes>>
  BY DEF JoinTell, tableVars, SendOne
<1>2. \A d \in Conn \ {c} : pc'[d] = pc[d] /\ todo'[d] = todo[d]
  BY <1>1 DEF IndInv, Typed
<1>3. todo'[c] = todo[c] \ {m} /\ pc'[c] = (IF todo[c] = {m} THEN "serve" ELSE "joining")
  BY <1>1 DEF IndInv, Typed
<1>4. \A d \in Conn : pc'[d] \in Serving => pc[d] \in Serving
  BY <1>1, <1>2, <1>3 DEF Serving
<1>5. OthersAreDone'
  BY <1>1, <1>2, <1>3, OthersKept DEF Talk
<1>6. JoinsOthers'
  BY <1>1, <1>2, <1>3 DEF Talk, JoinsOthers
<1>7. Told'
  <2> SUFFICES ASSUME NEW e \in Conn, NEW d \in Conn, pc'[e] \in Serving, pc'[d] \in Serving,
                      open[d], who[e] # who[d]
               PROVE  \/ who[e] \in present'[d]
                      \/ pc'[e] = "welcome"
                      \/ pc'[e] = "joining" /\ who[d] \in todo'[e]
    BY <1>1 DEF Told
  <2>1. \/ who[e] \in present[d]
        \/ pc[e] = "welcome"
        \/ pc[e] = "joining" /\ who[d] \in todo[e]
    BY <1>4 DEF Talk, Told
  <2>2. present[d] \subseteq present'[d]
    BY <1>1
  <2>3. CASE e # c
    BY <2>1, <2>2, <2>3, <1>2
  <2>4. CASE e = c /\ who[d] = m
    <3>1. nodes[m] = d
      BY <2>4, <1>4, ServedFacts
    <3>2. Receives(m, d)
      BY <3>1 DEF Receives
    <3> QED BY <3>2, <2>4, <1>1
  <2>5. CASE e = c /\ who[d] # m
    <3>1. who[d] \in todo[c] => who[d] \in todo'[c] /\ pc'[c] = "joining"
      BY <2>5, <1>3
    <3> QED BY <3>1, <2>1, <2>2, <2>5, <1>1
  <2> QED BY <2>3, <2>4, <2>5
<1>8. Believed'
  <2> SUFFICES ASSUME NEW d \in Conn, NEW x \in Node, pc'[d] \in Serving, open[d], who[d] = x,
                      NEW n \in present'[d]
               PROVE  n # x /\ (n \in Registered' \/ FarewellDue(n, x)')
    BY <1>1 DEF Believed
  <2>1. Registered' = Registered
    BY <1>1 DEF Registered
  <2>2. \A e \in Conn : pc[e] = "leaving" => pc'[e] = "leaving" /\ todo'[e] = todo[e]
    BY <1>1, <1>2
  <2>3. FarewellDue(n, x) => FarewellDue(n, x)'
    BY <2>2, <1>1 DEF FarewellDue
  <2>4. CASE n \in present[d]
    BY <2>1, <2>3, <2>4, <1>4 DEF Talk, Believed
  <2>5. CASE n \notin present[d]
    <3>1. n = who[c] /\ Receives(m, d)
      BY <2>5, <1>1
    <3>2. x = m
      BY <3>1, ReceiverFacts
    <3>3. n # x
      BY <3>1, <3>2, <1>1 DEF Talk, JoinsOthers
    <3>4. n \in Registered
      BY <3>1, <1>1, ServedFacts DEF Serving
    <3> QED BY <3>3, <3>4, <2>1
  <2> QED BY <2>4, <2>5
<1> QED BY <1>5, <1>6, <1>7, <1>8 DEF Talk

LEMMA LeaveTellTalk ==
    ASSUME IndInv, Talk, reconnect = "finished", NEW c \in Conn, NEW m \in Node, LeaveTell(c, m)
    PROVE  Talk'
<1>1. /\ pc[c] = "leaving" /\ m \in todo[c]
      /\ todo' = [todo EXCEPT ![c] = @ \ {m}]
      /\ pc' = IF todo[c] = {m} THEN [pc EXCEPT ![c] = "done"] ELSE pc
      /\ present' = [d \in Conn |-> IF Receives(m, d) THEN present[d] \ {who[c]} ELSE present[d]]
      /\ UNCHANGED <<who, open, nodes>>
  BY DEF LeaveTell, tableVars, SendOne
<1>2. \A d \in Conn \ {c} : pc'[d] = pc[d] /\ todo'[d] = todo[d]
  BY <1>1 DEF IndInv, Typed
<1>3. todo'[c] = todo[c] \ {m} /\ pc'[c] = (IF todo[c] = {m} THEN "done" ELSE "leaving")
  BY <1>1 DEF IndInv, Typed
<1>4. \A d \in Conn : pc'[d] \in Serving => pc[d] \in Serving /\ d # c
  BY <1>1, <1>2, <1>3 DEF Serving
<1>5. OthersAreDone'
  BY <1>1, <1>2, <1>3, OthersKept DEF Talk
<1>6. JoinsOthers'
  BY <1>1, <1>2, <1>3 DEF Talk, JoinsOthers
<1>7. Told'
  <2> SUFFICES ASSUME NEW e \in Conn, NEW d \in Conn, pc'[e] \in Serving, pc'[d] \in Serving,
                      open[d], who[e] # who[d]
               PROVE  \/ who[e] \in present'[d]
                      \/ pc'[e] = "welcome"
                      \/ pc'[e] = "joining" /\ who[d] \in todo'[e]
    BY <1>1 DEF Told
  <2>1. \/ who[e] \in present[d]
        \/ pc[e] = "welcome"
        \/ pc[e] = "joining" /\ who[d] \in todo[e]
    BY <1>4 DEF Talk, Told
  <2>2. who[e] # who[c]
    <3>1. e # c /\ pc[e] # "done" /\ pc[c] \notin {"free", "done"}
      BY <1>1, <1>4 DEF Serving
    <3> QED BY <3>1, Differ DEF IndInv, Talk
  <2> QED BY <2>1, <2>2, <1>1, <1>2, <1>4
<1>8. Believed'
  <2> SUFFICES ASSUME NEW d \in Conn, NEW x \in Node, pc'[d] \in Serving, open[d], who[d] = x,
                      NEW n \in present'[d]
               PROVE  n # x /\ (n \in Registered' \/ FarewellDue(n, x)')
    BY <1>1 DEF Believed
  <2>1. Registered' = Registered
    BY <1>1 DEF Registered
  <2>2. pc[d] \in Serving /\ n \in present[d]
    BY <1>1, <1>4
  <2>3. n # x /\ (n \in Registered \/ FarewellDue(n, x))
    BY <2>2 DEF Talk, Believed
  <2>4. ASSUME FarewellDue(n, x) PROVE FarewellDue(n, x)'
    <3>1. PICK e \in Conn : who[e] = n /\ pc[e] = "leaving" /\ x \in todo[e]
      BY <2>4 DEF FarewellDue
    <3>2. CASE e # c
      BY <3>1, <3>2, <1>1, <1>2 DEF FarewellDue
    <3>3. CASE e = c
      <4>1. nodes[x] = d
        BY <2>2, ServedFacts
      <4>2. x # m
        BY <4>1, <3>1, <3>3, <1>1 DEF Receives
      <4>3. x \in todo'[c] /\ pc'[c] = "leaving"
        BY <4>2, <3>1, <3>3, <1>3
      <4> QED BY <4>3, <3>1, <3>3, <1>1 DEF FarewellDue
    <3> QED BY <3>2, <3>3
  <2> QED BY <2>1, <2>3, <2>4
<1> QED BY <1>5, <1>6, <1>7, <1>8 DEF Talk

\* A node that is being served sends to nobody who has not been told of it.
LEMMA NoStrays ==
    ASSUME IndInv, Talk, reconnect = "finished", NEW c \in Conn, NEW m \in Node,
           pc[c] \in {"serve", "cast"}, Deliver(c, m)
    PROVE  strays' = strays
<1> SUFFICES ASSUME NEW d \in Conn, Receives(m, d), who[d] # who[c]
             PROVE  who[c] \in present[d]
  BY DEF Deliver
<1>1. pc[d] \in Serving /\ open[d]
  BY ReceiverFacts
<1>2. pc[c] \in Serving /\ pc[c] \notin {"welcome", "joining"}
  BY DEF Serving
<1> QED BY <1>1, <1>2 DEF Talk, Told

-----------------------------------------------------------------------------

LEMMA InitInformed == Init => Informed
BY DEF Init, Informed, Talk, OthersAreDone, JoinsOthers, Told, Believed, Serving

LEMMA NextInformed == IndInv /\ Informed /\ [Next]_vars => Informed'
<1> SUFFICES ASSUME IndInv, Informed, [Next]_vars, reconnect' = "finished"
             PROVE  Talk' /\ strays' = {}
  BY DEF Informed
<1>0. reconnect = "finished" /\ Talk /\ strays = {}
  <2>1. reconnect' = reconnect
    BY DEF Next, vars, Connect, Break, GiveUp, Register, RejectKey, Unregister, JoinBegin, JoinTell,
           Forward, CastBegin, CastOne, Cleanup, LeaveTell
  <2> QED BY <2>1 DEF Informed
<1>1. ASSUME NEW c \in Conn, NEW n \in Node, Connect(c, n) PROVE Talk' /\ strays' = {}
  BY <1>0, <1>1, ConnectTalk DEF Connect, tableVars, clientVars
<1>2. ASSUME NEW c \in Conn, Break(c) PROVE Talk' /\ strays' = {}
  <2>1. UNCHANGED <<pc, who, todo, nodes, present, strays>> /\ open' = [open EXCEPT ![c] = FALSE]
    BY <1>2 DEF Break, tableVars, handlerVars, clientVars
  <2>2. \A d \in Conn : open'[d] => open[d]
    BY <2>1 DEF IndInv, Typed
  <2>3. Registered' = Registered
    BY <2>1 DEF Registered
  <2> QED BY <1>0, <2>1, <2>2, <2>3
      DEF Talk, OthersAreDone, JoinsOthers, Told, Believed, FarewellDue
<1>3. ASSUME NEW c \in Conn, GiveUp(c) PROVE Talk' /\ strays' = {}
  <2>1. /\ pc[c] = "hello" /\ pc' = [pc EXCEPT ![c] = "done"]
        /\ open' = [open EXCEPT ![c] = FALSE]
        /\ UNCHANGED <<who, todo, nodes, present, strays>>
    BY <1>3 DEF GiveUp, tableVars, clientVars
  <2>2. \A d \in Conn : open'[d] => open[d]
    BY <2>1 DEF IndInv, Typed
  <2>3. Talk'
    BY <1>0, <2>1, <2>2, QuietTalk DEF IndInv
  <2> QED BY <1>0, <2>1, <2>3
<1>4. ASSUME NEW c \in Conn, Register(c) PROVE Talk' /\ strays' = {}
  BY <1>0, <1>4, RegisterTalk DEF Register
<1>5. ASSUME NEW c \in Conn, RejectKey(c) PROVE Talk' /\ strays' = {}
  <2> DEFINE p == IF Registered \ {who[c]} = {} THEN "done" ELSE "leaving"
  <2>1. /\ pc[c] \in {"hello", "welcome", "serve"} /\ pc' = [pc EXCEPT ![c] = p]
        /\ nodes' = [nodes EXCEPT ![who[c]] = NoConn]
        /\ todo' = [todo EXCEPT ![c] = Registered \ {who[c]}]
        /\ UNCHANGED <<who, open, present, strays>>
    BY <1>5 DEF RejectKey, Unregister, clientVars
  <2>2. p \in Gone /\ (p = "done" => Registered \ {who[c]} = {})
    BY DEF Gone
  <2> HIDE DEF p
  <2>3. Talk'
    BY <1>0, <2>1, <2>2, DropTalk
  <2> QED BY <1>0, <2>1, <2>3
<1>6. ASSUME NEW c \in Conn, JoinBegin(c) PROVE Talk' /\ strays' = {}
  BY <1>0, <1>6, JoinBeginTalk DEF JoinBegin, tableVars, clientVars
<1>7. ASSUME NEW c \in Conn, NEW m \in Node, JoinTell(c, m) PROVE Talk' /\ strays' = {}
  BY <1>0, <1>7, JoinTellTalk DEF JoinTell, tableVars
<1>8. ASSUME NEW c \in Conn, NEW m \in Node, Forward(c, m) PROVE Talk' /\ strays' = {}
  <2>1. pc[c] \in {"serve", "cast"} /\ UNCHANGED <<pc, who, open, todo, nodes, present>>
        /\ Deliver(c, m)
    BY <1>8 DEF Forward, tableVars, handlerVars
  <2>2. Talk'
    BY <1>0, <2>1 DEF Talk, OthersAreDone, JoinsOthers, Told, Believed, FarewellDue, Registered
  <2> QED BY <1>0, <2>1, <2>2, NoStrays
<1>9. ASSUME NEW c \in Conn, CastBegin(c) PROVE Talk' /\ strays' = {}
  <2>1. /\ pc[c] = "serve" /\ pc' = [pc EXCEPT ![c] = "cast"]
        /\ todo' = [todo EXCEPT ![c] = Registered \ {who[c]}]
        /\ UNCHANGED <<who, open, nodes, present, strays>>
    BY <1>9 DEF CastBegin, tableVars, clientVars
  <2>2. \A d \in Conn \ {c} : todo'[d] = todo[d]
    BY <2>1 DEF IndInv, Typed
  <2>3. Talk'
    BY <1>0, <2>1, <2>2, QuietTalk DEF IndInv, Serving
  <2> QED BY <1>0, <2>1, <2>3
<1>10. ASSUME NEW c \in Conn, NEW m \in Node, CastOne(c, m) PROVE Talk' /\ strays' = {}
  <2>1. /\ pc[c] = "cast" /\ (pc' = pc \/ pc' = [pc EXCEPT ![c] = "serve"])
        /\ todo' = [todo EXCEPT ![c] = @ \ {m}]
        /\ UNCHANGED <<who, open, nodes, present>>
        /\ Deliver(c, m)
    BY <1>10 DEF CastOne, tableVars, SendOne
  <2>2. \A d \in Conn \ {c} : todo'[d] = todo[d]
    BY <2>1 DEF IndInv, Typed
  <2>3. Talk'
    BY <1>0, <2>1, <2>2, QuietTalk DEF IndInv, Serving
  <2>4. pc[c] \in {"serve", "cast"}
    BY <2>1
  <2> QED BY <1>0, <2>1, <2>3, <2>4, NoStrays
<1>11. ASSUME NEW c \in Conn, Cleanup(c) PROVE Talk' /\ strays' = {}
  <2> DEFINE p == IF Registered \ {who[c]} = {} THEN "done" ELSE "leaving"
  <2>1. /\ pc[c] \in {"hello", "welcome", "serve"} /\ pc' = [pc EXCEPT ![c] = p]
        /\ nodes' = [nodes EXCEPT ![who[c]] = NoConn]
        /\ todo' = [todo EXCEPT ![c] = Registered \ {who[c]}]
        /\ UNCHANGED <<who, open, present, strays>>
    BY <1>11 DEF Cleanup, Unregister, clientVars
  <2>2. p \in Gone /\ (p = "done" => Registered \ {who[c]} = {})
    BY DEF Gone
  <2> HIDE DEF p
  <2>3. Talk'
    BY <1>0, <2>1, <2>2, DropTalk
  <2> QED BY <1>0, <2>1, <2>3
<1>12. ASSUME NEW c \in Conn, NEW m \in Node, LeaveTell(c, m) PROVE Talk' /\ strays' = {}
  BY <1>0, <1>12, LeaveTellTalk DEF LeaveTell, tableVars
<1>13. CASE UNCHANGED vars
  BY <1>0, <1>13
     DEF vars, Talk, OthersAreDone, JoinsOthers, Told, Believed, FarewellDue, Registered
<1> QED BY <1>1, <1>2, <1>3, <1>4, <1>5, <1>6, <1>7, <1>8, <1>9, <1>10, <1>11, <1>12,
           <1>13 DEF Next

\* When every reconnection waits for the old handler to finish, no client gets a
\* packet of a node it was not told of: the joiner is announced to everybody
\* before its own loop starts, and unannounced before it is forgotten
\* (relay_server.py:117-131, 139-145).
THEOREM PeersAreAnnounced == Spec => []ToldBeforeHeard
<1>1. Informed => ToldBeforeHeard
  BY DEF Informed, ToldBeforeHeard
<1> QED BY <1>1, InitInformed, NextInformed, Invariance, PTL DEF Spec

\* Under the same condition, once no handler is in the middle of anything every
\* client believes in exactly the nodes registered beside it: the announcements
\* and farewells of any number of handlers, interleaved frame by frame, add up.
THEOREM PresenceIsTrue == Spec => []PresenceSettles
<1>1. IndInv /\ Informed => PresenceSettles
  <2> SUFFICES ASSUME IndInv, Talk, reconnect = "finished",
                      \A c \in Conn : pc[c] \in {"free", "serve", "done"},
                      NEW c \in Conn, pc[c] = "serve", open[c]
               PROVE  present[c] = Registered \ {who[c]}
    BY DEF Informed, PresenceSettles
  <2>1. pc[c] \in Serving /\ who[c] \in Node
    BY ServedFacts DEF Serving
  <2>2. ASSUME NEW n \in present[c] PROVE n \in Registered /\ n # who[c]
    <3>1. n # who[c] /\ (n \in Registered \/ FarewellDue(n, who[c]))
      BY <2>1 DEF Talk, Believed
    <3>2. ~ FarewellDue(n, who[c])
      BY DEF FarewellDue
    <3> QED BY <3>1, <3>2
  <2>3. ASSUME NEW n \in Registered, n # who[c] PROVE n \in present[c]
    <3>1. nodes[n] \in Conn /\ pc[nodes[n]] \in Serving /\ who[nodes[n]] = n
      BY DEF Registered, IndInv, Typed, RegisteredIsServing
    <3>2. pc[nodes[n]] \notin {"welcome", "joining"}
      BY <3>1
    <3> QED BY <2>1, <2>3, <3>1, <3>2 DEF Talk, Told
  <2> QED BY <2>2, <2>3
<1> QED BY <1>1, InitInformed, NextInformed, Invariance, PTL DEF Spec
=============================================================================
