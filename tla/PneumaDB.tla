------------------------------- MODULE PneumaDB -------------------------------
(***************************************************************************)
(* The distributed interface of pneuma_db/db.py (class PNEUMA_DB): threads *)
(* of the application call put, get, delete and cas on their node, which   *)
(* serves the call from its own store or sends one request to the key's    *)
(* owner and waits for the answer.  A node's event loop handles one packet *)
(* of the relay at a time.  LocalStore says why one call of the store is a *)
(* step, and RelayServer what becomes of packets; here they may be lost    *)
(* and overtake one another.  Times to live and statements that fail are   *)
(* left to LocalStore.                                                     *)
(*                                                                         *)
(* Sessions: on PEER_JOINED a node makes a key of its own.  The KEM_INIT   *)
(* it sends is no DB packet (it is not encrypted), so the peer never       *)
(* learns that key.  Two nodes can read one another when the application   *)
(* has given both the same key, as tests/test_all.py:36-37 does.           *)
(***************************************************************************)
EXTENDS Integers, FiniteSets

CONSTANTS
    Node,
    Thread,         \* application threads
    At,             \* the node each thread calls
    Key,
    Value,
    Place,          \* per key, how far along the ring each node is (HashRing)
    Replication,    \* nodes that hold a key
    MaxCalls,       \* bound: calls made
    Nil,            \* None
    Yes, No,        \* True and False
    Idle            \* no call in progress

ASSUME DBConstants ==
    /\ IsFiniteSet(Node) /\ Node # {}
    /\ At \in [Thread -> Node]
    /\ Place \in [Key -> [Node -> Nat]]
    /\ \A k \in Key : \A m, n \in Node : Place[k][m] = Place[k][n] => m = n
    /\ Replication \in Nat \ {0}
    /\ MaxCalls \in Nat
    /\ {Nil, Yes, No} \cap Value = {} /\ Cardinality({Nil, Yes, No}) = 3

Opt == Value \cup {Nil}

\* A request's id: the call it is made for and the node it goes to.
ReqId == (1..MaxCalls) \X Node

Body == [op : {"PUT", "GET", "DELETE", "CAS"}, key : Key, value : Opt, expected : Opt]

Outcome == Value \cup {Nil, Yes, No}

\* What the history fate holds of a request that was not carried out.
ASSUME FateMarks == {"unsent", "sent"} \cap Outcome = {}

SessionKey == {"agreed", "own"}

Request == [kind : {"request"}, id : ReqId, src : Node, dst : Node, body : Body,
            under : SessionKey]
Answer == [kind : {"answer"}, id : ReqId, src : Node, dst : Node, result : Outcome,
           under : SessionKey]

\* A call after its first step.  "replicate": its put is stored, the replicas are
\* to be found; "send": the coroutine that sends to "to" is scheduled; "wait":
\* it has sent.  "rest" are the replicas to come; copying is FALSE for a call
\* routed to the owner.
Call == [number : 1..MaxCalls, body : Body, step : {"replicate", "send", "wait"},
         to : Node, rest : SUBSET Node, copying : BOOLEAN]

ASSUME IdleIsNoCall == Idle \notin Call

VARIABLES
    store,      \* per node: its LocalStore
    known,      \* per node: the members of its ring
    session,    \* per node and peer: "none", "own" or "agreed"
    online,     \* per node: RelayClient._connected
    net,        \* packets between send_queue and on_packet
    pending,    \* per node: the requests with a future in _pending
    call,       \* per thread
    made,       \* calls made so far
    mode,       \* "reliable" or "lossy" network (rigid)
    fate,       \* history: per request, "unsent", "sent", or how it was carried out
    got,        \* history: per thread, what its last request came back with
    swaps,      \* history: per key, the cas calls expecting Nil that returned True,
                \* each with the node whose store made the swap
    erased,     \* history: keys delete was called on
    untidy      \* history: keys not only written at the owner, one call at a time

nodeVars == <<known, session, online>>
history == <<fate, got, swaps, erased, untidy>>
vars == <<store, nodeVars, net, pending, call, made, mode, history>>

TypeOK ==
    /\ store \in [Node -> [Key -> Opt]]
    /\ known \in [Node -> SUBSET Node] /\ \A n \in Node : n \in known[n]
    /\ session \in [Node -> [Node -> SessionKey \cup {"none"}]]
    /\ online \in [Node -> BOOLEAN]
    /\ net \subseteq Request \cup Answer
    /\ pending \in [Node -> SUBSET ReqId]
    /\ call \in [Thread -> Call \cup {Idle}]
    /\ made \in 0..MaxCalls
    /\ mode \in {"reliable", "lossy"}
    /\ fate \in [ReqId -> Outcome \cup {"unsent", "sent"}]
    /\ got \in [Thread -> [id : ReqId, result : Outcome] \cup {Idle}]
    /\ swaps \in [Key -> SUBSET ReqId]
    /\ erased \subseteq Key /\ untidy \subseteq Key

\* A node is given its peers when it is made, or learns of them from the relay.
Init ==
    /\ store = [n \in Node |-> [k \in Key |-> Nil]]
    /\ mode \in {"reliable", "lossy"}
    /\ \/ known = [n \in Node |-> Node]
       \/ known = [n \in Node |-> {n}] /\ mode = "lossy"
    /\ \/ session = [n \in Node |-> [p \in Node |-> "agreed"]]
       \/ session = [n \in Node |-> [p \in Node |-> "none"]] /\ mode = "lossy"
    /\ online = [n \in Node |-> TRUE]
    /\ net = {}
    /\ pending = [n \in Node |-> {}]
    /\ call = [t \in Thread |-> Idle]
    /\ made = 0
    /\ fate = [i \in ReqId |-> "unsent"]
    /\ got = [t \in Thread |-> Idle]
    /\ swaps = [k \in Key |-> {}]
    /\ erased = {} /\ untidy = {}

-----------------------------------------------------------------------------
(* Routing *)

Nearest(S, k) == CHOOSE m \in S : \A p \in S : Place[k][m] <= Place[k][p]

OwnerOf(n, k) == Nearest(known[n], k)

\* The owner in a ring of all nodes.
Home(k) == Nearest(Node, k)

ReplicasOf(n, k) ==
    {m \in known[n] : Cardinality({p \in known[n] : Place[k][p] < Place[k][m]}) < Replication}

-----------------------------------------------------------------------------
(* The store and the calls *)

SetLocal(n, k, v) == store' = [store EXCEPT ![n][k] = v]

Continue(t, c) == call' = [call EXCEPT ![t] = c]

MayCall(t) == call[t] = Idle /\ made < MaxCalls

NewCall(body, step, to) ==
    [number |-> made + 1, body |-> body, step |-> step, to |-> to, rest |-> {},
     copying |-> step = "replicate"]

\* _send_relay_sync, as far as the scheduling of the coroutine.
RouteTo(t, m, body) == Continue(t, NewCall(body, "send", m)) /\ UNCHANGED store

\* "_replicate(replica_id, ...)" for the next replica, or the end of the loop.
NextReplica(t, c, left) ==
    Continue(t, IF left = {} THEN Idle
                ELSE LET m == Nearest(left, c.body.key)
                     IN  [c EXCEPT !.step = "send", !.to = m, !.rest = left \ {m},
                                   !.copying = TRUE])

\* A mutant of Swaps: None as the expected value means any.
SwapsMutant(n, body) == body.expected \in {Nil, store[n][body.key]}

\* How the store carries out a request, and what it returns.
Swaps(n, body) == store[n][body.key] = body.expected

CarryOut(n, body) ==
    \/ body.op = "PUT" /\ SetLocal(n, body.key, body.value)
    \/ body.op = "GET" /\ UNCHANGED store
    \/ body.op = "DELETE" /\ SetLocal(n, body.key, Nil)
    \/ body.op = "CAS" /\ Swaps(n, body) /\ SetLocal(n, body.key, body.value)
    \/ body.op = "CAS" /\ ~ Swaps(n, body) /\ UNCHANGED store

ResultOf(n, body) ==
    CASE body.op = "GET" -> store[n][body.key]
      [] body.op = "CAS" /\ ~ Swaps(n, body) -> No
      [] OTHER -> Yes

\* A cas that expects no value returns True: its number, and the node that swapped.
Swapped(body, id) ==
    swaps' = [swaps EXCEPT ![body.key] = IF body.expected = Nil THEN @ \cup {id} ELSE @]

\* A put or delete at the owner while nobody else works on the key keeps it tidy.
Untidy(t, k, atOwner) ==
    untidy' = IF atOwner /\ \A u \in Thread : call[u] # Idle => call[u].body.key # k
              THEN untidy ELSE untidy \cup {k}

-----------------------------------------------------------------------------
(* put, get, delete and cas, as far as their first request *)

PutStart(t, k, v) ==
    LET n == At[t]
        owner == OwnerOf(n, k)
        body == [op |-> "PUT", key |-> k, value |-> v, expected |-> Nil]
    IN  /\ MayCall(t)
        /\ made' = made + 1
        /\ \/ owner = n /\ SetLocal(n, k, v) /\ Continue(t, NewCall(body, "replicate", n))
           \/ owner # n /\ online[n] /\ RouteTo(t, owner, body)
           \/ owner # n /\ ~ online[n] /\ SetLocal(n, k, v) /\ UNCHANGED call
        /\ Untidy(t, k, owner = n)
        /\ UNCHANGED <<nodeVars, net, pending, mode, fate, got, swaps, erased>>

GetStart(t, k) ==
    LET n == At[t]
        owner == OwnerOf(n, k)
        body == [op |-> "GET", key |-> k, value |-> Nil, expected |-> Nil]
    IN  /\ MayCall(t)
        /\ made' = made + 1
        /\ \/ /\ store[n][k] # Nil \/ owner = n \/ ~ online[n]
              /\ UNCHANGED <<store, call>>
           \/ /\ store[n][k] = Nil /\ owner # n /\ online[n]
              /\ RouteTo(t, owner, body)
        /\ UNCHANGED <<nodeVars, net, pending, mode, history>>

DeleteStart(t, k) ==
    LET n == At[t]
        owner == OwnerOf(n, k)
        body == [op |-> "DELETE", key |-> k, value |-> Nil, expected |-> Nil]
    IN  /\ MayCall(t)
        /\ made' = made + 1
        /\ SetLocal(n, k, Nil)
        /\ IF owner # n /\ online[n] THEN Continue(t, NewCall(body, "send", owner))
           ELSE UNCHANGED call
        /\ erased' = erased \cup {k}
        /\ Untidy(t, k, owner = n)
        /\ UNCHANGED <<nodeVars, net, pending, mode, fate, got, swaps>>

CasStart(t, k, old, new) ==
    LET n == At[t]
        owner == OwnerOf(n, k)
        body == [op |-> "CAS", key |-> k, value |-> new, expected |-> old]
    IN  /\ MayCall(t)
        /\ made' = made + 1
        /\ \/ /\ owner = n \/ ~ online[n]
              /\ CarryOut(n, body) /\ UNCHANGED call
              /\ IF Swaps(n, body) THEN Swapped(body, <<made + 1, n>>) ELSE UNCHANGED swaps
           \/ /\ owner # n /\ online[n]
              /\ RouteTo(t, owner, body)
              /\ UNCHANGED swaps
        /\ Untidy(t, k, FALSE)
        /\ UNCHANGED <<nodeVars, net, pending, mode, fate, got, erased>>

-----------------------------------------------------------------------------
(* Requests and answers *)

\* A mutant of Replicate: one replica too few.
ReplicateMutant(t) ==
    /\ call[t] # Idle /\ call[t].step = "replicate"
    /\ LET n == At[t]
           others == ReplicasOf(n, call[t].body.key) \ {n}
       IN  NextReplica(t, call[t], IF others = {} THEN {}
                                   ELSE others \ {Nearest(others, call[t].body.key)})
    /\ UNCHANGED <<store, nodeVars, net, pending, made, mode, history>>

Replicate(t) ==
    /\ call[t] # Idle /\ call[t].step = "replicate"
    /\ LET n == At[t]
       IN  NextReplica(t, call[t], ReplicasOf(n, call[t].body.key) \ {n})
    /\ UNCHANGED <<store, nodeVars, net, pending, made, mode, history>>

\* The exception reaches the caller of a routed call; replication swallows it.
GiveUp(t) ==
    IF call[t].copying THEN NextReplica(t, call[t], call[t].rest) ELSE Continue(t, Idle)

\* _send_and_wait up to its await.  Without a session, or if the client went
\* offline after _send_relay_sync looked, it raises with the future registered;
\* if _send_relay_sync already saw it offline, without.
Send(t) ==
    /\ call[t] # Idle /\ call[t].step = "send"
    /\ LET n == At[t]
           m == call[t].to
           id == <<call[t].number, m>>
           register == pending' = [pending EXCEPT ![n] = @ \cup {id}]
           request == [kind |-> "request", id |-> id, src |-> n, dst |-> m,
                       body |-> call[t].body, under |-> session[n][m]]
       IN  \/ /\ session[n][m] # "none" /\ online[n]
              /\ register
              /\ net' = net \cup {request}
              /\ fate' = [fate EXCEPT ![id] = "sent"]
              /\ Continue(t, [call[t] EXCEPT !.step = "wait"])
           \/ /\ session[n][m] = "none" \/ ~ online[n]
              /\ register \/ (~ online[n] /\ UNCHANGED pending)
              /\ GiveUp(t)
              /\ UNCHANGED <<net, fate>>
    /\ UNCHANGED <<store, nodeVars, made, mode, got, swaps, erased, untidy>>

\* Both sides hold the key the packet is encrypted with.
Readable(m) == m.under = "agreed" /\ session[m.dst][m.src] = "agreed"

\* A request is carried out and answered without a wait in between; the answer
\* is lost if the client is offline.
HandleRequest(m) ==
    LET n == m.dst
        answer == [kind |-> "answer", id |-> m.id, src |-> n, dst |-> m.src,
                   result |-> ResultOf(n, m.body), under |-> "agreed"]
    IN  /\ m.kind = "request" /\ Readable(m)
        /\ CarryOut(n, m.body)
        /\ net' = (net \ {m}) \cup (IF online[n] THEN {answer} ELSE {})
        /\ fate' = [fate EXCEPT ![m.id] = ResultOf(n, m.body)]
        /\ UNCHANGED <<nodeVars, pending, call, made, mode, got, swaps, erased, untidy>>

Waiting(t, id) ==
    /\ call[t] # Idle /\ call[t].step = "wait"
    /\ id = <<call[t].number, call[t].to>>

\* The coroutine resumes with the answer, or with None after its timeout.
Resume(t, result) ==
    /\ LET id == <<call[t].number, call[t].to>>
       IN  /\ got' = [got EXCEPT ![t] = [id |-> id, result |-> result]]
           /\ IF call[t].body.op = "CAS" /\ result = Yes THEN Swapped(call[t].body, id)
              ELSE UNCHANGED swaps
    /\ GiveUp(t)

\* A mutant of HandleAnswer: the answer goes to whoever waits for that node.
HandleAnswerMutant(m) ==
    /\ m.kind = "answer" /\ Readable(m)
    /\ net' = net \ {m}
    /\ \E t \in Thread :
          /\ At[t] = m.dst /\ call[t] # Idle /\ call[t].step = "wait" /\ call[t].to = m.src
          /\ Resume(t, m.result)
          /\ pending' = [pending EXCEPT ![m.dst] = @ \ {<<call[t].number, m.src>>}]
    /\ UNCHANGED <<store, nodeVars, made, mode, fate, erased, untidy>>

HandleAnswer(m) ==
    /\ m.kind = "answer" /\ Readable(m)
    /\ net' = net \ {m}
    /\ pending' = [pending EXCEPT ![m.dst] = @ \ {m.id}]
    /\ \/ /\ m.id \in pending[m.dst]
          /\ \E t \in Thread : Waiting(t, m.id) /\ Resume(t, m.result)
       \/ m.id \notin pending[m.dst] /\ UNCHANGED <<call, got, swaps>>
    /\ UNCHANGED <<store, nodeVars, made, mode, fate, erased, untidy>>

\* _on_relay_packet: no session, or decrypt raises.
Unreadable(m) ==
    /\ ~ Readable(m)
    /\ net' = net \ {m}
    /\ UNCHANGED <<store, nodeVars, pending, call, made, mode, history>>

Handle(m) == HandleRequest(m) \/ HandleAnswer(m) \/ Unreadable(m)

\* A mutant of Timeout: the future stays in _pending.
TimeoutMutant(t) ==
    /\ mode = "lossy"
    /\ call[t] # Idle /\ call[t].step = "wait"
    /\ Resume(t, Nil)
    /\ UNCHANGED <<store, nodeVars, net, pending, made, mode, fate, erased, untidy>>

\* A mutant of Timeout: an owner that does not answer is waited for.
PatientMutant(t) ==
    /\ mode = "lossy"
    /\ call[t] # Idle /\ call[t].step = "wait" /\ call[t].copying
    /\ pending' = [pending EXCEPT ![At[t]] = @ \ {<<call[t].number, call[t].to>>}]
    /\ Resume(t, Nil)
    /\ UNCHANGED <<store, nodeVars, net, made, mode, fate, erased, untidy>>

\* Ten seconds without an answer.  On a reliable network answers are in time.
Timeout(t) ==
    /\ mode = "lossy"
    /\ call[t] # Idle /\ call[t].step = "wait"
    /\ pending' = [pending EXCEPT ![At[t]] = @ \ {<<call[t].number, call[t].to>>}]
    /\ Resume(t, Nil)
    /\ UNCHANGED <<store, nodeVars, net, made, mode, fate, erased, untidy>>

-----------------------------------------------------------------------------
(* The relay *)

Lose(m) ==
    /\ mode = "lossy"
    /\ net' = net \ {m}
    /\ UNCHANGED <<store, nodeVars, pending, call, made, mode, history>>

\* _on_peer_joined
PeerJoined(n, p) ==
    /\ mode = "lossy" /\ n # p /\ online[n]
    /\ known' = [known EXCEPT ![n] = @ \cup {p}]
    /\ session' = [session EXCEPT ![n][p] = "own"]
    /\ UNCHANGED <<store, online, net, pending, call, made, mode, history>>

\* A mutant of PeerLeft: the peer leaves the ring too, and nobody checks which.
PeerLeftMutant(n, p) ==
    /\ mode = "lossy" /\ online[n]
    /\ known' = [known EXCEPT ![n] = @ \ {p}]
    /\ session' = [session EXCEPT ![n][p] = "none"]
    /\ UNCHANGED <<store, online, net, pending, call, made, mode, history>>

\* _on_peer_left: the ring keeps the peer.
PeerLeft(n, p) ==
    /\ mode = "lossy" /\ n # p /\ online[n]
    /\ session' = [session EXCEPT ![n][p] = "none"]
    /\ UNCHANGED <<store, known, online, net, pending, call, made, mode, history>>

SwitchOnline(n) ==
    /\ mode = "lossy"
    /\ online' = [online EXCEPT ![n] = ~ @]
    /\ UNCHANGED <<store, known, session, net, pending, call, made, mode, history>>

-----------------------------------------------------------------------------

Work(t) == Replicate(t) \/ Send(t)

Next ==
    \/ \E t \in Thread, k \in Key :
          \/ \E v \in Value : PutStart(t, k, v)
          \/ GetStart(t, k)
          \/ DeleteStart(t, k)
          \/ \E old \in Opt, new \in Value : CasStart(t, k, old, new)
    \/ \E t \in Thread : Work(t) \/ Timeout(t)
    \/ \E m \in net : HandleRequest(m) \/ HandleAnswer(m) \/ Unreadable(m) \/ Lose(m)
    \/ \E n, p \in Node : PeerJoined(n, p) \/ PeerLeft(n, p)
    \/ \E n \in Node : SwitchOnline(n)

\* Threads and event loops go on when they can, a timer that is due fires, and a
\* packet that stays in the network arrives.
Fairness ==
    /\ \A t \in Thread : WF_vars(Work(t)) /\ WF_vars(Timeout(t))
    /\ WF_vars(\E m \in net : Handle(m))

Spec == Init /\ [][Next]_vars /\ Fairness

-----------------------------------------------------------------------------
(* Properties *)

Quiet == net = {} /\ \A t \in Thread : call[t] = Idle

\* What a request came back with, if anything, is what that very request did at
\* the node it was sent to: a late answer of a call that timed out is never
\* taken for another's (db.py:420-424, 456-467).
AnswersMatch ==
    \A t \in Thread : got[t] # Idle /\ got[t].result # Nil =>
        fate[got[t].id] = got[t].result

\* A future stays in _pending only while its caller waits, except those of
\* requests that could not be sent, which nothing ever removes (db.py:456-467).
PendingIsWaited ==
    \A n \in Node : \A id \in pending[n] :
        fate[id] # "unsent" => \E t \in Thread : At[t] = n /\ Waiting(t, id)

\* Of the cas calls that expect no value, the store of one node lets one win at
\* most, whichever nodes they come from and whatever rings, fallbacks, timeouts
\* and late answers bring them there; a delete gives the next one its chance.  So
\* the winners of a key are as many as the nodes that take themselves, or are
\* taken, for its owner (db.py:522-532, 415-418).
CasIsExclusive ==
    \A k \in Key \ erased : \A i, j \in swaps[k] : i # j => i[2] # j[2]

\* "For writes, the CAS operation will fail if quorum cannot be reached, preserving
\* consistency over availability" (README.md:676): where every node knows every
\* other, one cas that expects no value wins at most.
CasKeepsConsistency ==
    (\A n \in Node : known[n] = Node) =>
        \A k \in Key \ erased : Cardinality(swaps[k]) <= 1

\* A key only written by one put at a time at its owner is the same on all its
\* replicas when nothing is under way, if no packet was lost (db.py:470-484).
ReplicasFollowOwner ==
    mode = "reliable" /\ Quiet =>
        \A k \in Key \ (untidy \cup erased) : \A m \in ReplicasOf(Home(k), k) :
            store[m][k] = store[Home(k)][k]

\* Every call returns, whatever the network does (db.py:441-467).
CallsReturn == \A t \in Thread : call[t] # Idle ~> call[t] = Idle

=============================================================================
