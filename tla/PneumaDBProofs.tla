---------------------------- MODULE PneumaDBProofs ----------------------------
(***************************************************************************)
(* Proofs about PneumaDB, for any nodes, threads, keys and values, any     *)
(* ring and any number of calls.                                           *)
(***************************************************************************)
EXTENDS PneumaDB, TLAPS, FiniteSetTheorems, WellFoundedInduction

Busy == {t \in Thread : call[t] # Idle}

Requests == {m \in net : m.kind = "request"}
Answers == {m \in net : m.kind = "answer"}

\* A request that was neither sent nor given a future.
Untouched(i) == fate[i] = "unsent" /\ \A n \in Node : i \notin pending[n]

\* The nodes a call may yet send a request to.
ToCome(c) == IF c.step = "replicate" THEN Node
             ELSE c.rest \cup (IF c.step = "send" THEN {c.to} ELSE {})

\* No two calls in progress share a number.
NumbersDistinct ==
    /\ \A t \in Busy : call[t].number <= made
    /\ \A t, u \in Busy : call[t].number = call[u].number => t = u

\* What calls have yet to send they have not sent, and no call sends twice to
\* one node: a request's id names one request for ever.
NextAreUntouched ==
    /\ \A i \in ReqId : i[1] > made => Untouched(i)
    /\ \A t \in Busy : /\ call[t].to \notin call[t].rest
                       /\ \A m \in ToCome(call[t]) : Untouched(<<call[t].number, m>>)

\* A request under way has not been carried out, and no other bears its id.
RequestsAreSent ==
    /\ \A m \in Requests : fate[m.id] = "sent" /\ m.id[2] = m.dst
    /\ \A m, p \in Requests : m.id = p.id => m = p

AnswersAreTrue == \A m \in Answers : fate[m.id] = m.result

\* Puts and swaps carry values; a key is erased as soon as its delete is called.
Sound(b) ==
    /\ b.op \in {"PUT", "CAS"} => b.value \in Value
    /\ b.op = "DELETE" => b.key \in erased

\* A request asks for what its call asks for; only puts are copied to replicas.
CallsSound ==
    \A t \in Busy : /\ Sound(call[t].body)
                    /\ call[t].copying => call[t].body.op = "PUT"
                    /\ call[t].step = "replicate" => call[t].copying

RequestsSound ==
    \A m \in Requests :
        /\ Sound(m.body)
        /\ \A t \in Busy : call[t].number = m.id[1] => call[t].body = m.body

BodiesAgree == CallsSound /\ RequestsSound

\* The bookkeeping of calls, requests and answers.
Book ==
    /\ TypeOK
    /\ NumbersDistinct
    /\ NextAreUntouched
    /\ RequestsAreSent
    /\ AnswersAreTrue
    /\ BodiesAgree

-----------------------------------------------------------------------------
(* Routing *)

LEMMA SomeLeast ==
    ASSUME NEW N \in SUBSET Nat, N # {}
    PROVE  \E x \in N : \A y \in N : x <= y
<1>1. PICK x \in N : \A y \in N : ~ (<<y, x>> \in OpToRel(<, Nat))
  BY NatLessThanWellFounded, WFMin, Zenon
<1>2. \A y \in N : ~ (y < x)
  BY <1>1, Zenon DEF OpToRel
<1> QED BY <1>2

\* Of any nodes there is a nearest, on a ring of any size.
LEMMA NearestIsOne ==
    ASSUME NEW S \in SUBSET Node, S # {}, NEW k \in Key
    PROVE  Nearest(S, k) \in S
<1> DEFINE N == {Place[k][m] : m \in S}
<1>1. N \in SUBSET Nat /\ N # {}
  BY DBConstants
<1>2. PICK x \in N : \A y \in N : x <= y
  BY <1>1, SomeLeast
<1>3. \E m \in S : \A p \in S : Place[k][m] <= Place[k][p]
  BY <1>2
<1> QED BY <1>3 DEF Nearest

LEMMA OwnerIsNode == TypeOK => \A n \in Node, k \in Key : OwnerOf(n, k) \in Node
<1> SUFFICES ASSUME TypeOK, NEW n \in Node, NEW k \in Key PROVE OwnerOf(n, k) \in Node
  OBVIOUS
<1>1. known[n] \in SUBSET Node /\ known[n] # {}
  BY DEF TypeOK
<1> QED BY <1>1, NearestIsOne DEF OwnerOf

-----------------------------------------------------------------------------
(* What the actions have in common *)

\* A call begins, and may be over at once.
Starts(t) ==
    /\ call[t] = Idle
    /\ made < MaxCalls /\ made' = made + 1
    /\ \/ call' = call
       \/ \E d \in Call : /\ call' = [call EXCEPT ![t] = d]
                          /\ d.number = made + 1
                          /\ d.step \in {"replicate", "send"} /\ d.rest = {}
                          /\ d.body.op \in {"PUT", "CAS"} => d.body.value \in Value
                          /\ d.body.op = "DELETE" => d.body.key \in erased'
                          /\ d.copying => d.body.op = "PUT"
                          /\ d.step = "replicate" => d.copying
    /\ erased \subseteq erased'
    /\ UNCHANGED <<nodeVars, net, pending, mode, fate, got>>

\* A call goes on with a copy to one of the nodes left, or ends.
Goes(t, left) ==
    \E d \in Call \cup {Idle} :
        /\ call' = [call EXCEPT ![t] = d]
        /\ d # Idle => /\ d.number = call[t].number /\ d.body = call[t].body
                       /\ d.step = "send" /\ d.copying /\ call[t].copying
                       /\ d.to \in left /\ d.rest = left \ {d.to}
        /\ d = Idle => left = {} \/ ~call[t].copying

LEMMA NewCallFacts ==
    ASSUME TypeOK, made < MaxCalls, NEW body \in Body, NEW step \in {"replicate", "send"},
           NEW to \in Node
    PROVE  /\ NewCall(body, step, to) \in Call
           /\ NewCall(body, step, to).number = made + 1
           /\ NewCall(body, step, to).step = step
           /\ NewCall(body, step, to).to = to
           /\ NewCall(body, step, to).rest = {}
           /\ NewCall(body, step, to).body = body
           /\ NewCall(body, step, to).copying <=> step = "replicate"
<1>1. made + 1 \in 1 .. MaxCalls
  BY DBConstants DEF TypeOK
<1> QED BY <1>1 DEF NewCall, Call

\* The bodies of the four operations.
LEMMA BodyFacts ==
    ASSUME NEW k \in Key, NEW v \in Opt, NEW old \in Opt, NEW op \in {"PUT", "GET", "DELETE", "CAS"}
    PROVE  [op |-> op, key |-> k, value |-> v, expected |-> old] \in Body
BY DEF Body

LEMMA PutStarts ==
    ASSUME TypeOK, NEW t \in Thread, NEW k \in Key, NEW v \in Value, PutStart(t, k, v)
    PROVE  /\ Starts(t)
           /\ store' = store \/ store' = [store EXCEPT ![At[t]][k] = v]
           /\ erased' = erased /\ swaps' = swaps
<1> DEFINE body == [op |-> "PUT", key |-> k, value |-> v, expected |-> Nil]
           owner == OwnerOf(At[t], k)
<1>1. body \in Body /\ owner \in Node /\ At[t] \in Node /\ body.op = "PUT" /\ body.value = v
  BY BodyFacts, OwnerIsNode, DBConstants DEF Opt
<1>2. MayCall(t) /\ made' = made + 1
  BY DEF PutStart
<1>3. /\ NewCall(body, "replicate", At[t]) \in Call
      /\ NewCall(body, "replicate", At[t]).number = made + 1
      /\ NewCall(body, "replicate", At[t]).step = "replicate"
      /\ NewCall(body, "replicate", At[t]).rest = {}
      /\ NewCall(body, "replicate", At[t]).body = body
      /\ NewCall(body, "replicate", At[t]).copying
  BY <1>1, <1>2, NewCallFacts DEF MayCall
<1>4. /\ NewCall(body, "send", owner) \in Call
      /\ NewCall(body, "send", owner).number = made + 1
      /\ NewCall(body, "send", owner).step = "send"
      /\ NewCall(body, "send", owner).rest = {}
      /\ NewCall(body, "send", owner).body = body
      /\ ~NewCall(body, "send", owner).copying
  BY <1>1, <1>2, NewCallFacts DEF MayCall
<1>5. /\ \/ call' = [call EXCEPT ![t] = NewCall(body, "replicate", At[t])]
         \/ call' = [call EXCEPT ![t] = NewCall(body, "send", owner)]
         \/ call' = call
      /\ store' = store \/ store' = [store EXCEPT ![At[t]][k] = v]
      /\ UNCHANGED <<nodeVars, net, pending, mode, fate, got, swaps, erased>>
  BY DEF PutStart, RouteTo, Continue, SetLocal
<1> QED BY <1>1, <1>2, <1>3, <1>4, <1>5 DEF Starts, MayCall

\* What a call that is routed to the owner begins with.
LEMMA RoutedFacts ==
    ASSUME TypeOK, NEW t \in Thread, NEW k \in Key, NEW body \in Body, MayCall(t)
    PROVE  LET d == NewCall(body, "send", OwnerOf(At[t], k))
           IN  d \in Call /\ d.number = made + 1 /\ d.step = "send" /\ d.rest = {}
               /\ d.body = body /\ ~d.copying /\ d.to = OwnerOf(At[t], k)
<1>1. OwnerOf(At[t], k) \in Node
  BY OwnerIsNode, DBConstants
<1> QED BY <1>1, NewCallFacts DEF MayCall

LEMMA GetStarts ==
    ASSUME TypeOK, NEW t \in Thread, NEW k \in Key, GetStart(t, k)
    PROVE  /\ Starts(t)
           /\ store' = store /\ UNCHANGED history
           /\ \/ call' = call
              \/ \E d \in Call : /\ call' = [call EXCEPT ![t] = d]
                                 /\ d.body.op = "GET" /\ ~d.copying
<1> DEFINE body == [op |-> "GET", key |-> k, value |-> Nil, expected |-> Nil]
           d == NewCall(body, "send", OwnerOf(At[t], k))
<1>1. body \in Body /\ body.op = "GET" /\ MayCall(t) /\ made' = made + 1
  BY BodyFacts DEF GetStart, Opt
<1>2. d \in Call /\ d.number = made + 1 /\ d.step = "send" /\ d.rest = {} /\ d.body = body /\ ~d.copying
  BY <1>1, RoutedFacts
<1>3. /\ call' = call \/ call' = [call EXCEPT ![t] = d]
      /\ store' = store
      /\ UNCHANGED <<nodeVars, net, pending, mode, history>>
  BY DEF GetStart, RouteTo, Continue
<1> HIDE DEF d, body
<1> QED BY <1>1, <1>2, <1>3 DEF Starts, MayCall, history

LEMMA DeleteStarts ==
    ASSUME TypeOK, NEW t \in Thread, NEW k \in Key, DeleteStart(t, k)
    PROVE  /\ Starts(t)
           /\ store' = [store EXCEPT ![At[t]][k] = Nil]
           /\ erased' = erased \cup {k} /\ swaps' = swaps
<1> DEFINE body == [op |-> "DELETE", key |-> k, value |-> Nil, expected |-> Nil]
           d == NewCall(body, "send", OwnerOf(At[t], k))
<1>1. body \in Body /\ body.op = "DELETE" /\ body.key = k /\ MayCall(t) /\ made' = made + 1
  BY BodyFacts DEF DeleteStart, Opt
<1>2. d \in Call /\ d.number = made + 1 /\ d.step = "send" /\ d.rest = {} /\ d.body = body /\ ~d.copying
  BY <1>1, RoutedFacts
<1>3. /\ call' = call \/ call' = [call EXCEPT ![t] = d]
      /\ store' = [store EXCEPT ![At[t]][k] = Nil]
      /\ erased' = erased \cup {k}
      /\ UNCHANGED <<nodeVars, net, pending, mode, fate, got, swaps>>
  BY DEF DeleteStart, RouteTo, Continue, SetLocal
<1> HIDE DEF d, body
<1> QED BY <1>1, <1>2, <1>3 DEF Starts, MayCall

LEMMA CasStarts ==
    ASSUME TypeOK, NEW t \in Thread, NEW k \in Key, NEW old \in Opt, NEW new \in Value,
           CasStart(t, k, old, new)
    PROVE  /\ Starts(t)
           /\ erased' = erased
           /\ \/ /\ store[At[t]][k] = old /\ store' = [store EXCEPT ![At[t]][k] = new]
                 /\ swaps' = [swaps EXCEPT ![k] = IF old = Nil THEN @ \cup {<<made + 1, At[t]>>} ELSE @]
                 /\ call' = call
              \/ UNCHANGED <<store, swaps>>
<1> DEFINE body == [op |-> "CAS", key |-> k, value |-> new, expected |-> old]
           d == NewCall(body, "send", OwnerOf(At[t], k))
<1>1. /\ body \in Body /\ body.op = "CAS" /\ body.key = k /\ body.value = new /\ body.expected = old
      /\ MayCall(t) /\ made' = made + 1
  BY BodyFacts DEF CasStart, Opt
<1>2. d \in Call /\ d.number = made + 1 /\ d.step = "send" /\ d.rest = {} /\ d.body = body /\ ~d.copying
  BY <1>1, RoutedFacts
<1>3. /\ \/ /\ CarryOut(At[t], body) /\ UNCHANGED call
            /\ IF Swaps(At[t], body) THEN Swapped(body, <<made + 1, At[t]>>) ELSE UNCHANGED swaps
         \/ /\ call' = [call EXCEPT ![t] = d] /\ store' = store
            /\ UNCHANGED <<swaps>>
      /\ UNCHANGED <<nodeVars, net, pending, mode, fate, got, erased>>
  BY DEF CasStart, RouteTo, Continue
<1>4. CarryOut(At[t], body) =>
         IF Swaps(At[t], body) THEN store' = [store EXCEPT ![At[t]][k] = new] ELSE store' = store
  BY <1>1 DEF CarryOut, SetLocal
<1>5. Swaps(At[t], body) <=> store[At[t]][k] = old
  BY <1>1 DEF Swaps
<1>6. Swapped(body, <<made + 1, At[t]>>) =>
         swaps' = [swaps EXCEPT ![k] = IF old = Nil THEN @ \cup {<<made + 1, At[t]>>} ELSE @]
  BY <1>1 DEF Swapped
<1> HIDE DEF d, body
<1>7. Starts(t)
  BY <1>1, <1>2, <1>3 DEF Starts, MayCall
<1> QED BY <1>3, <1>4, <1>5, <1>6, <1>7

LEMMA NextReplicaGoes ==
    ASSUME TypeOK, NEW t \in Thread, call[t] # Idle, call[t].copying, NEW left \in SUBSET Node,
           NextReplica(t, call[t], left)
    PROVE  Goes(t, left)
<1> DEFINE c == call[t]
           m == Nearest(left, c.body.key)
           d == [c EXCEPT !.step = "send", !.to = m, !.rest = left \ {m}, !.copying = TRUE]
<1>1. c \in Call /\ c.body.key \in Key
  BY DEF TypeOK, Call, Body
<1>2. CASE left = {}
  <2>1. call' = [call EXCEPT ![t] = Idle]
    BY <1>2 DEF NextReplica, Continue
  <2> QED BY <1>2, <2>1 DEF Goes
<1>3. CASE left # {}
  <2>1. m \in left
    BY <1>1, <1>3, NearestIsOne
  <2>2. call' = [call EXCEPT ![t] = d]
    BY <1>3 DEF NextReplica, Continue
  <2>3. /\ d \in Call /\ d.number = c.number /\ d.body = c.body
        /\ d.step = "send" /\ d.copying /\ d.to = m /\ d.rest = left \ {m}
    BY <1>1, <2>1 DEF Call
  <2>4. d # Idle
    BY <2>3, IdleIsNoCall
  <2> HIDE DEF d, m
  <2> QED BY <2>1, <2>2, <2>3, <2>4 DEF Goes
<1> QED BY <1>2, <1>3

LEMMA GiveUpGoes ==
    ASSUME TypeOK, NEW t \in Thread, call[t] # Idle, GiveUp(t)
    PROVE  Goes(t, call[t].rest)
<1>1. call[t] \in Call /\ call[t].rest \in SUBSET Node
  BY DEF TypeOK, Call
<1>2. CASE call[t].copying
  BY <1>1, <1>2, NextReplicaGoes DEF GiveUp
<1>3. CASE ~call[t].copying
  BY <1>3 DEF GiveUp, Goes, Continue
<1> QED BY <1>2, <1>3

LEMMA ReplicateGoes ==
    ASSUME TypeOK, BodiesAgree, NEW t \in Thread, Replicate(t)
    PROVE  /\ call[t] # Idle /\ call[t].step = "replicate" /\ call[t].copying
           /\ Goes(t, ReplicasOf(At[t], call[t].body.key) \ {At[t]})
<1>1. call[t] # Idle /\ call[t].step = "replicate"
  BY DEF Replicate
<1>2. call[t].copying
  BY <1>1 DEF BodiesAgree, CallsSound, Busy
<1>3. ReplicasOf(At[t], call[t].body.key) \ {At[t]} \in SUBSET Node
  BY DBConstants DEF ReplicasOf, TypeOK
<1>4. NextReplica(t, call[t], ReplicasOf(At[t], call[t].body.key) \ {At[t]})
  BY DEF Replicate
<1> QED BY <1>1, <1>2, <1>3, <1>4, NextReplicaGoes

\* A request is sent, or cannot be: then its future may be left behind.
LEMMA SendFacts ==
    ASSUME TypeOK, NEW t \in Thread, Send(t)
    PROVE  LET i == <<call[t].number, call[t].to>>
               n == At[t]
               d == [call[t] EXCEPT !.step = "wait"]
               request == [kind |-> "request", id |-> i, src |-> n, dst |-> call[t].to,
                           body |-> call[t].body, under |-> session[n][call[t].to]]
           IN  /\ call[t] # Idle /\ call[t].step = "send" /\ i \in ReqId /\ n \in Node
               /\ \/ /\ session[n][call[t].to] # "none" /\ online[n]
                     /\ pending' = [pending EXCEPT ![n] = @ \cup {i}]
                     /\ net' = net \cup {request} /\ request \in Request
                     /\ fate' = [fate EXCEPT ![i] = "sent"]
                     /\ call' = [call EXCEPT ![t] = d]
                     /\ d \in Call /\ d # Idle /\ d.number = call[t].number /\ d.body = call[t].body
                     /\ d.to = call[t].to /\ d.rest = call[t].rest /\ d.step = "wait"
                     /\ d.copying = call[t].copying
                  \/ /\ session[n][call[t].to] = "none" \/ ~online[n]
                     /\ pending' = [pending EXCEPT ![n] = @ \cup {i}] \/ pending' = pending
                     /\ Goes(t, call[t].rest)
                     /\ UNCHANGED <<net, fate>>
               /\ UNCHANGED <<store, nodeVars, made, mode, got, swaps, erased, untidy>>
<1> DEFINE i == <<call[t].number, call[t].to>>
           n == At[t]
           m == call[t].to
           d == [call[t] EXCEPT !.step = "wait"]
           request == [kind |-> "request", id |-> i, src |-> n, dst |-> m,
                       body |-> call[t].body, under |-> session[n][m]]
<1>1. call[t] # Idle /\ call[t].step = "send" /\ call[t] \in Call
  BY DEF Send, TypeOK
<1>2. i \in ReqId /\ n \in Node /\ m \in Node /\ call[t].body \in Body
  BY <1>1, DBConstants DEF Call, ReqId
<1>3. /\ d \in Call /\ d.number = call[t].number /\ d.body = call[t].body
      /\ d.to = call[t].to /\ d.rest = call[t].rest /\ d.step = "wait" /\ d.copying = call[t].copying
  BY <1>1 DEF Call
<1>4. d # Idle
  BY <1>3, IdleIsNoCall
<1>5. session[n][m] # "none" => request \in Request
  BY <1>2 DEF Request, TypeOK
<1>6. GiveUp(t) => Goes(t, call[t].rest)
  BY <1>1, GiveUpGoes
<1>7. /\ \/ /\ session[n][m] # "none" /\ online[n]
            /\ pending' = [pending EXCEPT ![n] = @ \cup {i}]
            /\ net' = net \cup {request}
            /\ fate' = [fate EXCEPT ![i] = "sent"]
            /\ call' = [call EXCEPT ![t] = d]
         \/ /\ session[n][m] = "none" \/ ~online[n]
            /\ pending' = [pending EXCEPT ![n] = @ \cup {i}] \/ pending' = pending
            /\ GiveUp(t)
            /\ UNCHANGED <<net, fate>>
      /\ UNCHANGED <<store, nodeVars, made, mode, got, swaps, erased, untidy>>
  BY DEF Send, Continue
<1> HIDE DEF d, request, i, n, m
<1>8. \/ /\ session[n][m] # "none" /\ online[n]
         /\ pending' = [pending EXCEPT ![n] = @ \cup {i}]
         /\ net' = net \cup {request} /\ request \in Request
         /\ fate' = [fate EXCEPT ![i] = "sent"]
         /\ call' = [call EXCEPT ![t] = d]
      \/ /\ session[n][m] = "none" \/ ~online[n]
         /\ pending' = [pending EXCEPT ![n] = @ \cup {i}] \/ pending' = pending
         /\ Goes(t, call[t].rest)
         /\ UNCHANGED <<net, fate>>
  BY <1>5, <1>6, <1>7
<1> QED BY <1>1, <1>2, <1>3, <1>4, <1>7, <1>8 DEF d, request, i, n, m

\* How a waiting call resumes.
LEMMA ResumeFacts ==
    ASSUME TypeOK, BodiesAgree, NEW t \in Thread, call[t] # Idle, call[t].step = "wait",
           NEW result \in Outcome, Resume(t, result)
    PROVE  /\ Goes(t, call[t].rest)
           /\ got' = [got EXCEPT ![t] = [id |-> <<call[t].number, call[t].to>>, result |-> result]]
           /\ <<call[t].number, call[t].to>> \in ReqId
           /\ \/ swaps' = swaps
              \/ /\ call[t].body.op = "CAS" /\ result = Yes
                 /\ call[t].body.key \in Key
                 /\ swaps' = [swaps EXCEPT ![call[t].body.key] =
                                 IF call[t].body.expected = Nil
                                 THEN @ \cup {<<call[t].number, call[t].to>>} ELSE @]
<1>1. call[t] \in Call /\ call[t].body.key \in Key
  BY DEF TypeOK, Call, Body
<1>2. <<call[t].number, call[t].to>> \in ReqId
  BY <1>1 DEF Call, ReqId
<1>3. Goes(t, call[t].rest)
  BY GiveUpGoes DEF Resume
<1> QED BY <1>1, <1>2, <1>3 DEF Resume, Swapped

\* What a node does with a request.
LEMMA RequestFacts ==
    ASSUME TypeOK, NEW m \in net, HandleRequest(m)
    PROVE  LET k == m.body.key
               n == m.dst
               result == ResultOf(n, m.body)
           IN  /\ m \in Request /\ k \in Key /\ n \in Node
               /\ result \in Outcome
               /\ \/ m.body.op = "PUT" /\ store' = [store EXCEPT ![n][k] = m.body.value]
                  \/ m.body.op = "GET" /\ store' = store
                  \/ m.body.op = "DELETE" /\ store' = [store EXCEPT ![n][k] = Nil]
                  \/ /\ m.body.op = "CAS" /\ store[n][k] = m.body.expected
                     /\ store' = [store EXCEPT ![n][k] = m.body.value]
                  \/ m.body.op = "CAS" /\ result = No /\ store' = store
               /\ \E A \in SUBSET Answer :
                     /\ net' = (net \ {m}) \cup A
                     /\ \A a \in A : a.id = m.id /\ a.result = result
               /\ fate' = [fate EXCEPT ![m.id] = result]
               /\ UNCHANGED <<nodeVars, pending, call, made, mode, got, swaps, erased, untidy>>
<1> DEFINE k == m.body.key
           n == m.dst
           result == ResultOf(n, m.body)
           answer == [kind |-> "answer", id |-> m.id, src |-> n, dst |-> m.src,
                      result |-> result, under |-> "agreed"]
<1>1. m \in Request
  BY DEF HandleRequest, TypeOK, Answer
<1>2. k \in Key /\ n \in Node /\ m.src \in Node /\ m.id \in ReqId /\ m.body \in Body
  BY <1>1 DEF Request, Body
<1>3. result \in Outcome /\ (m.body.op = "CAS" /\ store[n][k] # m.body.expected => result = No)
  BY <1>2 DEF ResultOf, Outcome, Opt, TypeOK, Swaps, Body
<1>4. answer \in Answer /\ answer.id = m.id /\ answer.result = result
  BY <1>2, <1>3 DEF Answer, SessionKey
<1>5. /\ CarryOut(n, m.body)
      /\ net' = (net \ {m}) \cup (IF online[n] THEN {answer} ELSE {})
      /\ fate' = [fate EXCEPT ![m.id] = result]
      /\ UNCHANGED <<nodeVars, pending, call, made, mode, got, swaps, erased, untidy>>
  BY DEF HandleRequest
<1>8. \/ m.body.op = "PUT" /\ store' = [store EXCEPT ![n][k] = m.body.value]
      \/ m.body.op = "GET" /\ store' = store
      \/ m.body.op = "DELETE" /\ store' = [store EXCEPT ![n][k] = Nil]
      \/ /\ m.body.op = "CAS" /\ store[n][k] = m.body.expected
         /\ store' = [store EXCEPT ![n][k] = m.body.value]
      \/ m.body.op = "CAS" /\ result = No /\ store' = store
  BY <1>3, <1>5 DEF CarryOut, SetLocal, Swaps
<1>9. \E A \in SUBSET Answer : /\ net' = (net \ {m}) \cup A
                               /\ \A a \in A : a.id = m.id /\ a.result = result
  <2> HIDE DEF answer, result
  <2>1. CASE online[n]
    <3>1. {answer} \in SUBSET Answer
      BY <1>4
    <3>2. net' = (net \ {m}) \cup {answer} /\ \A a \in {answer} : a.id = m.id /\ a.result = result
      BY <1>4, <1>5, <2>1
    <3> QED BY <3>1, <3>2
  <2>2. CASE ~online[n]
    <3>1. /\ {} \in SUBSET Answer
          /\ net' = (net \ {m}) \cup {} /\ \A a \in {} : a.id = m.id /\ a.result = result
      BY <1>5, <2>2
    <3> QED BY <3>1, Zenon
  <2> QED BY <2>1, <2>2
<1> HIDE DEF answer, result, k, n
<1> QED BY <1>1, <1>2, <1>3, <1>5, <1>8, <1>9 DEF k, n, result

\* What an answer does: somebody waits for it, or nobody does.
LEMMA AnswerFacts ==
    ASSUME TypeOK, BodiesAgree, NEW m \in net, HandleAnswer(m)
    PROVE  /\ m \in Answer /\ net' = net \ {m}
           /\ pending' = [pending EXCEPT ![m.dst] = @ \ {m.id}]
           /\ \/ /\ m.id \in pending[m.dst]
                 /\ \E t \in Thread : Waiting(t, m.id) /\ Resume(t, m.result)
              \/ m.id \notin pending[m.dst] /\ UNCHANGED <<call, got, swaps>>
           /\ UNCHANGED <<store, nodeVars, made, mode, fate, erased, untidy>>
<1>1. m \in Answer
  BY DEF HandleAnswer, TypeOK, Request
<1> QED BY <1>1 DEF HandleAnswer

-----------------------------------------------------------------------------
(* The bookkeeping, action by action *)

LEMMA BookInit == Init => Book
<1> SUFFICES ASSUME Init PROVE Book
  OBVIOUS
<1>1. TypeOK
  BY DBConstants DEF Init, TypeOK, Opt, SessionKey, ReqId
<1>2. \A i \in ReqId : Untouched(i)
  BY DEF Init, Untouched
<1>3. Busy = {} /\ net = {}
  BY DEF Init, Busy
<1> QED BY <1>1, <1>2, <1>3
        DEF Book, NumbersDistinct, NextAreUntouched, RequestsAreSent, AnswersAreTrue, BodiesAgree,
            CallsSound, RequestsSound,
            Requests, Answers

LEMMA StartsBook ==
    ASSUME Book, NEW t \in Thread, Starts(t), TypeOK'
    PROVE  Book'
<1>1. /\ UNCHANGED <<net, fate, pending>> /\ made' = made + 1 /\ made \in Nat /\ call[t] = Idle
      /\ erased \subseteq erased' /\ made' \in 1 .. MaxCalls
  BY DBConstants DEF Starts, Book, TypeOK
<1>2. \A i \in ReqId : Untouched(i)' <=> Untouched(i)
  BY <1>1 DEF Untouched
<1>3. \A b \in Body : Sound(b) => Sound(b)'
  BY <1>1 DEF Sound
<1>4. RequestsAreSent' /\ AnswersAreTrue' /\ Requests' = Requests
  BY <1>1 DEF Book, RequestsAreSent, AnswersAreTrue, Requests, Answers
<1>5. \A m \in Requests : m \in Request /\ m.body \in Body /\ m.id \in ReqId /\ m.id[1] <= made
  <2>1. ASSUME NEW m \in Requests PROVE m \in Request /\ m.body \in Body /\ m.id \in ReqId
    BY DEF Book, TypeOK, Requests, Request, Answer
  <2>2. ASSUME NEW m \in Requests PROVE m.id[1] <= made
    <3>1. fate[m.id] = "sent" /\ m.id[1] \in Nat
      BY <2>1 DEF Book, RequestsAreSent, ReqId
    <3> QED BY <1>1, <2>1, <3>1 DEF Book, NextAreUntouched, Untouched
  <2> QED BY <2>1, <2>2
<1>6. \A i \in ReqId : i[1] > made' => Untouched(i)'
  BY <1>1, <1>2 DEF Book, NextAreUntouched, ReqId
<1>7. CASE call' = call
  <2>1. Busy' = Busy
    BY <1>7 DEF Busy
  <2>2. NumbersDistinct'
    BY <1>1, <1>7, <2>1 DEF Book, NumbersDistinct, TypeOK, Call, Busy
  <2>3. NextAreUntouched'
    <3>1. ASSUME NEW u \in Busy, NEW m \in ToCome(call[u])
          PROVE  <<call[u].number, m>> \in ReqId
      BY DEF Book, TypeOK, Busy, Call, ToCome, ReqId
    <3> QED BY <1>2, <1>6, <1>7, <2>1, <3>1 DEF Book, NextAreUntouched
  <2>4. BodiesAgree'
    <3>1. \A u \in Busy : call[u].body \in Body
      BY DEF Book, TypeOK, Busy, Call
    <3> QED BY <1>3, <1>4, <1>5, <1>7, <2>1, <3>1 DEF Book, BodiesAgree, CallsSound, RequestsSound
  <2> QED BY <1>4, <2>2, <2>3, <2>4 DEF Book
<1>8. CASE call' # call
  <2>1. PICK d \in Call :
           /\ call' = [call EXCEPT ![t] = d]
           /\ d.number = made + 1
           /\ d.step \in {"replicate", "send"} /\ d.rest = {}
           /\ d.body.op \in {"PUT", "CAS"} => d.body.value \in Value
           /\ d.body.op = "DELETE" => d.body.key \in erased'
           /\ d.copying => d.body.op = "PUT"
           /\ d.step = "replicate" => d.copying
    BY <1>8 DEF Starts
  <2>2. /\ Busy' = Busy \cup {t} /\ t \notin Busy
        /\ call'[t] = d /\ \A u \in Busy : call'[u] = call[u]
    BY <1>1, <2>1, IdleIsNoCall DEF Busy, Book, TypeOK
  <2>3. NumbersDistinct'
    <3>1. \A u \in Busy : call[u].number <= made /\ call[u].number \in Nat
      BY DEF Book, NumbersDistinct, TypeOK, Busy, Call
    <3> QED BY <1>1, <2>1, <2>2, <3>1 DEF Book, NumbersDistinct
  <2>4. NextAreUntouched'
    <3>1. ASSUME NEW u \in Busy, NEW m \in ToCome(call[u])
          PROVE  <<call[u].number, m>> \in ReqId
      BY DEF Book, TypeOK, Busy, Call, ToCome, ReqId
    <3>2. ASSUME NEW m \in ToCome(d)
          PROVE  Untouched(<<d.number, m>>)'
      <4>1. <<d.number, m>> \in ReqId
        BY <2>1, <3>2 DEF Call, ToCome, ReqId
      <4> QED BY <1>1, <1>2, <2>1, <4>1 DEF Book, NextAreUntouched
    <3>3. d.to \notin d.rest
      BY <2>1
    <3> QED BY <1>2, <1>6, <2>2, <3>1, <3>2, <3>3 DEF Book, NextAreUntouched
  <2>5. BodiesAgree'
    <3>3. \A m \in Requests : call'[t].number # m.id[1]
      BY <1>1, <1>5, <2>1, <2>2 DEF ReqId
    <3>4. ASSUME NEW u \in Busy'
          PROVE  (/\ Sound(call[u].body)
                  /\ call[u].copying => call[u].body.op = "PUT"
                  /\ call[u].step = "replicate" => call[u].copying)'
      <4>1. CASE u = t
        BY <2>1, <2>2, <4>1 DEF Sound
      <4>2. CASE u # t
        BY <1>1, <2>2, <4>2 DEF Book, BodiesAgree, CallsSound, Sound
      <4> QED BY <4>1, <4>2
    <3>5. ASSUME NEW m \in Requests'
          PROVE  Sound(m.body)' /\ \A u \in Busy' : call'[u].number = m.id[1] => call'[u].body = m.body
      BY <1>1, <1>4, <2>2, <3>3 DEF Book, BodiesAgree, RequestsSound, Sound
    <3>6. CallsSound'
      BY <3>4 DEF CallsSound
    <3>7. RequestsSound'
      BY <3>5 DEF RequestsSound
    <3> QED BY <3>6, <3>7 DEF BodiesAgree
  <2> QED BY <1>4, <2>3, <2>4, <2>5 DEF Book
<1> QED BY <1>7, <1>8

\* What a step keeps that sends, carries out and starts nothing.
LEMMA QuietBook ==
    ASSUME Book, TypeOK', UNCHANGED <<call, made, fate, erased>>, net' \subseteq net,
           \A n \in Node : pending'[n] \subseteq pending[n]
    PROVE  Book'
<1>1. Busy' = Busy /\ Requests' \subseteq Requests /\ Answers' \subseteq Answers
  BY DEF Busy, Requests, Answers
<1>2. \A i \in ReqId : Untouched(i) => Untouched(i)'
  BY DEF Untouched
<1>3. ASSUME NEW u \in Busy, NEW m \in ToCome(call[u])
      PROVE  <<call[u].number, m>> \in ReqId
  BY DEF Book, TypeOK, Busy, Call, ToCome, ReqId
<1>4. NumbersDistinct'
  BY <1>1 DEF Book, NumbersDistinct
<1>5. NextAreUntouched'
  BY <1>1, <1>2, <1>3 DEF Book, NextAreUntouched
<1>6. RequestsAreSent' /\ AnswersAreTrue'
  BY <1>1 DEF Book, RequestsAreSent, AnswersAreTrue
<1>7. BodiesAgree'
  BY <1>1 DEF Book, BodiesAgree, CallsSound, RequestsSound, Sound
<1> QED BY <1>4, <1>5, <1>6, <1>7 DEF Book

\* A call goes on; the request it could not send may leave its future behind.
LEMMA GoesBook ==
    ASSUME Book, TypeOK', NEW t \in Thread, call[t] # Idle, NEW left \in SUBSET Node,
           Goes(t, left), left \subseteq ToCome(call[t]),
           UNCHANGED <<made, fate, erased>>, net' \subseteq net,
           \A n \in Node : pending'[n] \subseteq pending[n] \cup {<<call[t].number, call[t].to>>},
           call[t].to \notin left \/ \A n \in Node : pending'[n] \subseteq pending[n]
    PROVE  Book'
<1>1. Requests' \subseteq Requests /\ Answers' \subseteq Answers
  BY DEF Requests, Answers
<1>2. PICK d \in Call \cup {Idle} :
         /\ call' = [call EXCEPT ![t] = d]
         /\ d # Idle => /\ d.number = call[t].number /\ d.body = call[t].body
                        /\ d.step = "send" /\ d.copying /\ call[t].copying
                        /\ d.to \in left /\ d.rest = left \ {d.to}
  BY DEF Goes
<1>3. /\ t \in Busy /\ Busy \ {t} \subseteq Busy' /\ Busy' \subseteq Busy /\ call'[t] = d
      /\ Busy \subseteq Thread
      /\ \A u \in Thread \ {t} : call'[u] = call[u]
      /\ t \in Busy' => d # Idle
  BY <1>2 DEF Busy, Book, TypeOK
<1>4. \A u \in Busy' : call'[u].number = call[u].number /\ call'[u].body = call[u].body
  BY <1>2, <1>3
<1>5. NumbersDistinct'
  BY <1>3, <1>4 DEF Book, NumbersDistinct
<1>6. \A i \in ReqId : i # <<call[t].number, call[t].to>> /\ Untouched(i) => Untouched(i)'
  BY DEF Untouched
<1>7. ASSUME NEW u \in Busy, NEW m \in ToCome(call[u])
      PROVE  <<call[u].number, m>> \in ReqId
  BY DEF Book, TypeOK, Busy, Call, ToCome, ReqId
<1>8. NextAreUntouched'
  <2>1. ASSUME NEW i \in ReqId, i[1] > made PROVE Untouched(i)'
    <3>1. call[t].number <= made /\ call[t].number \in Nat /\ made \in Nat
      BY <1>3 DEF Book, NumbersDistinct, TypeOK, Call, Busy
    <3>2. i # <<call[t].number, call[t].to>>
      BY <2>1, <3>1
    <3> QED BY <1>6, <2>1, <3>2 DEF Book, NextAreUntouched
  <2>2. ASSUME NEW u \in Busy', u # t
        PROVE  (/\ call[u].to \notin call[u].rest
                /\ \A m \in ToCome(call[u]) : Untouched(<<call[u].number, m>>))'
    <3>1. call'[u] = call[u] /\ u \in Busy /\ call[u].number # call[t].number
      BY <1>3, <2>2 DEF Book, NumbersDistinct
    <3>2. ASSUME NEW m \in ToCome(call[u]) PROVE Untouched(<<call[u].number, m>>)'
      BY <1>6, <1>7, <3>1 DEF Book, NextAreUntouched
    <3> QED BY <3>1, <3>2 DEF Book, NextAreUntouched
  <2>3. ASSUME t \in Busy'
        PROVE  (/\ call[t].to \notin call[t].rest
                /\ \A m \in ToCome(call[t]) : Untouched(<<call[t].number, m>>))'
    <3>1. d.step = "send" /\ d.to \in left /\ d.rest = left \ {d.to} /\ d.number = call[t].number
      BY <1>2, <1>3, <2>3
    <3>2. ToCome(d) = left
      BY <3>1 DEF ToCome
    <3>3. ASSUME NEW m \in left, NEW i \in ReqId, i = <<call[t].number, m>>
          PROVE  Untouched(i)'
      <4>1. Untouched(i)
        BY <1>3, <3>3 DEF Book, NextAreUntouched
      <4>2. CASE call[t].to \notin left
        <5>1. i # <<call[t].number, call[t].to>>
          BY <3>3, <4>2
        <5> QED BY <1>6, <4>1, <5>1
      <4>3. CASE \A n \in Node : pending'[n] \subseteq pending[n]
        BY <4>1, <4>3 DEF Untouched
      <4> QED BY <4>2, <4>3
    <3>4. \A m \in left : <<call[t].number, m>> \in ReqId
      BY <1>3, <1>7
    <3>5. ASSUME NEW m \in left PROVE Untouched(<<call[t].number, m>>)'
      BY <1>3, <3>1, <3>3, <3>4
    <3> QED BY <1>3, <3>1, <3>2, <3>5
  <2> QED BY <2>1, <2>2, <2>3 DEF NextAreUntouched
<1>9. RequestsAreSent' /\ AnswersAreTrue'
  BY <1>1 DEF Book, RequestsAreSent, AnswersAreTrue
<1>10. BodiesAgree'
  <2>1. ASSUME NEW u \in Busy'
        PROVE  (/\ Sound(call[u].body)
                /\ call[u].copying => call[u].body.op = "PUT"
                /\ call[u].step = "replicate" => call[u].copying)'
    <3>1. CASE u = t
      BY <1>2, <1>3, <3>1 DEF Book, BodiesAgree, CallsSound, Sound
    <3>2. CASE u # t
      BY <1>3, <3>2 DEF Book, BodiesAgree, CallsSound, Sound
    <3> QED BY <3>1, <3>2
  <2>2. CallsSound'
    BY <2>1 DEF CallsSound
  <2>3. RequestsSound'
    BY <1>1, <1>3, <1>4 DEF Book, BodiesAgree, RequestsSound, Sound
  <2> QED BY <2>2, <2>3 DEF BodiesAgree
<1> QED BY <1>5, <1>8, <1>9, <1>10 DEF Book

\* The packets under way, by their types.
LEMMA PacketFacts ==
    ASSUME TypeOK
    PROVE  /\ Requests \subseteq Request /\ Answers \subseteq Answer
           /\ net = Requests \cup Answers
           /\ \A m \in Requests : m.id \in ReqId /\ m.body \in Body
           /\ \A m \in Answers : m.id \in ReqId /\ m.result \in Outcome
           /\ \A x \in Outcome : x # "unsent" /\ x # "sent"
<1>1. net \subseteq Request \cup Answer
  BY DEF TypeOK
<1>2. Requests \subseteq Request /\ Answers \subseteq Answer /\ net = Requests \cup Answers
  BY <1>1 DEF Requests, Answers, Request, Answer
<1> QED BY <1>2, FateMarks DEF Request, Answer

\* A request is sent.
LEMMA SentBook ==
    ASSUME Book, TypeOK', NEW t \in Thread, call[t] # Idle, call[t].step = "send",
           NEW i \in ReqId, i = <<call[t].number, call[t].to>>,
           NEW d \in Call, d # Idle, call' = [call EXCEPT ![t] = d],
           d.number = call[t].number, d.body = call[t].body, d.step = "wait",
           d.to = call[t].to, d.rest = call[t].rest, d.copying = call[t].copying,
           NEW r \in Request, r.kind = "request", r.id = i, r.dst = call[t].to,
           r.body = call[t].body, net' = net \cup {r},
           fate' = [fate EXCEPT ![i] = "sent"],
           pending' = [pending EXCEPT ![At[t]] = @ \cup {i}],
           UNCHANGED <<made, erased>>
    PROVE  Book'
<1>1. /\ Busy' = Busy /\ t \in Busy /\ call'[t] = d
      /\ \A u \in Thread \ {t} : call'[u] = call[u]
      /\ Busy \subseteq Thread
  BY DEF Busy, Book, TypeOK
<1>2. \A u \in Busy : /\ call'[u].number = call[u].number /\ call'[u].body = call[u].body
                      /\ call'[u].copying = call[u].copying
  BY <1>1
<1>3. NumbersDistinct'
  BY <1>1, <1>2 DEF Book, NumbersDistinct
<1>4. fate[i] = "unsent"
  BY <1>1 DEF Book, NextAreUntouched, ToCome, Untouched
<1>5. \A j \in ReqId : j # i => fate'[j] = fate[j] /\ (Untouched(j) => Untouched(j)')
  BY DEF Untouched, Book, TypeOK
<1>6. fate'[i] = "sent"
  BY DEF Book, TypeOK
<1>7. Requests' = Requests \cup {r} /\ Answers' = Answers
  BY DEF Requests, Answers
<1>8. ASSUME NEW u \in Busy, NEW m \in ToCome(call[u])
      PROVE  <<call[u].number, m>> \in ReqId
  BY DEF Book, TypeOK, Busy, Call, ToCome, ReqId
<1>9. NextAreUntouched'
  <2>1. ASSUME NEW j \in ReqId, j[1] > made PROVE Untouched(j)'
    <3>1. call[t].number <= made /\ call[t].number \in Nat /\ made \in Nat
      BY <1>1 DEF Book, NumbersDistinct, TypeOK, Call, Busy
    <3>2. j # i
      BY <2>1, <3>1
    <3> QED BY <1>5, <2>1, <3>2 DEF Book, NextAreUntouched
  <2>2. ASSUME NEW u \in Busy', u # t
        PROVE  (/\ call[u].to \notin call[u].rest
                /\ \A m \in ToCome(call[u]) : Untouched(<<call[u].number, m>>))'
    <3>1. call'[u] = call[u] /\ u \in Busy /\ call[u].number # call[t].number
      BY <1>1, <2>2 DEF Book, NumbersDistinct
    <3>2. ASSUME NEW m \in ToCome(call[u]) PROVE Untouched(<<call[u].number, m>>)'
      BY <1>5, <1>8, <3>1 DEF Book, NextAreUntouched
    <3> QED BY <3>1, <3>2 DEF Book, NextAreUntouched
  <2>3. (/\ call[t].to \notin call[t].rest
         /\ \A m \in ToCome(call[t]) : Untouched(<<call[t].number, m>>))'
    <3>1. ToCome(d) = call[t].rest /\ ToCome(d) \subseteq ToCome(call[t])
      BY DEF ToCome
    <3>2. call[t].to \notin call[t].rest
      BY <1>1 DEF Book, NextAreUntouched
    <3>3. ASSUME NEW m \in ToCome(d) PROVE Untouched(<<d.number, m>>)'
      <4>1. Untouched(<<d.number, m>>) /\ <<d.number, m>> \in ReqId
        BY <1>1, <1>8, <3>1 DEF Book, NextAreUntouched
      <4>2. <<d.number, m>> # i
        BY <3>1, <3>2
      <4> QED BY <1>5, <4>1, <4>2
    <3> QED BY <1>1, <3>2, <3>3
  <2> QED BY <1>1, <2>1, <2>2, <2>3 DEF NextAreUntouched
<1>10. RequestsAreSent'
  <2>1. ASSUME NEW m \in Requests PROVE m.id # i /\ fate'[m.id] = "sent" /\ m.id[2] = m.dst
    BY <1>4, <1>5, PacketFacts DEF Book, RequestsAreSent
  <2> QED BY <1>6, <1>7, <2>1 DEF Book, RequestsAreSent
<1>11. AnswersAreTrue'
  <2>1. ASSUME NEW m \in Answers PROVE fate'[m.id] = m.result
    BY <1>4, <1>5, PacketFacts DEF Book, AnswersAreTrue
  <2> QED BY <1>7, <2>1 DEF AnswersAreTrue
<1>12. BodiesAgree'
  <2>1. ASSUME NEW u \in Busy'
        PROVE  (/\ Sound(call[u].body)
                /\ call[u].copying => call[u].body.op = "PUT"
                /\ call[u].step = "replicate" => call[u].copying)'
    <3>1. CASE u = t
      BY <1>1, <3>1 DEF Book, BodiesAgree, CallsSound, Sound
    <3>2. CASE u # t
      BY <1>1, <3>2 DEF Book, BodiesAgree, CallsSound, Sound
    <3> QED BY <3>1, <3>2
  <2>2. CallsSound'
    BY <2>1 DEF CallsSound
  <2>3. \A u \in Busy : call[u].number = r.id[1] => call[u].body = r.body
    BY <1>1 DEF Book, NumbersDistinct
  <2>4. Sound(r.body)
    BY <1>1 DEF Book, BodiesAgree, CallsSound
  <2>5. RequestsSound'
    <3>1. ASSUME NEW m \in Requests'
          PROVE  Sound(m.body)' /\ \A u \in Busy' : call'[u].number = m.id[1] => call'[u].body = m.body
      BY <1>1, <1>2, <1>7, <2>3, <2>4 DEF Book, BodiesAgree, RequestsSound, Sound
    <3> QED BY <3>1 DEF RequestsSound
  <2> QED BY <2>2, <2>5 DEF BodiesAgree
<1> QED BY <1>3, <1>9, <1>10, <1>11, <1>12 DEF Book

\* A request is carried out, and answered or not.
LEMMA RequestBook ==
    ASSUME Book, TypeOK', NEW m \in Requests, NEW result \in Outcome, NEW A \in SUBSET Answer,
           net' = (net \ {m}) \cup A, \A a \in A : a.id = m.id /\ a.result = result,
           fate' = [fate EXCEPT ![m.id] = result],
           UNCHANGED <<call, made, erased, pending>>
    PROVE  Book'
<1>1. Requests' = Requests \ {m} /\ Answers' = Answers \cup A
  <2>1. \A a \in A : a.kind = "answer"
    BY DEF Answer
  <2>2. m.kind = "request"
    BY DEF Requests
  <2> QED BY <2>1, <2>2 DEF Requests, Answers
<1>2. fate[m.id] = "sent" /\ m.id \in ReqId
  BY PacketFacts DEF Book, RequestsAreSent
<1>3. \A j \in ReqId : j # m.id => fate'[j] = fate[j]
  BY DEF Book, TypeOK
<1>4. fate'[m.id] = result
  BY <1>2 DEF Book, TypeOK
<1>5. \A j \in ReqId : Untouched(j) => Untouched(j)'
  BY <1>2, <1>3 DEF Untouched
<1>6. Busy' = Busy
  BY DEF Busy
<1>7. NumbersDistinct'
  BY <1>6 DEF Book, NumbersDistinct
<1>8. ASSUME NEW u \in Busy, NEW n \in ToCome(call[u])
      PROVE  <<call[u].number, n>> \in ReqId
  BY DEF Book, TypeOK, Busy, Call, ToCome, ReqId
<1>9. NextAreUntouched'
  BY <1>5, <1>6, <1>8 DEF Book, NextAreUntouched
<1>10. RequestsAreSent'
  <2>1. ASSUME NEW p \in Requests' PROVE fate'[p.id] = "sent" /\ p.id[2] = p.dst
    BY <1>1, <1>3, PacketFacts DEF Book, RequestsAreSent
  <2> QED BY <1>1, <2>1 DEF Book, RequestsAreSent
<1>11. AnswersAreTrue'
  <2>1. ASSUME NEW a \in Answers' PROVE fate'[a.id] = a.result
    BY <1>1, <1>2, <1>3, <1>4, PacketFacts DEF Book, AnswersAreTrue
  <2> QED BY <2>1 DEF AnswersAreTrue
<1>12. BodiesAgree'
  BY <1>1, <1>6 DEF Book, BodiesAgree, CallsSound, RequestsSound, Sound
<1> QED BY <1>7, <1>9, <1>10, <1>11, <1>12 DEF Book

-----------------------------------------------------------------------------
(* Every action keeps the book *)

LEMMA UntidyKeys ==
    ASSUME TypeOK, NEW t \in Thread, NEW k \in Key, NEW b \in BOOLEAN, Untidy(t, k, b)
    PROVE  untidy \subseteq untidy' /\ untidy' \subseteq Key
BY DEF Untidy, TypeOK

\* One more swap of a key leaves a set of calls for each.
LEMMA SwapTyped ==
    ASSUME TypeOK, NEW k \in Key, NEW old, NEW i \in ReqId,
           swaps' = [swaps EXCEPT ![k] = IF old = Nil THEN @ \cup {i} ELSE @]
    PROVE  swaps' \in [Key -> SUBSET ReqId]
<1>1. swaps \in [Key -> SUBSET ReqId]
  BY DEF TypeOK
<1> QED BY <1>1

LEMMA StartsKeepsBook ==
    ASSUME Book, NEW t \in Thread, Starts(t),
           store' \in [Node -> [Key -> Opt]],
           swaps' \in [Key -> SUBSET ReqId], erased' \subseteq Key, untidy' \subseteq Key
    PROVE  Book'
<1>1. TypeOK
  BY DEF Book
<1>2. made' \in 0 .. MaxCalls
  BY <1>1, DBConstants DEF TypeOK, Starts
<1>3. call' \in [Thread -> Call \cup {Idle}]
  BY <1>1 DEF TypeOK, Starts
<1>4. UNCHANGED <<known, session, online, net, pending, mode, fate, got>>
  BY DEF Starts, nodeVars
<1>5. TypeOK'
  BY <1>1, <1>2, <1>3, <1>4 DEF TypeOK
<1> QED BY <1>5, StartsBook

\* The application calls put, get, delete or cas.
LEMMA BeginKeepsBook ==
    ASSUME Book, NEW t \in Thread, NEW k \in Key,
           \/ \E v \in Value : PutStart(t, k, v)
           \/ GetStart(t, k)
           \/ DeleteStart(t, k)
           \/ \E old \in Opt, new \in Value : CasStart(t, k, old, new)
    PROVE  Book'
<1>1. TypeOK
  BY DEF Book
<1>2. /\ At[t] \in Node
      /\ \A v \in Opt : [store EXCEPT ![At[t]][k] = v] \in [Node -> [Key -> Opt]]
      /\ store \in [Node -> [Key -> Opt]] /\ Nil \in Opt /\ Value \subseteq Opt
      /\ erased \subseteq Key /\ swaps \in [Key -> SUBSET ReqId]
  BY <1>1, DBConstants DEF TypeOK, Opt
<1>3. ASSUME NEW v \in Value, PutStart(t, k, v) PROVE Book'
  <2>1. /\ Starts(t)
        /\ store' = store \/ store' = [store EXCEPT ![At[t]][k] = v]
        /\ erased' = erased /\ swaps' = swaps
    BY <1>1, <1>3, PutStarts
  <2>2. untidy' \subseteq Key
    BY <1>1, <1>3, UntidyKeys DEF PutStart
  <2>3. store' \in [Node -> [Key -> Opt]]
    <3>1. v \in Opt
      BY <1>2
    <3>2. [store EXCEPT ![At[t]][k] = v] \in [Node -> [Key -> Opt]]
      BY <1>2, <3>1
    <3> QED BY <1>2, <2>1, <3>2
  <2> QED BY <1>2, <2>1, <2>2, <2>3, StartsKeepsBook
<1>4. ASSUME GetStart(t, k) PROVE Book'
  <2>1. Starts(t) /\ store' = store /\ UNCHANGED history
    BY <1>1, <1>4, GetStarts
  <2>2. swaps' = swaps /\ erased' = erased /\ untidy' \subseteq Key
    BY <1>1, <2>1 DEF history, TypeOK
  <2> QED BY <1>2, <2>1, <2>2, StartsKeepsBook
<1>5. ASSUME DeleteStart(t, k) PROVE Book'
  <2>1. /\ Starts(t) /\ store' \in [Node -> [Key -> Opt]]
        /\ erased' \subseteq Key /\ swaps' = swaps
    BY <1>1, <1>2, <1>5, DeleteStarts
  <2>2. untidy' \subseteq Key
    BY <1>1, <1>5, UntidyKeys DEF DeleteStart
  <2> QED BY <1>2, <2>1, <2>2, StartsKeepsBook
<1>6. ASSUME NEW old \in Opt, NEW new \in Value, CasStart(t, k, old, new) PROVE Book'
  <2>1. /\ Starts(t) /\ erased' = erased
        /\ \/ /\ store' = [store EXCEPT ![At[t]][k] = new]
              /\ swaps' = [swaps EXCEPT ![k] = IF old = Nil THEN @ \cup {<<made + 1, At[t]>>} ELSE @]
           \/ UNCHANGED <<store, swaps>>
    BY <1>1, <1>6, CasStarts
  <2>2. untidy' \subseteq Key
    BY <1>1, <1>6, UntidyKeys DEF CasStart
  <2>3. store' \in [Node -> [Key -> Opt]]
    BY <1>2, <2>1
  <2>4. <<made + 1, At[t]>> \in ReqId
    <3>1. made + 1 \in 1 .. MaxCalls
      BY <1>1, <2>1, DBConstants DEF Starts, TypeOK
    <3> QED BY <1>2, <3>1 DEF ReqId
  <2>5. swaps' \in [Key -> SUBSET ReqId]
    BY <1>1, <1>2, <2>1, <2>4, SwapTyped
  <2> QED BY <1>2, <2>1, <2>2, <2>3, <2>5, StartsKeepsBook
<1> QED BY <1>3, <1>4, <1>5, <1>6

\* A call goes on or ends, perhaps with one more swap.
LEMMA GoesKeepsBook ==
    ASSUME Book, NEW t \in Thread, call[t] # Idle, NEW left \in SUBSET Node,
           Goes(t, left), left \subseteq ToCome(call[t]),
           UNCHANGED <<store, nodeVars, made, mode, fate, erased, untidy>>,
           net' \subseteq net,
           pending' \in [Node -> SUBSET ReqId],
           \A n \in Node : pending'[n] \subseteq pending[n] \cup {<<call[t].number, call[t].to>>},
           call[t].to \notin left \/ \A n \in Node : pending'[n] \subseteq pending[n],
           got' \in [Thread -> [id : ReqId, result : Outcome] \cup {Idle}],
           swaps' \in [Key -> SUBSET ReqId]
    PROVE  Book'
<1>1. TypeOK
  BY DEF Book
<1>2. call' \in [Thread -> Call \cup {Idle}]
  BY <1>1 DEF TypeOK, Goes
<1>3. TypeOK'
  BY <1>1, <1>2 DEF TypeOK, nodeVars
<1> QED BY <1>3, GoesBook

LEMMA ReplicateKeepsBook ==
    ASSUME Book, NEW t \in Thread, Replicate(t)
    PROVE  Book'
<1> DEFINE left == ReplicasOf(At[t], call[t].body.key) \ {At[t]}
<1>1. TypeOK /\ BodiesAgree
  BY DEF Book
<1>2. call[t] # Idle /\ call[t].step = "replicate" /\ Goes(t, left)
  BY <1>1, ReplicateGoes
<1>3. left \in SUBSET Node /\ left \subseteq ToCome(call[t])
  BY <1>1, <1>2, DBConstants DEF ReplicasOf, TypeOK, ToCome
<1>4. UNCHANGED <<store, nodeVars, net, pending, made, mode, fate, got, swaps, erased, untidy>>
  BY DEF Replicate, history
<1>5. /\ pending' \in [Node -> SUBSET ReqId]
      /\ got' \in [Thread -> [id : ReqId, result : Outcome] \cup {Idle}]
      /\ swaps' \in [Key -> SUBSET ReqId]
  BY <1>1, <1>4 DEF TypeOK
<1> HIDE DEF left
<1> QED BY <1>2, <1>3, <1>4, <1>5, GoesKeepsBook

LEMMA SendKeepsBook ==
    ASSUME Book, NEW t \in Thread, Send(t)
    PROVE  Book'
<1> DEFINE i == <<call[t].number, call[t].to>>
           n == At[t]
           d == [call[t] EXCEPT !.step = "wait"]
           request == [kind |-> "request", id |-> i, src |-> n, dst |-> call[t].to,
                       body |-> call[t].body, under |-> session[n][call[t].to]]
<1>1. TypeOK
  BY DEF Book
<1>2. /\ call[t] # Idle /\ call[t].step = "send" /\ i \in ReqId /\ n \in Node
      /\ \/ /\ pending' = [pending EXCEPT ![n] = @ \cup {i}]
            /\ net' = net \cup {request} /\ request \in Request
            /\ fate' = [fate EXCEPT ![i] = "sent"]
            /\ call' = [call EXCEPT ![t] = d]
            /\ d \in Call /\ d # Idle /\ d.number = call[t].number /\ d.body = call[t].body
            /\ d.to = call[t].to /\ d.rest = call[t].rest /\ d.step = "wait"
            /\ d.copying = call[t].copying
         \/ /\ pending' = [pending EXCEPT ![n] = @ \cup {i}] \/ pending' = pending
            /\ Goes(t, call[t].rest)
            /\ UNCHANGED <<net, fate>>
      /\ UNCHANGED <<store, nodeVars, made, mode, got, swaps, erased, untidy>>
  BY <1>1, SendFacts
<1>3. /\ request.kind = "request" /\ request.id = i /\ request.dst = call[t].to
      /\ request.body = call[t].body
  OBVIOUS
<1>4. /\ pending' = [pending EXCEPT ![n] = @ \cup {i}] \/ pending' = pending
      /\ pending' \in [Node -> SUBSET ReqId]
      /\ \A o \in Node : pending'[o] \subseteq pending[o] \cup {i}
  <2>1. i \in ReqId /\ n \in Node /\ pending \in [Node -> SUBSET ReqId]
    BY <1>1, <1>2 DEF TypeOK
  <2>2. pending' = [pending EXCEPT ![n] = @ \cup {i}] \/ pending' = pending
    BY <1>2
  <2> HIDE DEF i, n, d, request
  <2> QED BY <2>1, <2>2
<1>5. t \in Busy /\ call[t] \in Call
  BY <1>1, <1>2 DEF Busy, TypeOK
<1>6. CASE Goes(t, call[t].rest) /\ UNCHANGED <<net, fate>>
  <2>1. call[t].to \notin call[t].rest
    BY <1>5 DEF Book, NextAreUntouched
  <2>2. call[t].rest \in SUBSET Node /\ call[t].rest \subseteq ToCome(call[t])
    BY <1>2, <1>5 DEF Call, ToCome
  <2>3. /\ got' \in [Thread -> [id : ReqId, result : Outcome] \cup {Idle}]
        /\ swaps' \in [Key -> SUBSET ReqId]
    BY <1>1, <1>2 DEF TypeOK
  <2> HIDE DEF d, request
  <2> QED BY <1>2, <1>4, <1>6, <2>1, <2>2, <2>3, GoesKeepsBook
<1>7. CASE /\ pending' = [pending EXCEPT ![n] = @ \cup {i}]
           /\ net' = net \cup {request} /\ request \in Request
           /\ fate' = [fate EXCEPT ![i] = "sent"]
           /\ call' = [call EXCEPT ![t] = d]
           /\ d \in Call /\ d # Idle /\ d.number = call[t].number /\ d.body = call[t].body
           /\ d.to = call[t].to /\ d.rest = call[t].rest /\ d.step = "wait"
           /\ d.copying = call[t].copying
  <2> HIDE DEF d, request
  <2>3. net' \subseteq Request \cup Answer
    BY <1>1, <1>7 DEF TypeOK
  <2>4. fate' \in [ReqId -> Outcome \cup {"unsent", "sent"}]
    <3> HIDE DEF i
    <3> QED BY <1>1, <1>7 DEF TypeOK
  <2>5. call' \in [Thread -> Call \cup {Idle}]
    BY <1>1, <1>7 DEF TypeOK
  <2>6. TypeOK'
    BY <1>1, <1>2, <1>4, <2>3, <2>4, <2>5 DEF TypeOK, nodeVars
  <2> QED BY <1>2, <1>3, <1>7, <2>6, SentBook
<1> QED BY <1>2, <1>6, <1>7

LEMMA ResumeKeepsBook ==
    ASSUME Book, NEW t \in Thread, call[t] # Idle, call[t].step = "wait",
           NEW result \in Outcome, Resume(t, result),
           net' \subseteq net, pending' \in [Node -> SUBSET ReqId],
           \A n \in Node : pending'[n] \subseteq pending[n],
           UNCHANGED <<store, nodeVars, made, mode, fate, erased, untidy>>
    PROVE  Book'
<1> DEFINE i == <<call[t].number, call[t].to>>
<1>1. TypeOK /\ BodiesAgree
  BY DEF Book
<1>2. /\ Goes(t, call[t].rest)
      /\ got' = [got EXCEPT ![t] = [id |-> i, result |-> result]] /\ i \in ReqId
      /\ \/ swaps' = swaps
         \/ /\ call[t].body.key \in Key
            /\ swaps' = [swaps EXCEPT ![call[t].body.key] =
                            IF call[t].body.expected = Nil THEN @ \cup {i} ELSE @]
  BY <1>1, ResumeFacts
<1>3. call[t].rest \in SUBSET Node /\ call[t].rest \subseteq ToCome(call[t])
  BY <1>1 DEF TypeOK, Call, ToCome
<1>4. got' \in [Thread -> [id : ReqId, result : Outcome] \cup {Idle}]
  <2> HIDE DEF i
  <2>1. [id |-> i, result |-> result] \in [id : ReqId, result : Outcome]
    BY <1>2
  <2> QED BY <1>1, <1>2, <2>1 DEF TypeOK
<1>5. swaps' \in [Key -> SUBSET ReqId]
  <2> HIDE DEF i
  <2>1. swaps \in [Key -> SUBSET ReqId]
    BY <1>1 DEF TypeOK
  <2> QED BY <1>1, <1>2, <2>1, SwapTyped
<1>6. \A n \in Node : pending'[n] \subseteq pending[n] \cup {i}
  OBVIOUS
<1> HIDE DEF i
<1> QED BY <1>2, <1>3, <1>4, <1>5, <1>6, GoesKeepsBook DEF i

LEMMA TimeoutKeepsBook ==
    ASSUME Book, NEW t \in Thread, Timeout(t)
    PROVE  Book'
<1>1. TypeOK /\ At[t] \in Node
  BY DBConstants DEF Book
<1>2. /\ call[t] # Idle /\ call[t].step = "wait" /\ Resume(t, Nil) /\ Nil \in Outcome
      /\ pending' = [pending EXCEPT ![At[t]] = @ \ {<<call[t].number, call[t].to>>}]
      /\ UNCHANGED <<store, nodeVars, net, made, mode, fate, erased, untidy>>
  BY DEF Timeout, Outcome
<1>3. pending' \in [Node -> SUBSET ReqId] /\ \A n \in Node : pending'[n] \subseteq pending[n]
  BY <1>1, <1>2 DEF TypeOK
<1> QED BY <1>2, <1>3, ResumeKeepsBook

\* A step that keeps the calls and swaps, and takes no part in the book.
LEMMA QuietKeepsBook ==
    ASSUME Book, TypeOK', UNCHANGED <<call, made, swaps, fate, erased>>, net' \subseteq net,
           \A n \in Node : pending'[n] \subseteq pending[n]
    PROVE  Book'
BY QuietBook

LEMMA AnswerKeepsBook ==
    ASSUME Book, NEW m \in net, HandleAnswer(m)
    PROVE  Book'
<1>1. TypeOK /\ BodiesAgree
  BY DEF Book
<1>2. /\ m \in Answer /\ net' = net \ {m}
      /\ pending' = [pending EXCEPT ![m.dst] = @ \ {m.id}]
      /\ \/ \E t \in Thread : Waiting(t, m.id) /\ Resume(t, m.result)
         \/ UNCHANGED <<call, got, swaps>>
      /\ UNCHANGED <<store, nodeVars, made, mode, fate, erased, untidy>>
  BY <1>1, AnswerFacts
<1>3. pending' \in [Node -> SUBSET ReqId] /\ \A n \in Node : pending'[n] \subseteq pending[n]
  BY <1>1, <1>2 DEF TypeOK, Answer
<1>4. CASE UNCHANGED <<call, got, swaps>>
  <2>1. TypeOK'
    BY <1>1, <1>2, <1>3, <1>4 DEF TypeOK, nodeVars
  <2> QED BY <1>2, <1>3, <1>4, <2>1, QuietKeepsBook
<1>5. ASSUME NEW t \in Thread, Waiting(t, m.id), Resume(t, m.result) PROVE Book'
  <2>1. call[t] # Idle /\ call[t].step = "wait" /\ m.result \in Outcome
    BY <1>2, <1>5 DEF Waiting, Answer
  <2> QED BY <1>2, <1>3, <1>5, <2>1, ResumeKeepsBook
<1> QED BY <1>2, <1>4, <1>5

LEMMA RequestKeepsBook ==
    ASSUME Book, NEW m \in net, HandleRequest(m)
    PROVE  Book'
<1> DEFINE k == m.body.key
           n == m.dst
           result == ResultOf(n, m.body)
<1>1. TypeOK
  BY DEF Book
<1>2. /\ m \in Request /\ k \in Key /\ n \in Node
      /\ result \in Outcome
      /\ \/ m.body.op = "PUT" /\ store' = [store EXCEPT ![n][k] = m.body.value]
         \/ m.body.op = "GET" /\ store' = store
         \/ m.body.op = "DELETE" /\ store' = [store EXCEPT ![n][k] = Nil]
         \/ m.body.op = "CAS" /\ store' = [store EXCEPT ![n][k] = m.body.value]
         \/ m.body.op = "CAS" /\ store' = store
      /\ \E A \in SUBSET Answer :
            /\ net' = (net \ {m}) \cup A
            /\ \A a \in A : a.id = m.id /\ a.result = result
      /\ fate' = [fate EXCEPT ![m.id] = result]
      /\ UNCHANGED <<nodeVars, pending, call, made, mode, got, swaps, erased, untidy>>
  BY <1>1, RequestFacts
<1>3. m \in Requests /\ m.id \in ReqId /\ m.body \in Body
  BY <1>2 DEF Requests, Request
<1>4. /\ \A v \in Opt : [store EXCEPT ![n][k] = v] \in [Node -> [Key -> Opt]]
      /\ store \in [Node -> [Key -> Opt]] /\ m.body.value \in Opt /\ Nil \in Opt
  <2> HIDE DEF n, k
  <2> QED BY <1>1, <1>2, <1>3 DEF TypeOK, Body, Opt
<1> HIDE DEF n, k, result
<1>5. store' \in [Node -> [Key -> Opt]]
  BY <1>2, <1>4
<1>6. net' \subseteq Request \cup Answer
  BY <1>1, <1>2 DEF TypeOK
<1>7. fate' \in [ReqId -> Outcome \cup {"unsent", "sent"}]
  BY <1>1, <1>2, <1>3 DEF TypeOK
<1>8. TypeOK'
  BY <1>1, <1>2, <1>5, <1>6, <1>7 DEF TypeOK, nodeVars
<1> QED BY <1>2, <1>3, <1>8, RequestBook

\* What the network and the relay do by themselves.
LEMMA RelayKeepsBook ==
    ASSUME Book,
           \/ \E m \in net : Unreadable(m) \/ Lose(m)
           \/ \E n, p \in Node : PeerJoined(n, p) \/ PeerLeft(n, p)
           \/ \E n \in Node : SwitchOnline(n)
    PROVE  Book'
<1>1. TypeOK
  BY DEF Book
<1>2. CASE \E m \in net : Unreadable(m) \/ Lose(m)
  <2>1. /\ net' \subseteq net
        /\ UNCHANGED <<store, nodeVars, pending, call, made, mode, history>>
    BY <1>2 DEF Unreadable, Lose
  <2>2. TypeOK'
    BY <1>1, <2>1 DEF TypeOK, nodeVars, history
  <2> QED BY <2>1, <2>2, QuietKeepsBook DEF history
<1>3. ASSUME NEW n \in Node, NEW p \in Node, PeerJoined(n, p) PROVE Book'
  <2>1. /\ known' = [known EXCEPT ![n] = @ \cup {p}]
        /\ session' = [session EXCEPT ![n][p] = "own"]
        /\ UNCHANGED <<store, online, net, pending, call, made, mode, history>>
    BY <1>3 DEF PeerJoined
  <2>2. known' \in [Node -> SUBSET Node] /\ \A o \in Node : o \in known'[o]
    BY <1>1, <2>1 DEF TypeOK
  <2>3. session' \in [Node -> [Node -> SessionKey \cup {"none"}]]
    BY <1>1, <2>1 DEF TypeOK, SessionKey
  <2>4. TypeOK'
    BY <1>1, <2>1, <2>2, <2>3 DEF TypeOK, history
  <2> QED BY <2>1, <2>4, QuietKeepsBook DEF history
<1>4. ASSUME NEW n \in Node, NEW p \in Node, PeerLeft(n, p) PROVE Book'
  <2>1. /\ session' = [session EXCEPT ![n][p] = "none"]
        /\ UNCHANGED <<store, known, online, net, pending, call, made, mode, history>>
    BY <1>4 DEF PeerLeft
  <2>2. session' \in [Node -> [Node -> SessionKey \cup {"none"}]]
    BY <1>1, <2>1 DEF TypeOK, SessionKey
  <2>3. TypeOK'
    BY <1>1, <2>1, <2>2 DEF TypeOK, history
  <2> QED BY <2>1, <2>3, QuietKeepsBook DEF history
<1>5. ASSUME NEW n \in Node, SwitchOnline(n) PROVE Book'
  <2>1. /\ online' = [online EXCEPT ![n] = ~ @]
        /\ UNCHANGED <<store, known, session, net, pending, call, made, mode, history>>
    BY <1>5 DEF SwitchOnline
  <2>2. online' \in [Node -> BOOLEAN]
    BY <1>1, <2>1 DEF TypeOK
  <2>3. TypeOK'
    BY <1>1, <2>1, <2>2 DEF TypeOK, history
  <2> QED BY <2>1, <2>3, QuietKeepsBook DEF history
<1> QED BY <1>2, <1>3, <1>4, <1>5

LEMMA StutterKeepsBook ==
    ASSUME Book, UNCHANGED vars
    PROVE  Book'
<1>1. UNCHANGED <<store, known, session, online, net, pending, call, made, mode, fate, got,
                  swaps, erased, untidy>>
  BY DEF vars, nodeVars, history
<1>2. TypeOK'
  BY <1>1 DEF Book, TypeOK
<1> QED BY <1>1, <1>2, QuietKeepsBook

LEMMA NextKeepsBook == Book /\ [Next]_vars => Book'
<1> SUFFICES ASSUME Book, [Next]_vars PROVE Book'
  OBVIOUS
<1>1. ASSUME NEW t \in Thread, NEW k \in Key,
             \/ \E v \in Value : PutStart(t, k, v)
             \/ GetStart(t, k)
             \/ DeleteStart(t, k)
             \/ \E old \in Opt, new \in Value : CasStart(t, k, old, new)
      PROVE  Book'
  BY <1>1, BeginKeepsBook
<1>2. ASSUME NEW t \in Thread, Work(t) \/ Timeout(t) PROVE Book'
  BY <1>2, ReplicateKeepsBook, SendKeepsBook, TimeoutKeepsBook DEF Work
<1>3. ASSUME NEW m \in net, HandleRequest(m) \/ HandleAnswer(m) PROVE Book'
  BY <1>3, RequestKeepsBook, AnswerKeepsBook
<1>4. ASSUME \/ \E m \in net : Unreadable(m) \/ Lose(m)
             \/ \E n, p \in Node : PeerJoined(n, p) \/ PeerLeft(n, p)
             \/ \E n \in Node : SwitchOnline(n)
      PROVE  Book'
  BY <1>4, RelayKeepsBook
<1>5. CASE UNCHANGED vars
  BY <1>5, StutterKeepsBook
<1> QED BY <1>1, <1>2, <1>3, <1>4, <1>5 DEF Next

\* The state keeps its types, for any nodes, threads and calls: a node never
\* leaves its own ring, and stores and packets hold values, answers and ids of
\* the calls' own kinds only (db.py:376-467).
THEOREM TypeCorrect == Spec => []TypeOK
<1>1. Spec => []Book
  BY BookInit, NextKeepsBook, PTL DEF Spec
<1>2. Book => TypeOK
  BY DEF Book
<1> QED BY <1>1, <1>2, PTL

-----------------------------------------------------------------------------
(* Futures and answers *)

\* A thread waits for the request of its own call, and no other does.
LEMMA OneWaits ==
    ASSUME NumbersDistinct, NEW t \in Thread, NEW u \in Thread, NEW i,
           Waiting(t, i), Waiting(u, i)
    PROVE  t = u
BY DEF NumbersDistinct, Waiting, Busy

\* When one thread's call changes, the futures that are kept are waited for.
LEMMA StillWaited ==
    ASSUME TypeOK, PendingIsWaited, NEW t \in Thread,
           \A u \in Thread \ {t} : call'[u] = call[u],
           \A n \in Node : \A i \in pending'[n] : fate'[i] # "unsent" =>
              \/ i \in pending[n] /\ fate[i] # "unsent" /\ ~Waiting(t, i)
              \/ i \in pending[n] /\ fate[i] # "unsent" /\ call'[t] = call[t]
              \/ At[t] = n /\ (Waiting(t, i))'
    PROVE  PendingIsWaited'
<1> SUFFICES ASSUME NEW n \in Node, NEW i \in pending'[n], fate'[i] # "unsent"
             PROVE  \E u \in Thread : At[u] = n /\ (Waiting(u, i))'
  BY DEF PendingIsWaited
<1>1. CASE At[t] = n /\ (Waiting(t, i))'
  BY <1>1
<1>2. CASE i \in pending[n] /\ fate[i] # "unsent" /\ (~Waiting(t, i) \/ call'[t] = call[t])
  <2>1. PICK u \in Thread : At[u] = n /\ Waiting(u, i)
    BY <1>2 DEF PendingIsWaited
  <2>2. call'[u] = call[u]
    BY <1>2, <2>1
  <2> QED BY <2>1, <2>2 DEF Waiting
<1> QED BY <1>1, <1>2

\* A thread whose call goes on does not wait for what it waited for.
LEMMA GoesOn ==
    ASSUME TypeOK, NEW t \in Thread, NEW left, Goes(t, left)
    PROVE  \A u \in Thread \ {t} : call'[u] = call[u]
BY DEF Goes, TypeOK

LEMMA BeginWaited ==
    ASSUME TypeOK, PendingIsWaited, NEW t \in Thread, Starts(t)
    PROVE  PendingIsWaited'
<1>1. UNCHANGED <<pending, fate>> /\ call[t] = Idle
  BY DEF Starts
<1>2. \A u \in Thread \ {t} : call'[u] = call[u]
  BY DEF Starts, TypeOK
<1>3. \A i : ~Waiting(t, i)
  BY <1>1 DEF Waiting
<1> QED BY <1>1, <1>2, <1>3, StillWaited

LEMMA ReplicateWaited ==
    ASSUME Book, PendingIsWaited, NEW t \in Thread, Replicate(t)
    PROVE  PendingIsWaited'
<1>1. TypeOK /\ BodiesAgree
  BY DEF Book
<1>2. /\ call[t].step = "replicate" /\ UNCHANGED <<pending, fate>>
      /\ \A u \in Thread \ {t} : call'[u] = call[u]
  BY <1>1, ReplicateGoes, GoesOn DEF Replicate, history
<1>3. \A i : ~Waiting(t, i)
  BY <1>2 DEF Waiting
<1> QED BY <1>1, <1>2, <1>3, StillWaited

LEMMA SendWaited ==
    ASSUME Book, PendingIsWaited, NEW t \in Thread, Send(t)
    PROVE  PendingIsWaited'
<1> DEFINE i == <<call[t].number, call[t].to>>
           n == At[t]
           d == [call[t] EXCEPT !.step = "wait"]
<1>1. TypeOK
  BY DEF Book
<1>2. /\ call[t] # Idle /\ call[t].step = "send" /\ i \in ReqId /\ n \in Node
      /\ \/ /\ pending' = [pending EXCEPT ![n] = @ \cup {i}]
            /\ fate' = [fate EXCEPT ![i] = "sent"]
            /\ call' = [call EXCEPT ![t] = d]
            /\ d \in Call /\ d # Idle /\ d.number = call[t].number
            /\ d.to = call[t].to /\ d.step = "wait"
         \/ /\ pending' = [pending EXCEPT ![n] = @ \cup {i}] \/ pending' = pending
            /\ Goes(t, call[t].rest)
            /\ UNCHANGED fate
  BY <1>1, SendFacts
<1>3. Untouched(i)
  BY <1>2 DEF Book, NextAreUntouched, Busy, ToCome
<1>4. \A j : ~Waiting(t, j)
  BY <1>2 DEF Waiting
<1> HIDE DEF d
<1>5. CASE /\ pending' = [pending EXCEPT ![n] = @ \cup {i}]
           /\ fate' = [fate EXCEPT ![i] = "sent"]
           /\ call' = [call EXCEPT ![t] = d]
           /\ d \in Call /\ d # Idle /\ d.number = call[t].number
           /\ d.to = call[t].to /\ d.step = "wait"
  <2>1. /\ \A u \in Thread \ {t} : call'[u] = call[u]
        /\ call'[t] = d
    BY <1>1, <1>5 DEF TypeOK
  <2>2. ASSUME NEW j \in ReqId, j = i PROVE (Waiting(t, j))'
    BY <1>5, <2>1, <2>2 DEF Waiting
  <2>3. ASSUME NEW o \in Node, NEW j \in pending'[o], fate'[j] # "unsent"
        PROVE  \/ j \in pending[o] /\ fate[j] # "unsent" /\ ~Waiting(t, j)
               \/ At[t] = o /\ (Waiting(t, j))'
    <3>1. CASE j = i
      <4>1. o = n
        BY <1>1, <1>3, <1>5, <3>1 DEF Untouched, TypeOK
      <4> QED BY <1>2, <2>2, <3>1, <4>1
    <3>2. CASE j # i
      <4>1. j \in pending[o]
        BY <1>1, <1>5, <3>2 DEF TypeOK
      <4>2. fate'[j] = fate[j]
        BY <1>1, <1>5, <3>2, <4>1 DEF TypeOK
      <4> QED BY <1>4, <2>3, <4>1, <4>2
    <3> QED BY <3>1, <3>2
  <2> HIDE DEF n, i
  <2> QED BY <1>1, <2>1, <2>3, StillWaited
<1>6. CASE /\ pending' = [pending EXCEPT ![n] = @ \cup {i}] \/ pending' = pending
           /\ Goes(t, call[t].rest)
           /\ UNCHANGED fate
  <2>1. ASSUME NEW o \in Node, NEW j \in pending'[o], fate'[j] # "unsent"
        PROVE  j \in pending[o] /\ fate[j] # "unsent" /\ ~Waiting(t, j)
    <3>1. j # i
      BY <1>3, <1>6, <2>1 DEF Untouched
    <3>2. j \in pending[o]
      BY <1>1, <1>6, <2>1, <3>1 DEF TypeOK
    <3> QED BY <1>4, <1>6, <2>1, <3>2
  <2>2. \A u \in Thread \ {t} : call'[u] = call[u]
    BY <1>1, <1>6, GoesOn
  <2> HIDE DEF n, i
  <2> QED BY <1>1, <2>1, <2>2, StillWaited
<1> QED BY <1>2, <1>5, <1>6

\* The future of a thread that resumes is gone with it.
LEMMA ResumeWaited ==
    ASSUME Book, PendingIsWaited, NEW t \in Thread, NEW n \in Node, NEW i \in ReqId,
           Waiting(t, i), NEW result \in Outcome, Resume(t, result),
           n = At[t] \/ (i \in pending[n] /\ fate[i] # "unsent"),
           pending' = [pending EXCEPT ![n] = @ \ {i}], UNCHANGED fate
    PROVE  PendingIsWaited'
<1>1. TypeOK /\ BodiesAgree /\ NumbersDistinct
  BY DEF Book
<1>2. \A u \in Thread \ {t} : call'[u] = call[u]
  BY <1>1, ResumeFacts, GoesOn DEF Waiting
<1>3. ASSUME NEW o \in Node, i \in pending[o], fate[i] # "unsent" PROVE At[t] = o
  <2>1. PICK u \in Thread : At[u] = o /\ Waiting(u, i)
    BY <1>3 DEF PendingIsWaited
  <2> QED BY <1>1, <2>1, OneWaits
<1>4. n = At[t]
  BY <1>3
<1>5. ASSUME NEW o \in Node, NEW j \in pending'[o], fate'[j] # "unsent"
      PROVE  j \in pending[o] /\ fate[j] # "unsent" /\ ~Waiting(t, j)
  <2>1. j \in pending[o] /\ fate[j] # "unsent"
    BY <1>1, <1>5 DEF TypeOK
  <2>2. j # i
    BY <1>1, <1>3, <1>4, <1>5, <2>1 DEF TypeOK
  <2> QED BY <2>1, <2>2 DEF Waiting
<1> QED BY <1>1, <1>2, <1>5, StillWaited

LEMMA NextWaited == Book /\ PendingIsWaited /\ [Next]_vars => PendingIsWaited'
<1> SUFFICES ASSUME Book, PendingIsWaited, [Next]_vars PROVE PendingIsWaited'
  OBVIOUS
<1> USE DEF Book
<1>1. ASSUME NEW t \in Thread, NEW k \in Key,
             \/ \E v \in Value : PutStart(t, k, v)
             \/ GetStart(t, k)
             \/ DeleteStart(t, k)
             \/ \E old \in Opt, new \in Value : CasStart(t, k, old, new)
      PROVE  PendingIsWaited'
  <2>1. Starts(t)
    BY <1>1, PutStarts, GetStarts, DeleteStarts, CasStarts
  <2> QED BY <2>1, BeginWaited
<1>2. ASSUME NEW t \in Thread, Work(t) PROVE PendingIsWaited'
  BY <1>2, ReplicateWaited, SendWaited DEF Work
<1>3. ASSUME NEW t \in Thread, Timeout(t) PROVE PendingIsWaited'
  <2> DEFINE i == <<call[t].number, call[t].to>>
  <2>1. /\ Resume(t, Nil) /\ Nil \in Outcome /\ UNCHANGED fate /\ At[t] \in Node
        /\ pending' = [pending EXCEPT ![At[t]] = @ \ {i}]
        /\ call[t] # Idle /\ call[t].step = "wait"
    BY <1>3, DBConstants DEF Timeout, Outcome
  <2>2. Waiting(t, i) /\ i \in ReqId
    BY <2>1, ResumeFacts DEF Waiting
  <2> HIDE DEF i
  <2> QED BY <2>1, <2>2, ResumeWaited
<1>4. ASSUME NEW m \in net, HandleAnswer(m) PROVE PendingIsWaited'
  <2>1. /\ m \in Answer /\ pending' = [pending EXCEPT ![m.dst] = @ \ {m.id}]
        /\ \/ /\ m.id \in pending[m.dst]
              /\ \E t \in Thread : Waiting(t, m.id) /\ Resume(t, m.result)
           \/ m.id \notin pending[m.dst] /\ UNCHANGED <<call, got, swaps>>
        /\ UNCHANGED fate
    BY <1>4, AnswerFacts
  <2>2. m \in Answers /\ m.dst \in Node /\ m.id \in ReqId /\ m.result \in Outcome
    BY <2>1 DEF Answers, Answer
  <2>3. fate[m.id] # "unsent"
    BY <2>2, PacketFacts DEF AnswersAreTrue
  <2>4. CASE m.id \notin pending[m.dst] /\ UNCHANGED <<call, got, swaps>>
    <3>1. pending' = pending
      BY <2>1, <2>2, <2>4 DEF TypeOK
    <3> QED BY <2>1, <2>4, <3>1 DEF PendingIsWaited, Waiting
  <2>5. ASSUME NEW t \in Thread, m.id \in pending[m.dst], Waiting(t, m.id), Resume(t, m.result)
        PROVE  PendingIsWaited'
    BY <2>1, <2>2, <2>3, <2>5, ResumeWaited
  <2> QED BY <2>1, <2>4, <2>5
<1>5. ASSUME NEW m \in net, HandleRequest(m) PROVE PendingIsWaited'
  <2>1. /\ m \in Request /\ fate' = [fate EXCEPT ![m.id] = ResultOf(m.dst, m.body)]
        /\ UNCHANGED <<pending, call>>
    BY <1>5, RequestFacts
  <2>2. m \in Requests /\ fate[m.id] = "sent"
    BY <2>1 DEF Requests, RequestsAreSent, Request
  <2>3. \A i \in ReqId : fate'[i] # "unsent" => fate[i] # "unsent"
    BY <2>1, <2>2 DEF TypeOK
  <2> QED BY <2>1, <2>3 DEF PendingIsWaited, Waiting, TypeOK
<1>6. ASSUME \/ \E m \in net : Unreadable(m) \/ Lose(m)
             \/ \E n, p \in Node : PeerJoined(n, p) \/ PeerLeft(n, p)
             \/ \E n \in Node : SwitchOnline(n)
             \/ UNCHANGED vars
      PROVE  PendingIsWaited'
  <2>1. UNCHANGED <<pending, call, fate>>
    BY <1>6 DEF Unreadable, Lose, PeerJoined, PeerLeft, SwitchOnline, history, vars
  <2> QED BY <2>1 DEF PendingIsWaited, Waiting
<1> QED BY <1>1, <1>2, <1>3, <1>4, <1>5, <1>6 DEF Next

\* At every node, whoever called and whatever was lost, a future is kept for a
\* sent request only while its caller waits (db.py:441-467, 420-424).
THEOREM FuturesAreWaitedFor == Spec => []PendingIsWaited
<1>1. Init => PendingIsWaited
  BY DEF Init, PendingIsWaited
<1>2. Book /\ PendingIsWaited /\ [Next]_vars => Book' /\ PendingIsWaited'
  BY NextKeepsBook, NextWaited
<1> QED BY <1>1, <1>2, BookInit, PTL DEF Spec

LEMMA NextMatch == Book /\ AnswersMatch /\ [Next]_vars => AnswersMatch'
<1> SUFFICES ASSUME Book, AnswersMatch, [Next]_vars PROVE AnswersMatch'
  OBVIOUS
<1> USE DEF Book
<1>1. ASSUME NEW t \in Thread, got[t] # Idle
      PROVE  got[t].id \in ReqId /\ got[t].result \in Outcome
  BY <1>1 DEF TypeOK
<1>2. CASE UNCHANGED <<got, fate>>
  BY <1>2 DEF AnswersMatch
<1>3. ASSUME NEW i \in ReqId, NEW x \in Outcome \cup {"sent"}, fate[i] \in {"unsent", "sent"},
             fate' = [fate EXCEPT ![i] = x], UNCHANGED got
      PROVE  AnswersMatch'
  <2> SUFFICES ASSUME NEW t \in Thread, got[t] # Idle, got[t].result # Nil
               PROVE  fate'[got[t].id] = got[t].result
    BY <1>3 DEF AnswersMatch
  <2>1. fate[got[t].id] = got[t].result /\ got[t].id \in ReqId /\ got[t].result \in Outcome
    BY <1>1 DEF AnswersMatch
  <2>2. got[t].id # i
    BY <1>3, <2>1, FateMarks
  <2> QED BY <1>3, <2>1, <2>2 DEF TypeOK
<1>4. ASSUME NEW t \in Thread, NEW i \in ReqId, NEW result \in Outcome,
             got' = [got EXCEPT ![t] = [id |-> i, result |-> result]],
             result = Nil \/ fate[i] = result, UNCHANGED fate
      PROVE  AnswersMatch'
  BY <1>4 DEF AnswersMatch, TypeOK
<1>5. ASSUME NEW t \in Thread, NEW k \in Key,
             \/ \E v \in Value : PutStart(t, k, v)
             \/ GetStart(t, k)
             \/ DeleteStart(t, k)
             \/ \E old \in Opt, new \in Value : CasStart(t, k, old, new)
      PROVE  AnswersMatch'
  <2>1. Starts(t)
    BY <1>5, PutStarts, GetStarts, DeleteStarts, CasStarts
  <2> QED BY <1>2, <2>1 DEF Starts
<1>6. ASSUME NEW t \in Thread, Replicate(t) PROVE AnswersMatch'
  BY <1>2, <1>6 DEF Replicate, history
<1>7. ASSUME NEW t \in Thread, Send(t) PROVE AnswersMatch'
  <2> DEFINE i == <<call[t].number, call[t].to>>
  <2>1. /\ call[t] # Idle /\ call[t].step = "send" /\ i \in ReqId
        /\ fate' = [fate EXCEPT ![i] = "sent"] \/ UNCHANGED fate
        /\ UNCHANGED got
    BY <1>7, SendFacts
  <2>2. fate[i] = "unsent"
    BY <2>1 DEF NextAreUntouched, Busy, ToCome, Untouched
  <2> HIDE DEF i
  <2> QED BY <1>2, <1>3, <2>1, <2>2
<1>8. ASSUME NEW t \in Thread, Timeout(t) PROVE AnswersMatch'
  <2> DEFINE i == <<call[t].number, call[t].to>>
  <2>1. /\ Resume(t, Nil) /\ Nil \in Outcome /\ UNCHANGED fate
        /\ call[t] # Idle /\ call[t].step = "wait"
    BY <1>8 DEF Timeout, Outcome
  <2>2. got' = [got EXCEPT ![t] = [id |-> i, result |-> Nil]] /\ i \in ReqId
    BY <2>1, ResumeFacts
  <2> HIDE DEF i
  <2> QED BY <1>4, <2>1, <2>2
<1>9. ASSUME NEW m \in net, HandleAnswer(m) PROVE AnswersMatch'
  <2>1. /\ m \in Answer /\ UNCHANGED fate
        /\ \/ \E t \in Thread : Waiting(t, m.id) /\ Resume(t, m.result)
           \/ UNCHANGED got
    BY <1>9, AnswerFacts
  <2>2. m.result \in Outcome /\ fate[m.id] = m.result
    BY <2>1 DEF Answers, Answer, AnswersAreTrue
  <2>3. ASSUME NEW t \in Thread, Waiting(t, m.id), Resume(t, m.result) PROVE AnswersMatch'
    <3>1. call[t] # Idle /\ call[t].step = "wait" /\ m.id = <<call[t].number, call[t].to>>
      BY <2>3 DEF Waiting
    <3>2. got' = [got EXCEPT ![t] = [id |-> m.id, result |-> m.result]] /\ m.id \in ReqId
      BY <2>2, <2>3, <3>1, ResumeFacts
    <3> QED BY <1>4, <2>1, <2>2, <3>2
  <2> QED BY <1>2, <2>1, <2>3
<1>10. ASSUME NEW m \in net, HandleRequest(m) PROVE AnswersMatch'
  <2> DEFINE x == ResultOf(m.dst, m.body)
  <2>1. /\ m \in Request /\ UNCHANGED got
        /\ x \in Outcome /\ fate' = [fate EXCEPT ![m.id] = x]
    BY <1>10, RequestFacts
  <2>2. m.id \in ReqId /\ fate[m.id] = "sent"
    BY <2>1 DEF Requests, RequestsAreSent, Request
  <2>3. PICK i \in ReqId : i = m.id
    BY <2>2
  <2> HIDE DEF x
  <2>4. fate[i] \in {"unsent", "sent"} /\ fate' = [fate EXCEPT ![i] = x]
    BY <2>1, <2>2, <2>3
  <2> QED BY <1>3, <2>1, <2>4
<1>11. ASSUME \/ \E m \in net : Unreadable(m) \/ Lose(m)
              \/ \E n, p \in Node : PeerJoined(n, p) \/ PeerLeft(n, p)
              \/ \E n \in Node : SwitchOnline(n)
              \/ UNCHANGED vars
       PROVE  AnswersMatch'
  <2>1. UNCHANGED <<got, fate>>
    BY <1>11 DEF Unreadable, Lose, PeerJoined, PeerLeft, SwitchOnline, history, vars
  <2> QED BY <1>2, <2>1
<1> QED BY <1>5, <1>6, <1>7, <1>8, <1>9, <1>10, <1>11 DEF Next, Work

\* However many calls race, time out and are answered too late, what a call comes
\* back with is what its own request did (db.py:420-424, 456-467).
THEOREM AnswersAreTheirOwn == Spec => []AnswersMatch
<1>1. Init => AnswersMatch
  BY DEF Init, AnswersMatch
<1>2. Book /\ AnswersMatch /\ [Next]_vars => Book' /\ AnswersMatch'
  BY NextKeepsBook, NextMatch
<1> QED BY <1>1, <1>2, BookInit, PTL DEF Spec

-----------------------------------------------------------------------------
(* Swaps *)

\* A thread that will hear that node n swapped a key without a value for it.
Winning(t, n, k) ==
    /\ call[t] # Idle /\ call[t].step = "wait" /\ call[t].to = n
    /\ call[t].body.op = "CAS" /\ call[t].body.key = k /\ call[t].body.expected = Nil
    /\ fate[<<call[t].number, n>>] = Yes

\* Node n has told some call that it swapped the key from no value.
Told(n, k) == \E i \in swaps[k] : i[2] = n

\* Who has swapped a key from no value at a node, or has yet to hear of it, is
\* alone, and the key has a value at that node since.
Won(n, k) ==
    /\ store[n][k] = Nil => ~Told(n, k) /\ \A t \in Thread : ~Winning(t, n, k)
    /\ \A i, j \in swaps[k] : i[2] = n /\ j[2] = n => i = j
    /\ Told(n, k) => \A t \in Thread : ~Winning(t, n, k)
    /\ \A t, u \in Thread : Winning(t, n, k) /\ Winning(u, n, k) => t = u

SwapsAreWon == \A k \in Key \ erased : \A n \in Node : Won(n, k)

\* None, True and False are three.
LEMMA ThreeAnswers == Yes # No /\ Yes # Nil
<1>1. \A x, y : Cardinality({x, y}) <= 2
  <2>1. ASSUME NEW x, NEW y PROVE Cardinality({x, y}) <= 2
    <3>1. IsFiniteSet({x}) /\ Cardinality({x}) = 1
      BY FS_Singleton
    <3>2. Cardinality({x} \cup {y}) \in {1, 2}
      BY <3>1, FS_AddElement
    <3>3. {x, y} = {x} \cup {y}
      OBVIOUS
    <3> QED BY <3>2, <3>3
  <2> QED BY <2>1
<1>2. Yes = No => {Nil, Yes, No} = {Nil, Yes}
  OBVIOUS
<1>3. Yes = Nil => {Nil, Yes, No} = {Nil, No}
  OBVIOUS
<1>4. Cardinality({Nil, Yes, No}) = 3
  BY DBConstants
<1>5. Yes # No
  <2> SUFFICES ASSUME Yes = No PROVE FALSE
    OBVIOUS
  <2>1. Cardinality({Nil, Yes}) = 3
    BY <1>2, <1>4
  <2>2. Cardinality({Nil, Yes}) <= 2
    BY <1>1
  <2> QED BY <2>1, <2>2
<1>6. Yes # Nil
  <2> SUFFICES ASSUME Yes = Nil PROVE FALSE
    OBVIOUS
  <2>1. Cardinality({Nil, No}) = 3
    BY <1>3, <1>4
  <2>2. Cardinality({Nil, No}) <= 2
    BY <1>1
  <2> QED BY <2>1, <2>2
<1> QED BY <1>5, <1>6

LEMMA WonKept ==
    ASSUME NEW n \in Node, NEW k \in Key, Won(n, k),
           store'[n][k] = Nil => store[n][k] = Nil,
           swaps'[k] = swaps[k],
           \A u \in Thread : Winning(u, n, k)' => Winning(u, n, k)
    PROVE  Won(n, k)'
BY DEF Won, Told

\* A call hears of its swap at a node that had told nobody of one.
LEMMA WonTold ==
    ASSUME NEW n \in Node, NEW k \in Key, NEW i, ~Told(n, k),
           \A a, b \in swaps[k] : a[2] = n /\ b[2] = n => a = b,
           swaps'[k] = swaps[k] \cup {i}, store'[n][k] # Nil,
           \A u \in Thread : ~Winning(u, n, k)'
    PROVE  Won(n, k)'
BY DEF Won, Told

\* What is heard of another node changes nothing for this one.
LEMMA WonElsewhere ==
    ASSUME NEW n \in Node, NEW k \in Key, Won(n, k), NEW i, i[2] # n,
           swaps'[k] = swaps[k] \cup {i}, store'[n][k] = store[n][k],
           \A u \in Thread : Winning(u, n, k)' => Winning(u, n, k)
    PROVE  Won(n, k)'
BY DEF Won, Told

\* A thread whose call goes on wins nothing, and others only as they did.
LEMMA NoNewWinners ==
    ASSUME TypeOK, NEW t \in Thread,
           \A u \in Thread \ {t} : call'[u] = call[u],
           call'[t] # Idle => call'[t].step # "wait",
           fate' = fate
    PROVE  \A u \in Thread : \A n, k : Winning(u, n, k)' => u # t /\ Winning(u, n, k)
BY DEF Winning

LEMMA StartsNoWait ==
    ASSUME TypeOK, NEW t \in Thread, Starts(t)
    PROVE  \A u \in Thread : \A n, k : Winning(u, n, k)' => Winning(u, n, k)
<1>1. /\ \A u \in Thread \ {t} : call'[u] = call[u]
      /\ call'[t] # Idle => call'[t].step # "wait"
      /\ fate' = fate
  BY DEF Starts, TypeOK
<1> QED BY <1>1, NoNewWinners

LEMMA GoesNoWait ==
    ASSUME TypeOK, NEW t \in Thread, NEW left, Goes(t, left), fate' = fate
    PROVE  \A u \in Thread : \A n, k : Winning(u, n, k)' => u # t /\ Winning(u, n, k)
<1>1. /\ \A u \in Thread \ {t} : call'[u] = call[u]
      /\ call'[t] # Idle => call'[t].step # "wait"
  BY DEF Goes, TypeOK
<1> QED BY <1>1, NoNewWinners

\* A key that gets a value where it is, or loses none, stays as it was won.
LEMMA WriteKeepsWon ==
    ASSUME TypeOK, NEW n \in Node, NEW k \in Key, NEW v \in Opt,
           NEW m \in Node, NEW c \in Key, Won(m, c),
           store' = [store EXCEPT ![n][k] = v], v \in Value \/ k # c,
           swaps'[c] = swaps[c],
           \A u \in Thread : Winning(u, m, c)' => Winning(u, m, c)
    PROVE  Won(m, c)'
<1>1. store'[m][c] = Nil => store[m][c] = Nil
  BY DBConstants DEF TypeOK
<1> QED BY <1>1, WonKept

LEMMA BeginWon ==
    ASSUME Book, SwapsAreWon, NEW t \in Thread, NEW k \in Key,
           \/ \E v \in Value : PutStart(t, k, v)
           \/ GetStart(t, k)
           \/ DeleteStart(t, k)
           \/ \E old \in Opt, new \in Value : CasStart(t, k, old, new)
    PROVE  SwapsAreWon'
<1> USE DEF Book
<1>1. At[t] \in Node /\ Value \subseteq Opt /\ Nil \in Opt /\ Nil \notin Value
  BY DBConstants DEF Opt
<1>2. ASSUME NEW v \in Value, PutStart(t, k, v) PROVE SwapsAreWon'
  <2>1. /\ Starts(t)
        /\ store' = store \/ store' = [store EXCEPT ![At[t]][k] = v]
        /\ erased' = erased /\ swaps' = swaps
    BY <1>2, PutStarts
  <2>2. ASSUME NEW c \in Key \ erased, NEW m \in Node PROVE Won(m, c)'
    <3>1. Won(m, c)
      BY DEF SwapsAreWon
    <3>2. \A u \in Thread : Winning(u, m, c)' => Winning(u, m, c)
      BY <2>1, StartsNoWait
    <3>3. CASE store' = store
      BY <2>1, <3>1, <3>2, <3>3, WonKept
    <3>4. CASE store' = [store EXCEPT ![At[t]][k] = v]
      BY <1>1, <2>1, <3>1, <3>2, <3>4, WriteKeepsWon
    <3> QED BY <2>1, <3>3, <3>4
  <2> QED BY <2>1, <2>2 DEF SwapsAreWon
<1>3. ASSUME GetStart(t, k) PROVE SwapsAreWon'
  <2>1. Starts(t) /\ store' = store /\ erased' = erased /\ swaps' = swaps
    BY <1>3, GetStarts DEF history
  <2>2. ASSUME NEW c \in Key \ erased, NEW m \in Node PROVE Won(m, c)'
    <3>1. Won(m, c)
      BY DEF SwapsAreWon
    <3> QED BY <2>1, <3>1, StartsNoWait, WonKept
  <2> QED BY <2>1, <2>2 DEF SwapsAreWon
<1>4. ASSUME DeleteStart(t, k) PROVE SwapsAreWon'
  <2>1. /\ Starts(t)
        /\ store' = [store EXCEPT ![At[t]][k] = Nil]
        /\ erased' = erased \cup {k} /\ swaps' = swaps
    BY <1>4, DeleteStarts
  <2>2. ASSUME NEW c \in Key \ erased', NEW m \in Node PROVE Won(m, c)'
    <3>1. Won(m, c) /\ c # k
      BY <2>1 DEF SwapsAreWon
    <3> QED BY <1>1, <2>1, <3>1, StartsNoWait, WriteKeepsWon
  <2> QED BY <2>2 DEF SwapsAreWon
<1>5. ASSUME NEW old \in Opt, NEW new \in Value, CasStart(t, k, old, new) PROVE SwapsAreWon'
  <2>1. Starts(t) /\ erased' = erased
    BY <1>5, CasStarts
  <2>2. CASE UNCHANGED <<store, swaps>>
    <3>1. ASSUME NEW c \in Key \ erased, NEW m \in Node PROVE Won(m, c)'
      <4>1. Won(m, c)
        BY DEF SwapsAreWon
      <4> QED BY <2>1, <2>2, <4>1, StartsNoWait, WonKept
    <3> QED BY <2>1, <3>1 DEF SwapsAreWon
  <2>3. ASSUME store[At[t]][k] = old, store' = [store EXCEPT ![At[t]][k] = new],
               swaps' = [swaps EXCEPT ![k] = IF old = Nil THEN @ \cup {<<made + 1, At[t]>>} ELSE @]
        PROVE  SwapsAreWon'
    <3>1. ASSUME NEW c \in Key \ erased, NEW m \in Node PROVE Won(m, c)'
      <4>1. Won(m, c) /\ \A u \in Thread : Winning(u, m, c)' => Winning(u, m, c)
        BY <2>1, StartsNoWait DEF SwapsAreWon
      <4>2. CASE swaps'[c] = swaps[c]
        BY <1>1, <2>3, <4>1, <4>2, WriteKeepsWon
      <4>3. CASE swaps'[c] # swaps[c]
        <5>1. c = k /\ old = Nil /\ swaps'[c] = swaps[c] \cup {<<made + 1, At[t]>>}
          BY <2>3, <4>3 DEF TypeOK
        <5>2. CASE m = At[t]
          <6>1. ~Told(m, c) /\ \A u \in Thread : ~Winning(u, m, c)
            BY <2>3, <4>1, <5>1, <5>2 DEF Won
          <6>2. store'[m][c] # Nil
            BY <1>1, <2>3, <5>1, <5>2 DEF TypeOK
          <6>3. \A u \in Thread : ~Winning(u, m, c)'
            BY <4>1, <6>1
          <6>4. \A i, j \in swaps[c] : i[2] = m /\ j[2] = m => i = j
            BY <4>1 DEF Won
          <6>5. PICK i : i = <<made + 1, At[t]>>
            OBVIOUS
          <6>6. swaps'[c] = swaps[c] \cup {i}
            BY <5>1, <6>5
          <6> QED BY ONLY <6>1, <6>2, <6>3, <6>4, <6>6, WonTold, m \in Node, c \in Key
        <5>3. CASE m # At[t]
          <6>1. store'[m][c] = store[m][c]
            BY <2>3, <5>3 DEF TypeOK
          <6> QED BY <4>1, <5>1, <5>3, <6>1, WonElsewhere
        <5> QED BY <5>2, <5>3
      <4> QED BY <4>2, <4>3
    <3> QED BY <2>1, <3>1 DEF SwapsAreWon
  <2> QED BY <1>5, <2>2, <2>3, CasStarts
<1> QED BY <1>2, <1>3, <1>4, <1>5

LEMMA SendWon ==
    ASSUME Book, SwapsAreWon, NEW t \in Thread, Send(t)
    PROVE  SwapsAreWon'
<1> DEFINE i == <<call[t].number, call[t].to>>
           d == [call[t] EXCEPT !.step = "wait"]
<1> USE DEF Book
<1>1. /\ i \in ReqId
      /\ \/ /\ fate' = [fate EXCEPT ![i] = "sent"]
            /\ call' = [call EXCEPT ![t] = d]
            /\ d.number = call[t].number /\ d.to = call[t].to
         \/ Goes(t, call[t].rest) /\ UNCHANGED fate
      /\ UNCHANGED <<store, swaps, erased>>
  BY SendFacts
<1>2. Yes # "sent"
  BY FateMarks DEF Outcome
<1>3. ASSUME NEW u \in Thread, NEW n, NEW k, Winning(u, n, k)' PROVE Winning(u, n, k)
  <2>1. CASE Goes(t, call[t].rest) /\ UNCHANGED fate
    BY <1>3, <2>1, GoesNoWait
  <2>2. CASE /\ fate' = [fate EXCEPT ![i] = "sent"]
             /\ call' = [call EXCEPT ![t] = d]
             /\ d.number = call[t].number /\ d.to = call[t].to
    <3> HIDE DEF d
    <3>1. fate'[i] = "sent" /\ \A j \in ReqId : j # i => fate'[j] = fate[j]
      BY <1>1, <2>2 DEF TypeOK
    <3>2. u # t
      <4>1. call'[t].number = call[t].number /\ call'[t].to = call[t].to
        BY <2>2 DEF TypeOK
      <4>2. <<call'[t].number, call'[t].to>> = i
        BY <4>1
      <4> QED BY <1>2, <1>3, <3>1, <4>2 DEF Winning
    <3>3. call'[u] = call[u]
      BY <2>2, <3>2 DEF TypeOK
    <3>4. <<call[u].number, n>> \in ReqId /\ fate'[<<call[u].number, n>>] = Yes
      BY <1>3, <3>3 DEF Winning, TypeOK, Call, ReqId
    <3>5. fate[<<call[u].number, n>>] = Yes
      BY <1>2, <3>1, <3>4
    <3> QED BY <1>3, <3>3, <3>5 DEF Winning
  <2> QED BY <1>1, <2>1, <2>2
<1>4. ASSUME NEW c \in Key \ erased, NEW m \in Node PROVE Won(m, c)'
  <2>1. Won(m, c)
    BY DEF SwapsAreWon
  <2> QED BY <1>1, <1>3, <2>1, WonKept
<1> QED BY <1>1, <1>4 DEF SwapsAreWon

\* A thread that hears of its swap is the one that won it.
LEMMA ResumeWon ==
    ASSUME Book, SwapsAreWon, NEW t \in Thread, call[t] # Idle, call[t].step = "wait",
           NEW result \in Outcome, Resume(t, result),
           result = Yes => fate[<<call[t].number, call[t].to>>] = Yes,
           UNCHANGED <<store, fate, erased>>
    PROVE  SwapsAreWon'
<1> DEFINE k == call[t].body.key
           i == <<call[t].number, call[t].to>>
<1> USE DEF Book
<1>1. /\ Goes(t, call[t].rest)
      /\ \/ swaps' = swaps
         \/ /\ call[t].body.op = "CAS" /\ result = Yes
            /\ k \in Key
            /\ swaps' = [swaps EXCEPT ![k] = IF call[t].body.expected = Nil THEN @ \cup {i} ELSE @]
  BY ResumeFacts
<1>2. \A u \in Thread : \A n, c : Winning(u, n, c)' => u # t /\ Winning(u, n, c)
  BY <1>1, GoesNoWait
<1>3. ASSUME NEW c \in Key \ erased, NEW m \in Node PROVE Won(m, c)'
  <2>1. Won(m, c)
    BY DEF SwapsAreWon
  <2>2. CASE swaps'[c] = swaps[c]
    BY <1>2, <2>1, <2>2, WonKept
  <2>3. CASE swaps'[c] # swaps[c]
    <3>1. /\ c = k /\ call[t].body.expected = Nil /\ call[t].body.op = "CAS" /\ result = Yes
          /\ swaps'[c] = swaps[c] \cup {i}
      BY <1>1, <2>3 DEF TypeOK
    <3>2. i[2] = call[t].to
      OBVIOUS
    <3>3. CASE m = call[t].to
      <4>1. Winning(t, m, c)
        BY <3>1, <3>3 DEF Winning
      <4>2. ~Told(m, c) /\ store[m][c] # Nil
        BY <2>1, <4>1 DEF Won
      <4>3. \A u \in Thread : ~Winning(u, m, c)'
        BY <1>2, <2>1, <4>1 DEF Won
      <4> HIDE DEF i
      <4> QED BY <2>1, <3>1, <4>2, <4>3, WonTold DEF Won
    <3>4. CASE m # call[t].to
      <4> HIDE DEF i
      <4> QED BY <1>2, <2>1, <3>1, <3>2, <3>4, WonElsewhere
    <3> QED BY <3>3, <3>4
  <2> QED BY <2>2, <2>3
<1> QED BY <1>3 DEF SwapsAreWon

\* Who waits for a request asked for what the request asks for.
LEMMA WaitersAsked ==
    ASSUME Book, NEW m \in Requests, NEW u \in Thread, Waiting(u, m.id)
    PROVE  call[u].body = m.body
<1>1. u \in Busy /\ call[u].number = m.id[1]
  BY DEF Waiting, Busy
<1> QED BY <1>1 DEF Book, BodiesAgree, RequestsSound

LEMMA RequestWon ==
    ASSUME Book, SwapsAreWon, NEW m \in net, HandleRequest(m)
    PROVE  SwapsAreWon'
<1> DEFINE k == m.body.key
           n == m.dst
           result == ResultOf(n, m.body)
<1> USE DEF Book
<1>1. /\ m \in Request /\ k \in Key /\ n \in Node
      /\ \/ m.body.op = "PUT" /\ store' = [store EXCEPT ![n][k] = m.body.value]
         \/ m.body.op = "GET" /\ store' = store
         \/ m.body.op = "DELETE" /\ store' = [store EXCEPT ![n][k] = Nil]
         \/ /\ m.body.op = "CAS" /\ store[n][k] = m.body.expected
            /\ store' = [store EXCEPT ![n][k] = m.body.value]
         \/ m.body.op = "CAS" /\ result = No /\ store' = store
      /\ fate' = [fate EXCEPT ![m.id] = result]
      /\ UNCHANGED <<call, swaps, erased>>
  BY RequestFacts
<1>2. /\ m \in Requests /\ m.id \in ReqId /\ m.body \in Body /\ Sound(m.body)
      /\ m.body.value \in Opt /\ Nil \in Opt
  BY <1>1 DEF Requests, Request, Body, BodiesAgree, RequestsSound, Opt
<1>3. \A j \in ReqId : j # m.id => fate'[j] = fate[j]
  BY <1>1 DEF TypeOK
<1>4. fate'[m.id] = result /\ m.id[2] = n
  BY <1>1, <1>2 DEF TypeOK, RequestsAreSent
<1> HIDE DEF result
\* New winners asked this node for a swap of this key from no value.
<1>5. ASSUME NEW u \in Thread, NEW p \in Node, NEW c \in Key,
             Winning(u, p, c)', ~Winning(u, p, c)
      PROVE  /\ Waiting(u, m.id) /\ p = n /\ c = k /\ m.body.op = "CAS"
             /\ m.body.expected = Nil /\ result = Yes
  <2>1. /\ call[u] # Idle /\ call[u].step = "wait" /\ call[u].to = p
        /\ call[u].body.op = "CAS" /\ call[u].body.key = c /\ call[u].body.expected = Nil
        /\ fate'[<<call[u].number, p>>] = Yes
        /\ fate[<<call[u].number, p>>] # Yes
    BY <1>1, <1>5 DEF Winning
  <2>2. <<call[u].number, p>> \in ReqId
    BY <2>1 DEF TypeOK, Call, ReqId
  <2>3. <<call[u].number, p>> = m.id
    BY <1>3, <2>1, <2>2
  <2>4. Waiting(u, m.id) /\ p = n
    BY <1>4, <2>1, <2>3 DEF Waiting
  <2>5. call[u].body = m.body
    BY <1>2, <2>4, WaitersAsked
  <2> QED BY <1>4, <2>1, <2>3, <2>4, <2>5
<1>6. ASSUME NEW c \in Key \ erased', NEW p \in Node PROVE Won(p, c)'
  <2>1. Won(p, c) /\ c \notin erased
    BY <1>1, <1>6 DEF SwapsAreWon
  <2>2. m.body.value \in Value \/ k # c \/ m.body.op \notin {"PUT", "CAS"}
    BY <1>2 DEF Sound
  <2>3. m.body.op = "DELETE" => k # c
    BY <1>2, <2>1 DEF Sound
  <2>4. CASE \A u \in Thread : Winning(u, p, c)' => Winning(u, p, c)
    <3>1. swaps'[c] = swaps[c]
      BY <1>1
    <3>2. CASE store' = store
      BY <2>1, <2>4, <3>1, <3>2, WonKept
    <3>3. ASSUME NEW v \in Opt, v \in Value \/ k # c, store' = [store EXCEPT ![n][k] = v]
          PROVE  Won(p, c)'
      <4>1. k \in Key /\ n \in Node /\ TypeOK
        BY <1>1
      <4> HIDE DEF k, n
      <4> QED BY <2>1, <2>4, <3>1, <3>3, <4>1, WriteKeepsWon
    <3>4. CASE m.body.op \in {"PUT", "CAS"} /\ store' = [store EXCEPT ![n][k] = m.body.value]
      BY <1>2, <2>2, <3>3, <3>4
    <3>5. CASE m.body.op = "DELETE" /\ store' = [store EXCEPT ![n][k] = Nil]
      BY <1>2, <2>3, <3>3, <3>5
    <3> QED BY <1>1, <3>2, <3>4, <3>5
  <2>5. CASE \E u \in Thread : Winning(u, p, c)' /\ ~Winning(u, p, c)
    <3>1. PICK u \in Thread : Winning(u, p, c)' /\ ~Winning(u, p, c)
      BY <2>5
    <3>2. /\ p = n /\ c = k /\ m.body.op = "CAS" /\ m.body.expected = Nil /\ result = Yes
          /\ Waiting(u, m.id)
      BY <1>5, <3>1
    <3>3. store[n][k] = Nil /\ store' = [store EXCEPT ![n][k] = m.body.value]
      BY <1>1, <3>2, ThreeAnswers
    <3>4. ~Told(p, c) /\ \A w \in Thread : ~Winning(w, p, c)
      BY <2>1, <3>2, <3>3 DEF Won
    <3>5. store'[p][c] # Nil
      <4>1. m.body.value # Nil
        BY <1>2, <3>2, DBConstants DEF Sound
      <4> QED BY <1>1, <3>2, <3>3, <4>1 DEF TypeOK
    <3>6. \A w \in Thread : Winning(w, p, c)' => Waiting(w, m.id)
      BY <1>5, <3>4
    <3>7. \A w, x \in Thread : Winning(w, p, c)' /\ Winning(x, p, c)' => w = x
      BY <3>6, OneWaits
    <3>8. swaps' = swaps
      BY <1>1
    <3> QED BY <2>1, <3>4, <3>5, <3>7, <3>8 DEF Won, Told
  <2> QED BY <2>4, <2>5
<1> QED BY <1>6 DEF SwapsAreWon

LEMMA NextWon == Book /\ SwapsAreWon /\ [Next]_vars => SwapsAreWon'
<1> SUFFICES ASSUME Book, SwapsAreWon, [Next]_vars PROVE SwapsAreWon'
  OBVIOUS
<1>1. TypeOK /\ BodiesAgree /\ AnswersAreTrue
  BY DEF Book
<1>2. ASSUME NEW t \in Thread, Replicate(t) PROVE SwapsAreWon'
  <2>1. /\ Goes(t, ReplicasOf(At[t], call[t].body.key) \ {At[t]})
        /\ UNCHANGED <<store, fate, swaps, erased>>
    BY <1>1, <1>2, ReplicateGoes DEF Replicate, history
  <2>2. ASSUME NEW c \in Key \ erased, NEW m \in Node PROVE Won(m, c)'
    <3>1. Won(m, c) /\ \A u \in Thread : Winning(u, m, c)' => Winning(u, m, c)
      BY <1>1, <2>1, GoesNoWait DEF SwapsAreWon
    <3> QED BY <2>1, <3>1, WonKept
  <2> QED BY <2>1, <2>2 DEF SwapsAreWon
<1>3. ASSUME NEW t \in Thread, Timeout(t) PROVE SwapsAreWon'
  <2>1. /\ Resume(t, Nil) /\ Nil \in Outcome /\ call[t] # Idle /\ call[t].step = "wait"
        /\ UNCHANGED <<store, fate, erased>>
    BY <1>3 DEF Timeout, Outcome
  <2> QED BY <2>1, ThreeAnswers, ResumeWon
<1>4. ASSUME UNCHANGED <<store, call, fate, swaps, erased>> PROVE SwapsAreWon'
  BY <1>4 DEF SwapsAreWon, Won, Told, Winning
<1>5. ASSUME NEW m \in net, HandleAnswer(m) PROVE SwapsAreWon'
  <2>1. /\ m \in Answer
        /\ \/ \E t \in Thread : Waiting(t, m.id) /\ Resume(t, m.result)
           \/ UNCHANGED <<call, swaps>>
        /\ UNCHANGED <<store, fate, erased>>
    BY <1>1, <1>5, AnswerFacts
  <2>2. m.result \in Outcome /\ fate[m.id] = m.result
    BY <1>1, <2>1 DEF Answers, Answer, AnswersAreTrue
  <2>3. ASSUME NEW t \in Thread, Waiting(t, m.id), Resume(t, m.result) PROVE SwapsAreWon'
    BY <2>1, <2>2, <2>3, ResumeWon DEF Waiting
  <2> QED BY <1>4, <2>1, <2>3
<1>6. ASSUME \/ \E m \in net : Unreadable(m) \/ Lose(m)
             \/ \E n, p \in Node : PeerJoined(n, p) \/ PeerLeft(n, p)
             \/ \E n \in Node : SwitchOnline(n)
             \/ UNCHANGED vars
      PROVE  SwapsAreWon'
  <2>1. UNCHANGED <<store, call, fate, swaps, erased>>
    BY <1>6 DEF Unreadable, Lose, PeerJoined, PeerLeft, SwitchOnline, history, vars
  <2> QED BY <1>4, <2>1
<1> QED BY <1>2, <1>3, <1>5, <1>6, BeginWon, SendWon, RequestWon DEF Next, Work

\* However many calls race for a key without a value, wherever they come from, time
\* out or are answered too late, the store of one node tells one of them at most
\* that it swapped, unless the key is deleted (db.py:522-532, 415-418).
THEOREM SwapsAreExclusive == Spec => []CasIsExclusive
<1>1. Init => SwapsAreWon
  BY DEF Init, SwapsAreWon, Won, Told, Winning
<1>2. Book /\ SwapsAreWon /\ [Next]_vars => Book' /\ SwapsAreWon'
  BY NextKeepsBook, NextWon
<1>3. Book /\ SwapsAreWon => CasIsExclusive
  <2> SUFFICES ASSUME Book, SwapsAreWon, NEW k \in Key \ erased,
                      NEW i \in swaps[k], NEW j \in swaps[k], i # j
               PROVE  i[2] # j[2]
    BY DEF CasIsExclusive
  <2>1. i[2] \in Node
    BY DEF Book, TypeOK, ReqId
  <2> QED BY <2>1 DEF SwapsAreWon, Won
<1> QED BY <1>1, <1>2, <1>3, BookInit, PTL DEF Spec

-----------------------------------------------------------------------------
(* Replicas *)

\* On a reliable network rings, sessions and clients stay as they began.
Reliable ==
    mode = "reliable" => /\ known = [n \in Node |-> Node]
                         /\ \A n, p \in Node : session[n][p] = "agreed"
                         /\ \A n \in Node : online[n]

PutOn(t, k) == call[t] # Idle /\ call[t].body.op = "PUT" /\ call[t].body.key = k

\* A call that a replica's copy is still to come of, or under way.
Ahead(t, r) ==
    \/ r \in ToCome(call[t])
    \/ /\ call[t].step = "wait" /\ call[t].to = r
       /\ fate[<<call[t].number, r>>] = "sent"

Unlike(k) == {r \in ReplicasOf(Home(k), k) : store[r][k] # store[Home(k)][k]}

\* Puts of a tidy key copy what its owner holds, and a replica that holds another
\* value is ahead of one.
Tidy(k) ==
    /\ \A t \in Thread : call[t] # Idle /\ call[t].body.key = k =>
          call[t].body.op \in {"PUT", "GET"}
    /\ \A t \in Thread : PutOn(t, k) =>
          At[t] = Home(k) /\ call[t].copying /\ call[t].body.value = store[Home(k)][k]
    /\ \A m \in Requests : m.body.key = k => m.body.op \in {"PUT", "GET"}
    /\ \A m \in Requests : m.body.key = k /\ m.body.op = "PUT" =>
          /\ m.body.value = store[Home(k)][k]
          /\ \E t \in Thread : PutOn(t, k) /\ Waiting(t, m.id)
    /\ \A r \in Unlike(k) : \E t \in Thread : PutOn(t, k) /\ Ahead(t, r)

TidyKeys == mode = "reliable" => \A k \in Key \ (untidy \cup erased) : Tidy(k)

LEMMA HomeExists == \A k \in Key : Home(k) \in Node
BY NearestIsOne, DBConstants DEF Home

\* A step that does nothing to a key's puts, nor to what it is stored as.
LEMMA TidyElsewhere ==
    ASSUME NEW k \in Key, Tidy(k),
           \A u \in Thread : PutOn(u, k) => call'[u] = call[u],
           \A u \in Thread : call'[u] = call[u] \/ call'[u] = Idle \/ call'[u].body.key # k
                             \/ call'[u].body.op = "GET",
           \A m \in Requests' : m \in Requests \/ m.body.key # k \/ m.body.op = "GET",
           \A n \in Node : store'[n][k] = store[n][k],
           \A u \in Thread : \A i \in ReqId :
              PutOn(u, k) /\ Waiting(u, i) /\ fate[i] = "sent" => fate'[i] = "sent",
           known' = known, TypeOK
    PROVE  Tidy(k)'
<1>1. Home(k) \in Node
  BY HomeExists
<1>2. \A u \in Thread : (PutOn(u, k))' <=> PutOn(u, k)
  BY DEF PutOn
<1>3. Unlike(k)' = Unlike(k)
  <2>1. ReplicasOf(Home(k), k) \subseteq Node
    BY <1>1 DEF ReplicasOf, TypeOK
  <2> QED BY <1>1, <2>1 DEF Unlike, ReplicasOf, Home
<1>4. ASSUME NEW u \in Thread, PutOn(u, k), NEW r \in Node, Ahead(u, r)
      PROVE  (Ahead(u, r))'
  <2>1. call'[u] = call[u]
    BY <1>4
  <2>2. CASE r \in ToCome(call[u])
    BY <2>1, <2>2 DEF Ahead, ToCome
  <2>3. CASE call[u].step = "wait" /\ call[u].to = r /\ fate[<<call[u].number, r>>] = "sent"
    <3>1. <<call[u].number, r>> \in ReqId /\ Waiting(u, <<call[u].number, r>>)
      BY <1>4, <2>3 DEF PutOn, TypeOK, Call, ReqId, Waiting
    <3>2. fate'[<<call[u].number, r>>] = "sent"
      BY <1>4, <2>3, <3>1
    <3> QED BY <2>1, <2>3, <3>2 DEF Ahead
  <2> QED BY <1>4, <2>2, <2>3 DEF Ahead
<1>5. (\A t \in Thread : call[t] # Idle /\ call[t].body.key = k =>
          call[t].body.op \in {"PUT", "GET"})'
  BY DEF Tidy
<1>6. (\A t \in Thread : PutOn(t, k) =>
          At[t] = Home(k) /\ call[t].copying /\ call[t].body.value = store[Home(k)][k])'
  BY <1>1, <1>2 DEF Tidy, Home
<1>7. ASSUME NEW m \in Requests'
      PROVE  (/\ m.body.key = k => m.body.op \in {"PUT", "GET"}
              /\ m.body.key = k /\ m.body.op = "PUT" =>
                    /\ m.body.value = store[Home(k)][k]
                    /\ \E t \in Thread : PutOn(t, k) /\ Waiting(t, m.id))'
  <2>1. CASE m.body.key = k /\ m.body.op = "PUT"
    <3>1. m \in Requests
      BY <1>7, <2>1
    <3>2. /\ m.body.value = store[Home(k)][k]
          /\ \E t \in Thread : PutOn(t, k) /\ Waiting(t, m.id)
      BY <2>1, <3>1 DEF Tidy
    <3>3. m.body.value = store'[Home(k)][k]
      BY <1>1, <3>2
    <3>4. \E t \in Thread : (PutOn(t, k) /\ Waiting(t, m.id))'
      BY <1>2, <3>2 DEF Waiting
    <3> QED BY <2>1, <3>3, <3>4 DEF Home
  <2>2. CASE m.body.key # k \/ m.body.op # "PUT"
    BY <1>7, <2>2 DEF Tidy
  <2> QED BY <2>1, <2>2
<1>8. (\A r \in Unlike(k) : \E t \in Thread : PutOn(t, k) /\ Ahead(t, r))'
  <2>1. Unlike(k) \subseteq Node
    BY <1>1 DEF Unlike, ReplicasOf, TypeOK
  <2>2. ASSUME NEW r \in Unlike(k)' PROVE \E t \in Thread : (PutOn(t, k) /\ Ahead(t, r))'
    <3>1. PICK t \in Thread : PutOn(t, k) /\ Ahead(t, r)
      BY <1>3, <2>2 DEF Tidy
    <3>2. (PutOn(t, k) /\ Ahead(t, r))'
      BY <1>2, <1>3, <1>4, <2>1, <2>2, <3>1
    <3> QED BY <3>2
  <2> QED BY <2>2
<1> QED BY <1>5, <1>6, <1>7, <1>8 DEF Tidy

\* A put goes on to the replicas that are left.
LEMMA TidyGoes ==
    ASSUME TypeOK, NEW k \in Key, Tidy(k), NEW t \in Thread, PutOn(t, k),
           NEW left \in SUBSET Node, Goes(t, left),
           UNCHANGED <<store, known, fate>>, Requests' \subseteq Requests,
           \A m \in Requests' : ~Waiting(t, m.id),
           \A r \in ReplicasOf(Home(k), k) : Ahead(t, r) => r \in left \/ r = Home(k)
    PROVE  Tidy(k)'
<1>1. PICK d \in Call \cup {Idle} :
         /\ call' = [call EXCEPT ![t] = d]
         /\ d # Idle => /\ d.number = call[t].number /\ d.body = call[t].body
                        /\ d.step = "send" /\ d.copying /\ call[t].copying
                        /\ d.to \in left /\ d.rest = left \ {d.to}
         /\ d = Idle => left = {} \/ ~call[t].copying
  BY DEF Goes
<1>2. call'[t] = d /\ \A u \in Thread \ {t} : call'[u] = call[u]
  BY <1>1 DEF TypeOK
<1>3. call[t].copying /\ At[t] = Home(k) /\ call[t].body.value = store[Home(k)][k]
  BY DEF Tidy
<1>4. Unlike(k)' = Unlike(k)
  BY DEF Unlike, ReplicasOf, Home
<1>5. \A u \in Thread \ {t} : (PutOn(u, k))' <=> PutOn(u, k)
  BY <1>2 DEF PutOn
<1>6. (\A u \in Thread : call[u] # Idle /\ call[u].body.key = k =>
          call[u].body.op \in {"PUT", "GET"})'
  <2>1. d # Idle => d.body.op = "PUT"
    BY <1>1 DEF PutOn
  <2> QED BY <1>2, <2>1 DEF Tidy
<1>7. ASSUME NEW u \in Thread
      PROVE  (PutOn(u, k) =>
                At[u] = Home(k) /\ call[u].copying /\ call[u].body.value = store[Home(k)][k])'
  <2>1. CASE u = t
    BY <1>1, <1>2, <1>3, <2>1 DEF PutOn, Home
  <2>2. CASE u # t
    BY <1>2, <1>5, <2>2 DEF Tidy, Home
  <2> QED BY <2>1, <2>2
<1>8. ASSUME NEW m \in Requests'
      PROVE  (/\ m.body.key = k => m.body.op \in {"PUT", "GET"}
              /\ m.body.key = k /\ m.body.op = "PUT" =>
                    /\ m.body.value = store[Home(k)][k]
                    /\ \E u \in Thread : PutOn(u, k) /\ Waiting(u, m.id))'
  <2>1. CASE m.body.key = k /\ m.body.op = "PUT"
    <3>1. PICK u \in Thread : PutOn(u, k) /\ Waiting(u, m.id)
      BY <2>1 DEF Tidy
    <3>2. u # t
      BY <3>1
    <3>3. (PutOn(u, k) /\ Waiting(u, m.id))'
      BY <1>2, <1>5, <3>1, <3>2 DEF Waiting
    <3>4. m.body.value = store'[Home(k)][k]
      BY <2>1 DEF Tidy
    <3> QED BY <2>1, <3>3, <3>4 DEF Home
  <2>2. CASE m.body.key # k \/ m.body.op # "PUT"
    BY <1>8, <2>2 DEF Tidy
  <2> QED BY <2>1, <2>2
<1>9. ASSUME NEW r \in Unlike(k)' PROVE \E u \in Thread : (PutOn(u, k) /\ Ahead(u, r))'
  <2>1. PICK u \in Thread : PutOn(u, k) /\ Ahead(u, r)
    BY <1>4, <1>9 DEF Tidy
  <2>2. CASE u = t
    <3>1. r \in ReplicasOf(Home(k), k) /\ r # Home(k)
      BY <1>4, <1>9 DEF Unlike
    <3>2. r \in left
      BY <2>1, <2>2, <3>1
    <3>3. d # Idle
      BY <1>1, <1>3, <3>2
    <3>4. r \in ToCome(d)
      BY <1>1, <3>2, <3>3 DEF ToCome
    <3>5. (PutOn(t, k))'
      BY <1>1, <1>2, <3>3 DEF PutOn
    <3>6. (Ahead(t, r))'
      BY <1>2, <3>4 DEF Ahead
    <3> QED BY <3>5, <3>6
  <2>3. CASE u # t
    <3>1. call'[u] = call[u]
      BY <1>2, <2>3
    <3>2. (Ahead(u, r))'
      BY <2>1, <3>1 DEF Ahead, ToCome
    <3> QED BY <1>5, <2>1, <2>3, <3>2
  <2> QED BY <2>2, <2>3
<1>10. (\A r \in Unlike(k) : \E u \in Thread : PutOn(u, k) /\ Ahead(u, r))'
  BY <1>9
<1> QED BY <1>6, <1>7, <1>8, <1>10 DEF Tidy

\* A call is about its key, and a get asks.
LEMMA StartsAbout ==
    ASSUME TypeOK, NEW t \in Thread, NEW k \in Key,
           \/ \E v \in Value : PutStart(t, k, v)
           \/ GetStart(t, k)
           \/ DeleteStart(t, k)
           \/ \E old \in Opt, new \in Value : CasStart(t, k, old, new)
    PROVE  /\ Starts(t)
           /\ call'[t] = Idle \/ call'[t].body.key = k
           /\ GetStart(t, k) => call'[t] = Idle \/ call'[t].body.op = "GET"
           /\ \A c \in Key \ {k} : \A n \in Node : store'[n][c] = store[n][c]
           /\ GetStart(t, k) => store' = store
<1>1. ASSUME NEW body, body.key = k, NEW step, NEW to,
             call' = [call EXCEPT ![t] = NewCall(body, step, to)]
      PROVE  call'[t].body.key = k
  BY <1>1 DEF NewCall, TypeOK
<1>2. call'[t] = Idle \/ call'[t].body.key = k
  <2>1. call[t] = Idle
    BY DEF PutStart, GetStart, DeleteStart, CasStart, MayCall
  <2>2. ASSUME NEW v \in Value, PutStart(t, k, v) PROVE call'[t] = Idle \/ call'[t].body.key = k
    <3> DEFINE body == [op |-> "PUT", key |-> k, value |-> v, expected |-> Nil]
    <3>1. \/ call' = call
          \/ call' = [call EXCEPT ![t] = NewCall(body, "replicate", At[t])]
          \/ call' = [call EXCEPT ![t] = NewCall(body, "send", OwnerOf(At[t], k))]
      BY <2>2 DEF PutStart, RouteTo, Continue
    <3>2. body.key = k
      OBVIOUS
    <3> HIDE DEF body
    <3> QED BY <1>1, <2>1, <3>1, <3>2
  <2>3. ASSUME GetStart(t, k) PROVE call'[t] = Idle \/ call'[t].body.key = k
    <3> DEFINE body == [op |-> "GET", key |-> k, value |-> Nil, expected |-> Nil]
    <3>1. call' = call \/ call' = [call EXCEPT ![t] = NewCall(body, "send", OwnerOf(At[t], k))]
      BY <2>3 DEF GetStart, RouteTo, Continue
    <3>2. body.key = k
      OBVIOUS
    <3> HIDE DEF body
    <3> QED BY <1>1, <2>1, <3>1, <3>2
  <2>4. ASSUME DeleteStart(t, k) PROVE call'[t] = Idle \/ call'[t].body.key = k
    <3> DEFINE body == [op |-> "DELETE", key |-> k, value |-> Nil, expected |-> Nil]
    <3>1. call' = call \/ call' = [call EXCEPT ![t] = NewCall(body, "send", OwnerOf(At[t], k))]
      BY <2>4 DEF DeleteStart, RouteTo, Continue
    <3>2. body.key = k
      OBVIOUS
    <3> HIDE DEF body
    <3> QED BY <1>1, <2>1, <3>1, <3>2
  <2>5. ASSUME NEW old \in Opt, NEW new \in Value, CasStart(t, k, old, new)
        PROVE  call'[t] = Idle \/ call'[t].body.key = k
    <3> DEFINE body == [op |-> "CAS", key |-> k, value |-> new, expected |-> old]
    <3>1. call' = call \/ call' = [call EXCEPT ![t] = NewCall(body, "send", OwnerOf(At[t], k))]
      BY <2>5 DEF CasStart, RouteTo, Continue
    <3>2. body.key = k
      OBVIOUS
    <3> HIDE DEF body
    <3> QED BY <1>1, <2>1, <3>1, <3>2
  <2> QED BY <2>2, <2>3, <2>4, <2>5
<1>3. Starts(t) /\ (GetStart(t, k) => store' = store)
  BY PutStarts, GetStarts, DeleteStarts, CasStarts
<1>4. ASSUME GetStart(t, k) PROVE call'[t] = Idle \/ call'[t].body.op = "GET"
  <2>1. call[t] = Idle
    BY <1>4 DEF GetStart, MayCall
  <2> QED BY <1>4, <2>1, GetStarts DEF TypeOK
<1>5. ASSUME store' = store \/ \E v \in Opt : store' = [store EXCEPT ![At[t]][k] = v]
      PROVE  \A c \in Key \ {k} : \A n \in Node : store'[n][c] = store[n][c]
  <2> SUFFICES ASSUME NEW c \in Key \ {k}, NEW n \in Node PROVE store'[n][c] = store[n][c]
    OBVIOUS
  <2>1. At[t] \in Node /\ store \in [Node -> [Key -> Opt]]
    BY DBConstants DEF TypeOK
  <2>2. ASSUME NEW v \in Opt, store' = [store EXCEPT ![At[t]][k] = v]
        PROVE  store'[n][c] = store[n][c]
    BY <2>1, <2>2
  <2> QED BY <1>5, <2>2
<1>6. store' = store \/ \E v \in Opt : store' = [store EXCEPT ![At[t]][k] = v]
  <2>1. Value \subseteq Opt /\ Nil \in Opt
    BY DEF Opt
  <2>2. CASE \E v \in Value : PutStart(t, k, v)
    BY <2>1, <2>2, PutStarts
  <2>3. CASE GetStart(t, k)
    BY <2>3, GetStarts
  <2>4. CASE DeleteStart(t, k)
    BY <2>1, <2>4, DeleteStarts
  <2>5. CASE \E old \in Opt, new \in Value : CasStart(t, k, old, new)
    BY <2>1, <2>5, CasStarts
  <2> QED BY <2>2, <2>3, <2>4, <2>5
<1> QED BY <1>2, <1>3, <1>4, <1>5, <1>6

\* A put at the owner of a key nobody works on is ahead of all its replicas.
LEMMA TidyPut ==
    ASSUME Book, NEW k \in Key, Tidy(k), NEW t \in Thread, NEW v \in Value,
           PutStart(t, k, v), OwnerOf(At[t], k) = At[t], At[t] = Home(k),
           \A u \in Thread : call[u] # Idle => call[u].body.key # k
    PROVE  Tidy(k)'
<1> DEFINE n == At[t]
           body == [op |-> "PUT", key |-> k, value |-> v, expected |-> Nil]
           d == NewCall(body, "replicate", n)
<1>1. TypeOK /\ n \in Node
  BY DBConstants DEF Book
<1>2. /\ call' = [call EXCEPT ![t] = d] /\ store' = [store EXCEPT ![n][k] = v]
      /\ UNCHANGED <<known, net, fate>>
  BY DEF PutStart, SetLocal, Continue, nodeVars
<1>3. d # Idle /\ d.step = "replicate" /\ d.body = body /\ d.copying
  <2>1. body \in Body /\ MayCall(t)
    BY BodyFacts DEF PutStart, Opt
  <2> QED BY <1>1, <2>1, NewCallFacts, IdleIsNoCall DEF MayCall
<1>4. body.op = "PUT" /\ body.key = k /\ body.value = v
  OBVIOUS
<1> HIDE DEF d, body
<1>5. /\ call'[t] = d /\ \A u \in Thread \ {t} : call'[u] = call[u]
      /\ store'[Home(k)][k] = v
  BY <1>1, <1>2 DEF TypeOK
<1>6. \A u \in Thread \ {t} : ~(PutOn(u, k))'
  BY <1>5 DEF PutOn
<1>7. (PutOn(t, k))' /\ \A r \in Node : (Ahead(t, r))'
  BY <1>3, <1>4, <1>5 DEF PutOn, Ahead, ToCome
<1>8. ASSUME NEW m \in Requests', m.body.key = k PROVE m.body.op = "GET"
  <2>1. m \in Requests
    BY <1>2 DEF Requests
  <2>2. m.body.op # "PUT"
    BY <1>8, <2>1 DEF Tidy, PutOn
  <2> QED BY <1>8, <2>1, <2>2 DEF Tidy
<1>9. Unlike(k)' \subseteq Node
  BY <1>1, <1>2 DEF Unlike, ReplicasOf, TypeOK, Home
<1>10. ASSUME NEW u \in Thread
       PROVE  (/\ call[u] # Idle /\ call[u].body.key = k => call[u].body.op \in {"PUT", "GET"}
               /\ PutOn(u, k) =>
                  At[u] = Home(k) /\ call[u].copying /\ call[u].body.value = store[Home(k)][k])'
  <2>1. CASE u = t
    BY <1>3, <1>4, <1>5, <2>1 DEF Home
  <2>2. CASE u # t
    BY <1>5, <1>6, <2>2
  <2> QED BY <2>1, <2>2
<1>11. (\A r \in Unlike(k) : \E u \in Thread : PutOn(u, k) /\ Ahead(u, r))'
  BY <1>7, <1>9
<1> QED BY <1>8, <1>10, <1>11 DEF Tidy

LEMMA BeginTidy ==
    ASSUME Book, Reliable, TidyKeys, NEW t \in Thread, NEW k \in Key,
           \/ \E v \in Value : PutStart(t, k, v)
           \/ GetStart(t, k)
           \/ DeleteStart(t, k)
           \/ \E old \in Opt, new \in Value : CasStart(t, k, old, new)
    PROVE  TidyKeys'
<1>1. TypeOK /\ At[t] \in Node
  BY DBConstants DEF Book
<1>2. /\ Starts(t)
      /\ call'[t] = Idle \/ call'[t].body.key = k
      /\ GetStart(t, k) => call'[t] = Idle \/ call'[t].body.op = "GET"
      /\ \A c \in Key \ {k} : \A n \in Node : store'[n][c] = store[n][c]
      /\ GetStart(t, k) => store' = store
  BY <1>1, StartsAbout
<1>3. /\ UNCHANGED <<known, net, fate, mode>> /\ call[t] = Idle
      /\ \A u \in Thread \ {t} : call'[u] = call[u]
  BY <1>1, <1>2 DEF Starts, nodeVars, TypeOK
<1>4. erased \subseteq erased' /\ untidy \subseteq untidy'
  <2>1. untidy \subseteq untidy'
    BY <1>1, UntidyKeys DEF PutStart, GetStart, DeleteStart, CasStart, history
  <2> QED BY <1>2, <2>1 DEF Starts
<1>5. SUFFICES ASSUME mode = "reliable", NEW c \in Key \ (untidy' \cup erased')
               PROVE  Tidy(c)'
  BY <1>3 DEF TidyKeys
<1>6. Tidy(c)
  BY <1>4, <1>5 DEF TidyKeys
<1>7. CASE c # k \/ GetStart(t, k)
  <2>1. \A u \in Thread : PutOn(u, c) => call'[u] = call[u]
    BY <1>3 DEF PutOn
  <2>2. \A u \in Thread : call'[u] = call[u] \/ call'[u] = Idle \/ call'[u].body.key # c
                          \/ call'[u].body.op = "GET"
    BY <1>2, <1>3, <1>7
  <2>3. \A n \in Node : store'[n][c] = store[n][c]
    BY <1>2, <1>7
  <2>4. Requests' = Requests /\ fate' = fate /\ known' = known
    BY <1>3 DEF Requests
  <2> QED BY <1>1, <1>6, <2>1, <2>2, <2>3, <2>4, TidyElsewhere
<1>8. CASE c = k /\ ~GetStart(t, k)
  <2>1. ~DeleteStart(t, k)
    BY <1>1, <1>5, <1>8, DeleteStarts
  <2>2. ~\E old \in Opt, new \in Value : CasStart(t, k, old, new)
    BY <1>5, <1>8 DEF CasStart, Untidy
  <2>3. PICK v \in Value : PutStart(t, k, v)
    BY <1>8, <2>1, <2>2
  <2>4. OwnerOf(At[t], k) = At[t] /\ \A u \in Thread : call[u] # Idle => call[u].body.key # k
    BY <1>5, <1>8, <2>3 DEF PutStart, Untidy
  <2>5. At[t] = Home(k)
    BY <1>1, <1>5, <2>4 DEF Reliable, OwnerOf, Home
  <2> QED BY <1>6, <1>8, <2>3, <2>4, <2>5, TidyPut
<1> QED BY <1>7, <1>8

\* What a thread does about its call changes no other's.
LEMMA ElsewhereGoes ==
    ASSUME TypeOK, NEW k \in Key, Tidy(k), NEW t \in Thread, ~PutOn(t, k),
           NEW left, call[t] # Idle, Goes(t, left), UNCHANGED <<store, known, fate>>,
           Requests' \subseteq Requests
    PROVE  Tidy(k)'
<1>1. PICK d \in Call \cup {Idle} :
         /\ call' = [call EXCEPT ![t] = d]
         /\ d # Idle => d.body = call[t].body
  BY DEF Goes
<1>2. call'[t] = d /\ \A u \in Thread \ {t} : call'[u] = call[u]
  BY <1>1 DEF TypeOK
<1>3. \A u \in Thread : PutOn(u, k) => call'[u] = call[u]
  BY <1>2
<1>4. call'[t] = Idle \/ call'[t].body.key # k \/ call'[t].body.op = "GET"
  <2>1. call[t].body.key = k => call[t].body.op = "GET"
    BY DEF Tidy, PutOn
  <2> QED BY <1>1, <1>2, <2>1
<1> QED BY <1>2, <1>3, <1>4, TidyElsewhere

LEMMA ReplicateTidy ==
    ASSUME Book, Reliable, TidyKeys, NEW t \in Thread, Replicate(t)
    PROVE  TidyKeys'
<1> DEFINE left == ReplicasOf(At[t], call[t].body.key) \ {At[t]}
<1>1. TypeOK /\ BodiesAgree /\ At[t] \in Node
  BY DBConstants DEF Book
<1>2. /\ call[t] # Idle /\ call[t].step = "replicate" /\ Goes(t, left)
      /\ UNCHANGED <<store, known, net, fate, mode, untidy, erased>>
  BY <1>1, ReplicateGoes DEF Replicate, nodeVars, history
<1>3. left \in SUBSET Node
  BY <1>1 DEF ReplicasOf, TypeOK
<1>4. Requests' = Requests /\ \A i : ~Waiting(t, i)
  BY <1>2 DEF Requests, Waiting
<1>5. SUFFICES ASSUME mode = "reliable", NEW k \in Key \ (untidy \cup erased)
               PROVE  Tidy(k)'
  BY <1>2 DEF TidyKeys
<1>6. Tidy(k)
  BY <1>5 DEF TidyKeys
<1>7. CASE PutOn(t, k)
  <2>1. At[t] = Home(k) /\ call[t].body.key = k
    BY <1>6, <1>7 DEF Tidy, PutOn
  <2>2. \A r \in ReplicasOf(Home(k), k) : r \in left \/ r = Home(k)
    BY <2>1
  <2> HIDE DEF left
  <2> QED BY <1>1, <1>2, <1>3, <1>4, <1>6, <1>7, <2>2, TidyGoes
<1>8. CASE ~PutOn(t, k)
  BY <1>1, <1>2, <1>4, <1>6, <1>8, ElsewhereGoes
<1> QED BY <1>7, <1>8

LEMMA SendTidy ==
    ASSUME Book, Reliable, TidyKeys, NEW t \in Thread, Send(t)
    PROVE  TidyKeys'
<1> DEFINE i == <<call[t].number, call[t].to>>
           n == At[t]
           d == [call[t] EXCEPT !.step = "wait"]
           request == [kind |-> "request", id |-> i, src |-> n, dst |-> call[t].to,
                       body |-> call[t].body, under |-> session[n][call[t].to]]
<1>1. TypeOK
  BY DEF Book
<1>2. /\ call[t] # Idle /\ call[t].step = "send" /\ i \in ReqId /\ n \in Node
      /\ \/ /\ net' = net \cup {request}
            /\ fate' = [fate EXCEPT ![i] = "sent"]
            /\ call' = [call EXCEPT ![t] = d]
            /\ d \in Call /\ d # Idle /\ d.number = call[t].number /\ d.body = call[t].body
            /\ d.to = call[t].to /\ d.rest = call[t].rest /\ d.step = "wait"
            /\ d.copying = call[t].copying
         \/ session[n][call[t].to] = "none" \/ ~online[n]
      /\ UNCHANGED <<store, known, mode, erased, untidy>>
  BY <1>1, SendFacts DEF nodeVars
<1>3. SUFFICES ASSUME mode = "reliable", NEW k \in Key \ (untidy \cup erased)
               PROVE  Tidy(k)'
  BY <1>2 DEF TidyKeys
<1>4. Tidy(k)
  BY <1>3 DEF TidyKeys
<1>5. call[t].to \in Node
  BY <1>1, <1>2 DEF TypeOK, Call
<1>6. /\ net' = net \cup {request}
      /\ fate' = [fate EXCEPT ![i] = "sent"]
      /\ call' = [call EXCEPT ![t] = d]
      /\ d \in Call /\ d # Idle /\ d.number = call[t].number /\ d.body = call[t].body
      /\ d.to = call[t].to /\ d.rest = call[t].rest /\ d.step = "wait"
      /\ d.copying = call[t].copying
  <2>1. session[n][call[t].to] # "none" /\ online[n]
    BY <1>2, <1>3, <1>5 DEF Reliable
  <2> HIDE DEF d, request, i, n
  <2> QED BY <1>2, <2>1
<1>7. request.kind = "request" /\ request.id = i /\ request.body = call[t].body
  OBVIOUS
<1> HIDE DEF d, request
<1>8. /\ call'[t] = d /\ \A u \in Thread \ {t} : call'[u] = call[u]
      /\ fate'[i] = "sent" /\ \A j \in ReqId : fate[j] = "sent" => fate'[j] = "sent"
  BY <1>1, <1>2, <1>6 DEF TypeOK
<1>9. Requests' = Requests \cup {request}
  BY <1>6, <1>7 DEF Requests
<1>10. CASE ~PutOn(t, k)
  <2>1. call[t].body.key # k \/ call[t].body.op = "GET"
    BY <1>2, <1>4, <1>10 DEF Tidy, PutOn
  <2>2. \A u \in Thread : PutOn(u, k) => call'[u] = call[u]
    BY <1>8, <1>10
  <2>3. \A u \in Thread : call'[u] = call[u] \/ call'[u].body.key # k \/ call'[u].body.op = "GET"
    BY <1>6, <1>8, <2>1
  <2>4. \A m \in Requests' : m \in Requests \/ m.body.key # k \/ m.body.op = "GET"
    BY <1>7, <1>9, <2>1
  <2> QED BY <1>1, <1>2, <1>4, <1>8, <2>2, <2>3, <2>4, TidyElsewhere
<1>11. CASE PutOn(t, k)
  <2>1. At[t] = Home(k) /\ call[t].copying /\ call[t].body.value = store[Home(k)][k]
        /\ call[t].body.op = "PUT" /\ call[t].body.key = k
    BY <1>4, <1>11 DEF Tidy, PutOn
  <2>2. \A u \in Thread : (PutOn(u, k))' <=> PutOn(u, k)
    BY <1>2, <1>6, <1>8 DEF PutOn
  <2>3. Unlike(k)' = Unlike(k)
    BY <1>2 DEF Unlike, ReplicasOf, Home
  <2>4. ASSUME NEW u \in Thread
        PROVE  (/\ call[u] # Idle /\ call[u].body.key = k => call[u].body.op \in {"PUT", "GET"}
                /\ PutOn(u, k) =>
                   At[u] = Home(k) /\ call[u].copying /\ call[u].body.value = store[Home(k)][k])'
    <3>1. CASE u = t
      <4>1. /\ call'[t].body.op = "PUT" /\ call'[t].copying
            /\ call'[t].body.value = store[Home(k)][k]
        BY <1>6, <1>8, <2>1
      <4>2. store' = store
        BY <1>2
      <4> QED BY <2>1, <3>1, <4>1, <4>2 DEF Home
    <3>2. CASE u # t
      BY <1>2, <1>4, <1>8, <2>2, <3>2 DEF Tidy, Home
    <3> QED BY <3>1, <3>2
  <2>5. ASSUME NEW u \in Thread, NEW j, Waiting(u, j) PROVE (Waiting(u, j))'
    <3>1. u # t
      BY <1>2, <2>5 DEF Waiting
    <3> QED BY <1>8, <2>5, <3>1 DEF Waiting
  <2>6. ASSUME NEW j \in ReqId, j = i PROVE (Waiting(t, j))'
    BY <1>6, <1>8, <2>6 DEF Waiting
  <2>7. ASSUME NEW m \in Requests'
        PROVE  (/\ m.body.key = k => m.body.op \in {"PUT", "GET"}
                /\ m.body.key = k /\ m.body.op = "PUT" =>
                      /\ m.body.value = store[Home(k)][k]
                      /\ \E u \in Thread : PutOn(u, k) /\ Waiting(u, m.id))'
    <3>1. CASE m \in Requests
      BY <1>2, <1>4, <2>2, <2>5, <3>1 DEF Tidy, Home
    <3>2. CASE m = request
      <4>1. m.body.op = "PUT" /\ m.body.value = store'[Home(k)][k] /\ m.id = i
        BY <1>2, <1>7, <2>1, <3>2
      <4>2. (PutOn(t, k) /\ Waiting(t, m.id))'
        BY <1>2, <1>11, <2>2, <2>6, <4>1
      <4> QED BY <4>1, <4>2 DEF Home
    <3> QED BY <1>9, <3>1, <3>2
  <2>8. ASSUME NEW r \in Unlike(k)' PROVE \E u \in Thread : (PutOn(u, k) /\ Ahead(u, r))'
    <3>1. PICK u \in Thread : PutOn(u, k) /\ Ahead(u, r)
      BY <1>4, <2>3, <2>8 DEF Tidy
    <3>2. (Ahead(u, r))'
      <4>1. CASE u = t
        <5>1. r \in call[t].rest \/ r = call[t].to
          BY <1>2, <3>1, <4>1 DEF Ahead, ToCome
        <5>2. CASE r \in call[t].rest
          <6>1. r \in ToCome(d)
            BY <1>6, <5>2 DEF ToCome
          <6> QED BY <1>8, <4>1, <6>1 DEF Ahead
        <5>3. CASE r = call[t].to
          <6>1. <<d.number, r>> = i
            BY <1>6, <5>3
          <6> QED BY <1>6, <1>8, <4>1, <5>3, <6>1 DEF Ahead
        <5> QED BY <5>1, <5>2, <5>3
      <4>2. CASE u # t
        <5>1. call'[u] = call[u]
          BY <1>8, <4>2
        <5>2. CASE r \in ToCome(call[u])
          BY <5>1, <5>2 DEF Ahead, ToCome
        <5>3. CASE call[u].step = "wait" /\ call[u].to = r /\ fate[<<call[u].number, r>>] = "sent"
          <6>1. <<call[u].number, r>> \in ReqId
            BY <1>1, <3>1, <5>3 DEF PutOn, TypeOK, Call, ReqId
          <6>2. fate'[<<call[u].number, r>>] = "sent"
            BY <1>8, <5>3, <6>1
          <6> QED BY <5>1, <5>3, <6>2 DEF Ahead
        <5> QED BY <3>1, <5>2, <5>3 DEF Ahead
      <4> QED BY <4>1, <4>2
    <3> QED BY <2>2, <3>1, <3>2
  <2>9. (\A r \in Unlike(k) : \E u \in Thread : PutOn(u, k) /\ Ahead(u, r))'
    BY <2>8
  <2> QED BY <2>4, <2>7, <2>9 DEF Tidy
<1> QED BY <1>10, <1>11

\* Nothing happens to calls, stores and rings, and no request is new.
LEMMA QuietTidy ==
    ASSUME TypeOK, TidyKeys, UNCHANGED <<store, known, call, fate, mode, erased, untidy>>,
           net' \subseteq net
    PROVE  TidyKeys'
<1>1. SUFFICES ASSUME mode = "reliable", NEW k \in Key \ (untidy \cup erased)
               PROVE  Tidy(k)'
  BY DEF TidyKeys
<1>2. Tidy(k) /\ Requests' \subseteq Requests
  BY <1>1 DEF TidyKeys, Requests
<1> QED BY <1>2, TidyElsewhere

LEMMA AnswerTidy ==
    ASSUME Book, TidyKeys, NEW m \in net, HandleAnswer(m)
    PROVE  TidyKeys'
<1>1. TypeOK /\ BodiesAgree /\ AnswersAreTrue /\ RequestsAreSent
  BY DEF Book
<1>2. /\ m \in Answer /\ net' = net \ {m}
      /\ \/ \E t \in Thread : Waiting(t, m.id) /\ Resume(t, m.result)
         \/ UNCHANGED call
      /\ UNCHANGED <<store, known, mode, fate, erased, untidy>>
  BY <1>1, AnswerFacts DEF nodeVars
<1>3. /\ m.result \in Outcome /\ fate[m.id] = m.result /\ fate[m.id] # "sent"
      /\ Requests' \subseteq Requests
  BY <1>1, <1>2, PacketFacts DEF Answers, Answer, AnswersAreTrue, Requests
<1>4. ASSUME NEW t \in Thread, Waiting(t, m.id), Resume(t, m.result) PROVE TidyKeys'
  <2>1. SUFFICES ASSUME mode = "reliable", NEW k \in Key \ (untidy \cup erased)
                 PROVE  Tidy(k)'
    BY <1>2 DEF TidyKeys
  <2>2. Tidy(k)
    BY <2>1 DEF TidyKeys
  <2>3. call[t] # Idle /\ call[t].step = "wait" /\ m.id = <<call[t].number, call[t].to>>
    BY <1>4 DEF Waiting
  <2>4. Goes(t, call[t].rest) /\ call[t].rest \in SUBSET Node
    BY <1>1, <1>3, <1>4, <2>3, ResumeFacts DEF TypeOK, Call
  <2>5. CASE PutOn(t, k)
    <3>1. \A p \in Requests' : ~Waiting(t, p.id)
      BY <1>1, <1>3, <2>3 DEF RequestsAreSent, Waiting
    <3>2. \A r : Ahead(t, r) => r \in call[t].rest
      BY <1>3, <2>3 DEF Ahead, ToCome
    <3> QED BY <1>1, <1>2, <1>3, <2>2, <2>4, <2>5, <3>1, <3>2, TidyGoes
  <2>6. CASE ~PutOn(t, k)
    BY <1>1, <1>2, <1>3, <2>2, <2>3, <2>4, <2>6, ElsewhereGoes
  <2> QED BY <2>5, <2>6
<1>5. CASE UNCHANGED call
  BY <1>1, <1>2, <1>5, QuietTidy
<1> QED BY <1>2, <1>4, <1>5

LEMMA RequestTidy ==
    ASSUME Book, TidyKeys, NEW m \in net, HandleRequest(m)
    PROVE  TidyKeys'
<1> DEFINE c == m.body.key
           n == m.dst
<1>1. TypeOK /\ Book /\ RequestsAreSent
  BY DEF Book
<1>2. /\ m \in Request /\ c \in Key /\ n \in Node
      /\ \/ m.body.op = "PUT" /\ store' = [store EXCEPT ![n][c] = m.body.value]
         \/ m.body.op = "GET" /\ store' = store
         \/ m.body.op = "DELETE" /\ store' = [store EXCEPT ![n][c] = Nil]
         \/ m.body.op = "CAS" /\ store' = [store EXCEPT ![n][c] = m.body.value]
         \/ m.body.op = "CAS" /\ store' = store
      /\ \E A \in SUBSET Answer : net' = (net \ {m}) \cup A
      /\ \A j \in ReqId : j # m.id => fate'[j] = fate[j]
      /\ UNCHANGED <<known, call, mode, erased, untidy>>
  <2>1. ResultOf(n, m.body) \in Outcome /\ fate' = [fate EXCEPT ![m.id] = ResultOf(n, m.body)]
    BY <1>1, RequestFacts
  <2>2. \A j \in ReqId : j # m.id => fate'[j] = fate[j]
    BY <1>1, <2>1 DEF TypeOK
  <2>3. \E A \in SUBSET Answer : net' = (net \ {m}) \cup A
    BY <1>1, RequestFacts
  <2> QED BY <1>1, <2>2, <2>3, RequestFacts DEF nodeVars
<1>3. m \in Requests /\ m.id \in ReqId /\ m.id[2] = n /\ m.body \in Body /\ m.body.value \in Opt
  BY <1>1, <1>2, PacketFacts DEF Requests, Request, RequestsAreSent, Body
<1>4. Requests' \subseteq Requests
  BY <1>2 DEF Requests, Answer
<1>5. SUFFICES ASSUME mode = "reliable", NEW k \in Key \ (untidy \cup erased)
               PROVE  Tidy(k)'
  BY <1>2 DEF TidyKeys
<1>6. Tidy(k) /\ Home(k) \in Node
  BY <1>5, HomeExists DEF TidyKeys
<1>7. CASE c # k \/ m.body.op = "GET"
  <2>1. ASSUME NEW o \in Node PROVE store'[o][k] = store[o][k]
    <3>1. store' = store \/ (c # k /\ \E v \in Opt : store' = [store EXCEPT ![n][c] = v])
      BY <1>2, <1>3, <1>7 DEF Opt
    <3> QED BY <1>1, <1>2, <3>1 DEF TypeOK
  <2>2. ASSUME NEW u \in Thread, PutOn(u, k), NEW j \in ReqId, Waiting(u, j), fate[j] = "sent"
        PROVE  fate'[j] = "sent"
    <3>1. j # m.id
      <4> SUFFICES ASSUME j = m.id PROVE FALSE
        OBVIOUS
      <4>1. call[u].body = m.body
        BY <1>1, <1>3, <2>2, WaitersAsked
      <4> QED BY <1>7, <2>2, <4>1 DEF PutOn
    <3> QED BY <1>2, <2>2, <3>1
  <2> QED BY <1>1, <1>2, <1>4, <1>6, <2>1, <2>2, TidyElsewhere
<1>8. CASE c = k /\ m.body.op # "GET"
  <2>1. m.body.op = "PUT" /\ m.body.value = store[Home(k)][k]
    BY <1>3, <1>6, <1>8 DEF Tidy
  <2>2. /\ store'[n][k] = store[Home(k)][k]
        /\ \A o \in Node \ {n} : store'[o][k] = store[o][k]
        /\ store'[Home(k)][k] = store[Home(k)][k]
    <3>1. store' = [store EXCEPT ![n][k] = store[Home(k)][k]]
      BY <1>2, <1>8, <2>1
    <3>2. store \in [Node -> [Key -> Opt]] /\ n \in Node
      BY <1>1, <1>2 DEF TypeOK
    <3> HIDE DEF n
    <3> QED BY <1>6, <3>1, <3>2
  <2>3. \A r \in Unlike(k)' : r \in Unlike(k) /\ r # n /\ r \in Node
    BY <1>1, <1>2, <1>6, <2>2 DEF Unlike, ReplicasOf, Home, TypeOK
  <2>4. ASSUME NEW r \in Unlike(k)' PROVE \E u \in Thread : (PutOn(u, k) /\ Ahead(u, r))'
    <3>1. PICK u \in Thread : PutOn(u, k) /\ Ahead(u, r)
      BY <1>6, <2>3 DEF Tidy
    <3>2. CASE r \in ToCome(call[u])
      BY <1>2, <3>1, <3>2 DEF PutOn, Ahead, ToCome
    <3>3. CASE call[u].step = "wait" /\ call[u].to = r /\ fate[<<call[u].number, r>>] = "sent"
      <4>1. <<call[u].number, r>> \in ReqId /\ <<call[u].number, r>> # m.id
        BY <1>1, <1>3, <2>3, <3>1, <3>3 DEF PutOn, TypeOK, Call, ReqId
      <4>2. fate'[<<call[u].number, r>>] = "sent"
        BY <1>2, <3>3, <4>1
      <4> QED BY <1>2, <3>1, <3>3, <4>2 DEF PutOn, Ahead
    <3> QED BY <3>1, <3>2, <3>3 DEF Ahead
  <2>5. (\A r \in Unlike(k) : \E u \in Thread : PutOn(u, k) /\ Ahead(u, r))'
    BY <2>4
  <2>6. (\A t \in Thread : PutOn(t, k) =>
            At[t] = Home(k) /\ call[t].copying /\ call[t].body.value = store[Home(k)][k])'
    BY <1>2, <1>6, <2>2 DEF Tidy, PutOn, Home
  <2>7. ASSUME NEW p \in Requests'
        PROVE  (/\ p.body.key = k => p.body.op \in {"PUT", "GET"}
                /\ p.body.key = k /\ p.body.op = "PUT" =>
                      /\ p.body.value = store[Home(k)][k]
                      /\ \E t \in Thread : PutOn(t, k) /\ Waiting(t, p.id))'
    <3>1. p \in Requests
      BY <1>4
    <3> QED BY <1>2, <1>6, <2>2, <3>1 DEF Tidy, PutOn, Home, Waiting
  <2> QED BY <1>2, <1>6, <2>5, <2>6, <2>7 DEF Tidy
<1> QED BY <1>7, <1>8

LEMMA NextReliable == TypeOK /\ Reliable /\ [Next]_vars => Reliable'
<1> SUFFICES ASSUME TypeOK, Reliable, [Next]_vars PROVE Reliable'
  OBVIOUS
<1>1. ASSUME UNCHANGED <<nodeVars, mode>> PROVE Reliable'
  BY <1>1 DEF Reliable, nodeVars
<1>2. ASSUME NEW t \in Thread, NEW k \in Key,
             \/ \E v \in Value : PutStart(t, k, v)
             \/ GetStart(t, k)
             \/ DeleteStart(t, k)
             \/ \E old \in Opt, new \in Value : CasStart(t, k, old, new)
      PROVE  Reliable'
  BY <1>1, <1>2 DEF PutStart, GetStart, DeleteStart, CasStart
<1>3. ASSUME NEW t \in Thread, Work(t) \/ Timeout(t) PROVE Reliable'
  BY <1>1, <1>3 DEF Work, Replicate, Send, Timeout
<1>4. ASSUME NEW m \in net, HandleRequest(m) \/ HandleAnswer(m) \/ Unreadable(m) \/ Lose(m)
      PROVE  Reliable'
  BY <1>1, <1>4 DEF HandleRequest, HandleAnswer, Unreadable, Lose
<1>5. ASSUME NEW n \in Node, NEW p \in Node, PeerJoined(n, p) \/ PeerLeft(n, p) \/ SwitchOnline(n)
      PROVE  Reliable'
  <2>1. mode # "reliable" /\ mode' = mode
    BY <1>5 DEF PeerJoined, PeerLeft, SwitchOnline
  <2> QED BY <2>1 DEF Reliable
<1>6. CASE UNCHANGED vars
  BY <1>1, <1>6 DEF vars
<1> QED BY <1>2, <1>3, <1>4, <1>5, <1>6 DEF Next

LEMMA NextTidy == Book /\ Reliable /\ TidyKeys /\ [Next]_vars => TidyKeys'
<1> SUFFICES ASSUME Book, Reliable, TidyKeys, [Next]_vars PROVE TidyKeys'
  OBVIOUS
<1>1. TypeOK
  BY DEF Book
<1>2. ASSUME \/ \E t \in Thread : Timeout(t)
             \/ \E m \in net : Lose(m)
             \/ \E n, p \in Node : PeerJoined(n, p) \/ PeerLeft(n, p)
             \/ \E n \in Node : SwitchOnline(n)
      PROVE  TidyKeys'
  BY <1>2 DEF Timeout, Lose, PeerJoined, PeerLeft, SwitchOnline, TidyKeys
<1>3. ASSUME (\E m \in net : Unreadable(m)) \/ UNCHANGED vars PROVE TidyKeys'
  <2>1. UNCHANGED <<store, known, call, fate, mode, erased, untidy>> /\ net' \subseteq net
    BY <1>3 DEF Unreadable, vars, nodeVars, history
  <2> QED BY <1>1, <2>1, QuietTidy
<1> QED BY <1>2, <1>3, BeginTidy, ReplicateTidy, SendTidy, AnswerTidy, RequestTidy DEF Next, Work

\* On a network that loses nothing, a key only written by one put at a time at its
\* owner is the same on all its replicas when nothing is under way, for any number
\* of nodes, any ring and any replication (db.py:470-484).
THEOREM ReplicasAgree == Spec => []ReplicasFollowOwner
<1>1. Init => Reliable /\ TidyKeys
  <2> SUFFICES ASSUME Init PROVE Reliable /\ TidyKeys
    OBVIOUS
  <2>1. Reliable
    BY DEF Init, Reliable
  <2>2. ASSUME mode = "reliable", NEW k \in Key PROVE Tidy(k)
    <3>1. Home(k) \in Node /\ ReplicasOf(Home(k), k) \subseteq Node
      BY <2>2, HomeExists DEF Init, ReplicasOf
    <3>2. Unlike(k) = {} /\ Requests = {} /\ \A t \in Thread : call[t] = Idle
      BY <3>1 DEF Init, Unlike, Requests
    <3> QED BY <3>2 DEF Tidy, PutOn
  <2> QED BY <2>1, <2>2 DEF TidyKeys
<1>2. Book /\ Reliable /\ TidyKeys /\ [Next]_vars => Book' /\ Reliable' /\ TidyKeys'
  BY NextKeepsBook, NextReliable, NextTidy DEF Book
<1>3. TidyKeys => ReplicasFollowOwner
  BY DEF TidyKeys, Tidy, Unlike, PutOn, Quiet, ReplicasFollowOwner
<1> QED BY <1>1, <1>2, <1>3, BookInit, PTL DEF Spec

=============================================================================
