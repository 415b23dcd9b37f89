----------------------------- MODULE FramingProofs -----------------------------
(***************************************************************************)
(* Framing, for every set of nodes, threads and messages, every capacity   *)
(* and every timeout: buffers are partial, no packet is joined twice, and  *)
(* while no cause spoils it what is returned is whole and what was heard   *)
(* from end to end is handed up.                                           *)
(***************************************************************************)
EXTENDS Framing, FiniteSetTheorems, TLAPS

\* What Append and Tail leave where.
LEMMA AppendPlaces ==
    ASSUME NEW S, NEW s \in Seq(S), NEW e \in S
    PROVE  /\ Append(s, e) \in Seq(S)
           /\ Len(Append(s, e)) = Len(s) + 1
           /\ \A i \in 1 .. Len(s) : Append(s, e)[i] = s[i]
           /\ Append(s, e)[Len(s) + 1] = e
OBVIOUS

LEMMA TailPlaces ==
    ASSUME NEW S, NEW s \in Seq(S), s # <<>>
    PROVE  /\ Tail(s) \in Seq(S)
           /\ Head(s) \in S
           /\ Len(s) \in Nat \ {0}
           /\ Head(s) = s[1]
           /\ Len(Tail(s)) = Len(s) - 1
           /\ \A i \in 1 .. Len(s) - 1 : Tail(s)[i] = s[i + 1]
OBVIOUS

\* The parts of a fragment, and its key.
LEMMA FragmentParts ==
    ASSUME NEW f \in Fragment
    PROVE  /\ f = <<f[1], f[2]>>
           /\ f[1] \in Message
           /\ f[2] \in Nat
           /\ f[2] < Total[f[1]]
           /\ f # Idle
           /\ KeyOf(f[1]) \in Key
BY FramingConstants DEF Fragment, Key

\* Placing a packet in a partial buffer keeps it partial if it is not complete.
LEMMA WithIsPartial ==
    ASSUME NEW f \in Fragment, NEW P, Partial(KeyOf(f[1]), P), ~Complete(With(P, f), f)
    PROVE  Partial(KeyOf(f[1]), With(P, f))
<1> DEFINE Q == With(P, f)
<1>1. \A g \in Q : g \in Fragment /\ KeyOf(g[1]) = KeyOf(f[1])
  BY DEF Partial, With
<1>2. \A g, h \in Q : g[2] = h[2] => g = h
  BY DEF Partial, With
<1>3. ASSUME NEW g \in Q
      PROVE  ~Complete(Q, g)
  <2>1. Total[g[1]] = Total[f[1]]
    BY <1>1, <1>3 DEF KeyOf
  <2> QED BY <2>1 DEF Complete
<1> QED BY <1>1, <1>2, <1>3 DEF Partial

-----------------------------------------------------------------------------
(* Types. *)

LEMMA TypeInit == Init => TypeOK
BY FramingConstants DEF Init, TypeOK, Partial

LEMMA TypeStep == TypeOK /\ [Next]_vars => TypeOK'
<1> SUFFICES ASSUME TypeOK, [Next]_vars PROVE TypeOK'
  OBVIOUS
<1> USE FramingConstants
<1>1. ASSUME NEW t \in Thread, NEW m \in Message, Begin(t, m) PROVE TypeOK'
  <2>1. <<m, 0>> \in Fragment
    BY DEF Fragment
  <2> QED BY <1>1, <2>1 DEF Begin, TypeOK
<1>2. ASSUME NEW t \in Thread, Put(t) PROVE TypeOK'
  <2> DEFINE f == queueing[t]
  <2>1. f \in Fragment /\ Host[t] \in Node
    BY <1>2 DEF Put, TypeOK
  <2>2. f[1] \in Message /\ f[2] \in Nat /\ f[2] < Total[f[1]]
    BY <2>1, FragmentParts
  <2>3. f[2] + 1 # Total[f[1]] => <<f[1], f[2] + 1>> \in Fragment
    BY <2>2 DEF Fragment
  <2>4. queueing' \in [Thread -> Fragment \cup {Idle}]
    BY <1>2, <2>3 DEF Put, TypeOK
  <2>5. /\ outbox' \in [Node -> Seq(Fragment)]
        /\ \A n \in Node : Len(outbox'[n]) <= Capacity
        /\ lost' \subseteq Fragment
    <3>1. CASE Len(outbox[Host[t]]) < Capacity
      <4>1. /\ outbox' = [outbox EXCEPT ![Host[t]] = Append(@, f)]
            /\ lost' = lost
        BY <1>2, <2>1, <3>1 DEF Put, TypeOK
      <4>2. /\ Append(outbox[Host[t]], f) \in Seq(Fragment)
            /\ Len(Append(outbox[Host[t]], f)) = Len(outbox[Host[t]]) + 1
        BY <2>1, AppendPlaces DEF TypeOK
      <4>3. Len(outbox[Host[t]]) \in Nat
        BY <2>1 DEF TypeOK
      <4> QED BY <2>1, <3>1, <4>1, <4>2, <4>3 DEF TypeOK
    <3>2. CASE ~(Len(outbox[Host[t]]) < Capacity)
      BY <1>2, <2>1, <3>2 DEF Put, TypeOK
    <3> QED BY <3>1, <3>2
  <2>6. causes' \subseteq Causes
    BY <1>2 DEF Put, TypeOK, Causes
  <2> QED BY <1>2, <2>4, <2>5, <2>6 DEF Put, TypeOK
<1>3. ASSUME NEW n \in Node, Lose(n) PROVE TypeOK'
  <2>1. outbox[n] \in Seq(Fragment) /\ outbox[n] # <<>>
    BY <1>3 DEF Lose, TypeOK
  <2>2. /\ Tail(outbox[n]) \in Seq(Fragment)
        /\ Head(outbox[n]) \in Fragment
        /\ Len(Tail(outbox[n])) <= Capacity
    BY <2>1, TailPlaces DEF TypeOK
  <2> QED BY <1>3, <2>2 DEF Lose, TypeOK
<1>4. ASSUME NEW n \in Node, Receive(n) PROVE TypeOK'
  <2> DEFINE f == Head(outbox[n])
             k == KeyOf(f[1])
             P == With(packets[k], f)
             returns == Complete(P, f) /\ ~Expired(k)
  <2>1. outbox[n] \in Seq(Fragment) /\ outbox[n] # <<>>
    BY <1>4 DEF Receive, TypeOK
  <2>2. /\ Tail(outbox[n]) \in Seq(Fragment)
        /\ f \in Fragment
        /\ Len(Tail(outbox[n])) <= Capacity
    BY <2>1, TailPlaces DEF TypeOK
  <2>3. k \in Key /\ f[1] \in Message
    BY <2>2, FragmentParts
  <2>4. P \subseteq Fragment
    BY <2>2, <2>3 DEF TypeOK, Partial, With
  <2>5. packets' = Without(f, returns)
    BY <1>4 DEF Receive
  <2>6. /\ DOMAIN packets' = Key
        /\ \A j \in Key : Partial(j, packets'[j])
    <3>1. DOMAIN packets' = Key
      BY <2>5 DEF Without
    <3>2. ASSUME NEW j \in Key PROVE Partial(j, packets'[j])
      <4>1. packets'[j] = IF Expired(j) \/ (returns /\ j = k) THEN {}
                          ELSE [packets EXCEPT ![k] = With(@, f)][j]
        BY <2>5 DEF Without
      <4>2. Partial(j, {})
        BY DEF Partial
      <4>3. CASE j # k
        BY <2>3, <3>2, <4>1, <4>2, <4>3 DEF TypeOK
      <4>4. CASE j = k
        <5>1. Partial(k, packets[k])
          BY <2>3 DEF TypeOK
        <5>2. ~Complete(P, f) => Partial(k, P)
          BY <2>2, <5>1, WithIsPartial
        <5>3. Expired(j) \/ returns => packets'[j] = {}
          BY <4>1, <4>4
        <5>4. ~Expired(j) /\ ~returns => packets'[j] = P /\ ~Complete(P, f)
          BY <2>3, <4>1, <4>4 DEF TypeOK
        <5> QED BY <4>2, <4>4, <5>2, <5>3, <5>4
      <4> QED BY <4>3, <4>4
    <3> QED BY <3>1, <3>2
  <2>7. age' \in [Key -> 0 .. Timeout + 1]
    BY <1>4 DEF Receive, TypeOK
  <2>8. returned' \subseteq SUBSET Fragment /\ handed' \subseteq Message \cup {Garbled}
    <3>1. \A r \in Readings(P, f) : r \subseteq Message \cup {Garbled}
      BY DEF Readings
    <3> QED BY <1>4, <2>4, <3>1 DEF Receive, TypeOK
  <2>9. causes' \subseteq Causes
    BY <1>4 DEF Receive, TypeOK, Causes
  <2>10. /\ outbox' \in [Node -> Seq(Fragment)]
         /\ \A o \in Node : Len(outbox'[o]) <= Capacity
    BY <1>4, <2>2 DEF Receive, TypeOK
  <2> QED BY <1>4, <2>6, <2>7, <2>8, <2>9, <2>10 DEF Receive, TypeOK
<1>5. CASE Tick
  BY <1>5 DEF Tick, TypeOK
<1>6. CASE UNCHANGED vars
  BY <1>6 DEF vars, TypeOK, Partial, Complete, KeyOf
<1> QED BY <1>1, <1>2, <1>3, <1>4, <1>5, <1>6 DEF Next

\* The types of the outboxes, buffers and histories, and that every buffer of
\* the reassembly is partial.
THEOREM TypeCorrect == Spec => []TypeOK
BY TypeInit, TypeStep, PTL DEF Spec

-----------------------------------------------------------------------------
(* No packet twice: a packet is first not yet queued, then at one place of  *)
(* one outbox, then heard at most once.                                     *)

Arrived(f) == (\E k \in Key : f \in packets[k]) \/ (\E P \in returned : f \in P)

Ahead(t, f) == queueing[t] # Idle /\ queueing[t][1] = f[1] /\ queueing[t][2] <= f[2]

Unqueued(f) == f[1] \notin sent \/ \E t \in Thread : Ahead(t, f)

OneQueuer ==
    /\ \A t \in Thread : queueing[t] # Idle => queueing[t][1] \in sent
    /\ \A t, u \in Thread :
          (queueing[t] # Idle /\ queueing[u] # Idle /\ queueing[t][1] = queueing[u][1]) => t = u

UnqueuedIsNowhere ==
    \A f \in Fragment : Unqueued(f) =>
        /\ ~Arrived(f)
        /\ \A n \in Node : \A i \in 1 .. Len(outbox[n]) : outbox[n][i] # f

OnePlace ==
    \A n, o \in Node : \A i \in 1 .. Len(outbox[n]), j \in 1 .. Len(outbox[o]) :
        outbox[n][i] = outbox[o][j] => n = o /\ i = j

QueuedIsNew == \A n \in Node : \A i \in 1 .. Len(outbox[n]) : ~Arrived(outbox[n][i])

Once == OneQueuer /\ UnqueuedIsNowhere /\ OnePlace /\ QueuedIsNew /\ NoPacketTwice

\* When an outbox loses its head, what is left stood one place further on.
LEMMA Shift ==
    ASSUME TypeOK, NEW n \in Node, outbox[n] # <<>>,
           outbox' = [outbox EXCEPT ![n] = Tail(@)]
    PROVE  /\ 1 \in 1 .. Len(outbox[n])
           /\ Head(outbox[n]) = outbox[n][1]
           /\ \A o \in Node \ {n} : outbox'[o] = outbox[o]
           /\ \A i \in 1 .. Len(outbox'[n]) :
                 i + 1 \in 1 .. Len(outbox[n]) /\ outbox'[n][i] = outbox[n][i + 1]
<1>1. outbox[n] \in Seq(Fragment)
  BY DEF TypeOK
<1>2. /\ Len(outbox[n]) \in Nat \ {0}
      /\ Head(outbox[n]) = outbox[n][1]
      /\ Len(Tail(outbox[n])) = Len(outbox[n]) - 1
      /\ \A i \in 1 .. Len(outbox[n]) - 1 : Tail(outbox[n])[i] = outbox[n][i + 1]
  BY <1>1, TailPlaces
<1>3. outbox'[n] = Tail(outbox[n]) /\ \A o \in Node \ {n} : outbox'[o] = outbox[o]
  BY DEF TypeOK
<1>4. ASSUME NEW i \in 1 .. Len(outbox'[n])
      PROVE  i + 1 \in 1 .. Len(outbox[n]) /\ outbox'[n][i] = outbox[n][i + 1]
  <2>1. i \in 1 .. Len(outbox[n]) - 1
    BY <1>2, <1>3
  <2>2. i + 1 \in 1 .. Len(outbox[n])
    BY <1>2, <2>1
  <2> QED BY <1>2, <1>3, <2>1, <2>2
<1>5. 1 \in 1 .. Len(outbox[n])
  BY <1>2
<1> QED BY <1>2, <1>3, <1>4, <1>5

\* What it leaves in the outboxes is still there once, and is not the head.
LEMMA ShiftKeeps ==
    ASSUME TypeOK, Once, NEW n \in Node, outbox[n] # <<>>,
           outbox' = [outbox EXCEPT ![n] = Tail(@)]
    PROVE  /\ OnePlace'
           /\ \A o \in Node : \A i \in 1 .. Len(outbox'[o]) :
                 /\ outbox'[o][i] # Head(outbox[n])
                 /\ \E j \in 1 .. Len(outbox[o]) : outbox'[o][i] = outbox[o][j]
<1> DEFINE at(o, i) == IF o = n THEN i + 1 ELSE i
<1>1. /\ 1 \in 1 .. Len(outbox[n])
      /\ Head(outbox[n]) = outbox[n][1]
      /\ \A o \in Node : \A i \in 1 .. Len(outbox'[o]) :
            at(o, i) \in 1 .. Len(outbox[o]) /\ outbox'[o][i] = outbox[o][at(o, i)]
  <2>1. ASSUME NEW o \in Node, NEW i \in 1 .. Len(outbox'[o])
        PROVE  at(o, i) \in 1 .. Len(outbox[o]) /\ outbox'[o][i] = outbox[o][at(o, i)]
    <3>1. CASE o = n
      <4>1. i \in 1 .. Len(outbox'[n])
        BY <3>1
      <4>2. i + 1 \in 1 .. Len(outbox[n]) /\ outbox'[n][i] = outbox[n][i + 1]
        BY <4>1, Shift
      <4> QED BY <3>1, <4>2
    <3>2. CASE o # n
      <4>1. outbox'[o] = outbox[o]
        BY Shift, <3>2
      <4> QED BY <3>2, <4>1
    <3> QED BY <3>1, <3>2
  <2> QED BY Shift, <2>1
<1>2. OnePlace'
  <2> SUFFICES ASSUME NEW o \in Node, NEW p \in Node,
                      NEW i \in 1 .. Len(outbox'[o]), NEW j \in 1 .. Len(outbox'[p]),
                      outbox'[o][i] = outbox'[p][j]
               PROVE  o = p /\ i = j
    BY DEF OnePlace
  <2>1. o = p /\ at(o, i) = at(p, j)
    BY <1>1 DEF Once, OnePlace
  <2> QED BY <2>1
<1>3. ASSUME NEW o \in Node, NEW i \in 1 .. Len(outbox'[o])
      PROVE  outbox'[o][i] # Head(outbox[n])
  <2>1. ~(o = n /\ at(o, i) = 1)
    OBVIOUS
  <2> QED BY <1>1, <2>1 DEF Once, OnePlace
<1>4. ASSUME NEW o \in Node, NEW i \in 1 .. Len(outbox'[o])
      PROVE  \E j \in 1 .. Len(outbox[o]) : outbox'[o][i] = outbox[o][j]
  <2>1. at(o, i) \in 1 .. Len(outbox[o]) /\ outbox'[o][i] = outbox[o][at(o, i)]
    BY <1>1
  <2> HIDE DEF at
  <2> QED BY <2>1
<1> QED BY <1>2, <1>3, <1>4

LEMMA OnceInit == Init => Once
BY DEF Init, Once, OneQueuer, UnqueuedIsNowhere, Unqueued, Ahead, OnePlace, QueuedIsNew, Arrived,
       NoPacketTwice

LEMMA BeginOnce ==
    ASSUME TypeOK, Once, NEW t \in Thread, NEW m \in Message, Begin(t, m)
    PROVE  Once'
<1>1. queueing' = [queueing EXCEPT ![t] = <<m, 0>>] /\ sent' = sent \cup {m} /\ m \notin sent
  BY DEF Begin
<1>2. UNCHANGED <<outbox, packets, returned>>
  BY DEF Begin
<1>3. OneQueuer'
  BY <1>1 DEF Once, OneQueuer, TypeOK
<1>4. ASSUME NEW f \in Fragment, Unqueued(f)' PROVE Unqueued(f)
  BY <1>1, <1>4 DEF Unqueued, Ahead, TypeOK
<1>5. UnqueuedIsNowhere'
  BY <1>2, <1>4 DEF Once, UnqueuedIsNowhere, Arrived
<1> QED BY <1>2, <1>3, <1>5 DEF Once, OnePlace, QueuedIsNew, Arrived, NoPacketTwice

LEMMA PutOnce ==
    ASSUME TypeOK, Once, NEW t \in Thread, Put(t)
    PROVE  Once'
<1> DEFINE f == queueing[t]
           n == Host[t]
<1>1. f \in Fragment /\ f # Idle /\ n \in Node
  BY FramingConstants DEF Put, TypeOK
<1>2. f[1] \in Message /\ f[2] \in Nat
  BY <1>1, FragmentParts
<1>3. /\ queueing' = [queueing EXCEPT ![t] = IF f[2] + 1 = Total[f[1]] THEN Idle ELSE <<f[1], f[2] + 1>>]
      /\ UNCHANGED <<sent, packets, returned>>
  BY DEF Put
<1>4. OneQueuer'
  <2>1. ASSUME NEW u \in Thread, queueing'[u] # Idle
        PROVE  queueing[u] # Idle /\ queueing'[u][1] = queueing[u][1]
    BY <1>1, <1>3, <2>1 DEF TypeOK
  <2> QED BY <1>3, <2>1 DEF Once, OneQueuer
<1>5. Unqueued(f)
  BY <1>1, <1>2 DEF Unqueued, Ahead
<1>6. ASSUME NEW g \in Fragment, Unqueued(g)' PROVE Unqueued(g) /\ g # f
  <2>1. g[1] \in Message /\ g[2] \in Nat
    BY FragmentParts
  <2>2. CASE g[1] \notin sent
    BY <1>1, <2>2 DEF Once, OneQueuer, Unqueued
  <2>3. CASE g[1] \in sent
    <3>1. PICK u \in Thread : Ahead(u, g)'
      BY <1>3, <1>6, <2>3 DEF Unqueued
    <3>2. CASE u = t
      <4>1. queueing'[t] = <<f[1], f[2] + 1>>
        BY <1>3, <3>1, <3>2 DEF Ahead, TypeOK
      <4>2. f[1] = g[1] /\ f[2] + 1 <= g[2]
        BY <3>1, <3>2, <4>1 DEF Ahead
      <4> QED BY <1>1, <1>2, <2>1, <4>2 DEF Ahead, Unqueued
    <3>3. CASE u # t
      <4>1. Ahead(u, g)
        BY <1>3, <3>1, <3>3 DEF Ahead, TypeOK
      <4>2. g # f
        BY <1>1, <3>3, <4>1 DEF Ahead, Once, OneQueuer
      <4> QED BY <4>1, <4>2 DEF Unqueued
    <3> QED BY <3>2, <3>3
  <2> QED BY <2>2, <2>3
<1>7. /\ ~Arrived(f)
      /\ \A o \in Node : \A i \in 1 .. Len(outbox[o]) : outbox[o][i] # f
  BY <1>1, <1>5 DEF Once, UnqueuedIsNowhere
<1>8. CASE outbox' = outbox
  BY <1>3, <1>4, <1>6, <1>8 DEF Once, UnqueuedIsNowhere, OnePlace, QueuedIsNew, Arrived, NoPacketTwice
<1>9. CASE outbox' = [outbox EXCEPT ![n] = Append(@, f)]
  <2>1. /\ Len(outbox[n]) \in Nat
        /\ Len(Append(outbox[n], f)) = Len(outbox[n]) + 1
        /\ \A i \in 1 .. Len(outbox[n]) : Append(outbox[n], f)[i] = outbox[n][i]
        /\ Append(outbox[n], f)[Len(outbox[n]) + 1] = f
    BY <1>1, AppendPlaces DEF TypeOK
  <2>2. \A o \in Node : outbox'[o] = IF o = n THEN Append(outbox[n], f) ELSE outbox[o]
    BY <1>9 DEF TypeOK
  <2>3. ASSUME NEW o \in Node, NEW i \in 1 .. Len(outbox'[o])
        PROVE  \/ o = n /\ i = Len(outbox[n]) + 1 /\ outbox'[o][i] = f
               \/ i \in 1 .. Len(outbox[o]) /\ outbox'[o][i] = outbox[o][i]
    <3>1. CASE o # n
      BY <2>2, <3>1
    <3>2. CASE o = n
      <4>1. outbox'[o] = Append(outbox[n], f)
        BY <2>2, <3>2
      <4>2. i = Len(outbox[n]) + 1 \/ i \in 1 .. Len(outbox[n])
        BY <2>1, <4>1
      <4> QED BY <2>1, <3>2, <4>1, <4>2
    <3> QED BY <3>1, <3>2
  <2>4. OnePlace'
    <3> SUFFICES ASSUME NEW o \in Node, NEW p \in Node,
                        NEW i \in 1 .. Len(outbox'[o]), NEW j \in 1 .. Len(outbox'[p]),
                        outbox'[o][i] = outbox'[p][j]
                 PROVE  o = p /\ i = j
      BY DEF OnePlace
    <3> QED BY <1>7, <2>3 DEF Once, OnePlace
  <2>5. QueuedIsNew'
    BY <1>3, <1>7, <2>3 DEF Once, QueuedIsNew, Arrived
  <2>6. UnqueuedIsNowhere'
    BY <1>3, <1>6, <2>3 DEF Once, UnqueuedIsNowhere, Arrived
  <2> QED BY <1>3, <1>4, <2>4, <2>5, <2>6 DEF Once, NoPacketTwice
<1> QED BY <1>8, <1>9 DEF Put

LEMMA LoseOnce ==
    ASSUME TypeOK, Once, NEW n \in Node, Lose(n)
    PROVE  Once'
<1>1. outbox[n] # <<>> /\ outbox' = [outbox EXCEPT ![n] = Tail(@)]
  BY DEF Lose
<1>2. UNCHANGED <<queueing, sent, packets, returned>>
  BY DEF Lose
<1>3. /\ OnePlace'
      /\ \A o \in Node : \A i \in 1 .. Len(outbox'[o]) :
            /\ outbox'[o][i] # Head(outbox[n])
            /\ \E j \in 1 .. Len(outbox[o]) : outbox'[o][i] = outbox[o][j]
  BY <1>1, ShiftKeeps
<1>4. QueuedIsNew'
  BY <1>2, <1>3 DEF Once, QueuedIsNew, Arrived
<1>5. UnqueuedIsNowhere'
  BY <1>2, <1>3 DEF Once, UnqueuedIsNowhere, Unqueued, Ahead, Arrived
<1> QED BY <1>2, <1>3, <1>4, <1>5 DEF Once, OneQueuer, NoPacketTwice

LEMMA ReceiveOnce ==
    ASSUME TypeOK, Once, NEW n \in Node, Receive(n)
    PROVE  Once'
<1> DEFINE f == Head(outbox[n])
           k == KeyOf(f[1])
           P == With(packets[k], f)
           returns == Complete(P, f) /\ ~Expired(k)
<1>1. outbox[n] # <<>> /\ outbox' = [outbox EXCEPT ![n] = Tail(@)]
  BY DEF Receive
<1>2. /\ UNCHANGED <<queueing, sent>>
      /\ packets' = Without(f, returns)
      /\ returned' = IF returns THEN returned \cup {P} ELSE returned
  BY DEF Receive
<1>3. f \in Fragment /\ k \in Key
  BY <1>1, TailPlaces, FragmentParts DEF TypeOK
<1>4. ~Arrived(f) /\ ~Unqueued(f)
  <2>1. 1 \in 1 .. Len(outbox[n]) /\ f = outbox[n][1]
    BY <1>1, Shift
  <2> QED BY <1>3, <2>1 DEF Once, QueuedIsNew, UnqueuedIsNowhere
<1>5. /\ OnePlace'
      /\ \A o \in Node : \A i \in 1 .. Len(outbox'[o]) :
            /\ outbox'[o][i] # f
            /\ \E j \in 1 .. Len(outbox[o]) : outbox'[o][i] = outbox[o][j]
  BY <1>1, ShiftKeeps
<1>6. P \subseteq packets[k] \cup {f}
  BY DEF With
<1>7. ASSUME NEW j \in Key
      PROVE  /\ j # k => packets'[j] \subseteq packets[j]
             /\ j = k => packets'[j] \subseteq P
             /\ j = k /\ returns => packets'[j] = {}
  BY <1>2, <1>3 DEF Without, TypeOK
<1>8. \A g : Arrived(g)' => Arrived(g) \/ g = f
  BY <1>2, <1>3, <1>6, <1>7 DEF Arrived
<1>9. QueuedIsNew'
  BY <1>5, <1>8 DEF Once, QueuedIsNew
<1>10. UnqueuedIsNowhere'
  <2>1. \A g \in Fragment : Unqueued(g)' => Unqueued(g)
    BY <1>2 DEF Unqueued, Ahead
  <2> QED BY <1>4, <1>5, <1>8, <2>1 DEF Once, UnqueuedIsNowhere
<1>11. \A Q \in returned : P \cap Q = {}
  BY <1>3, <1>4, <1>6 DEF Once, NoPacketTwice, Arrived
<1>12. ASSUME NEW j \in Key, j # k PROVE packets[j] \cap P = {}
  <2>1. \A g \in packets[j] : KeyOf(g[1]) = j
    BY DEF TypeOK, Partial
  <2>2. \A g \in P : KeyOf(g[1]) = k
    BY <1>3, <1>6 DEF TypeOK, Partial
  <2> QED BY <1>12, <2>1, <2>2
<1>13. NoPacketTwice'
  <2>1. \A Q, R \in returned' : Q # R => Q \cap R = {}
    BY <1>2, <1>11 DEF Once, NoPacketTwice
  <2>2. ASSUME NEW j \in Key, NEW Q \in returned' PROVE packets'[j] \cap Q = {}
    <3>1. CASE Q \in returned
      BY <1>7, <1>11, <3>1 DEF Once, NoPacketTwice
    <3>2. CASE returns /\ Q = P
      BY <1>7, <1>12, <3>2
    <3> QED BY <1>2, <3>1, <3>2
  <2> QED BY <2>1, <2>2 DEF NoPacketTwice
<1> QED BY <1>2, <1>5, <1>9, <1>10, <1>13 DEF Once, OneQueuer

LEMMA OnceStep == TypeOK /\ Once /\ [Next]_vars => Once'
<1> SUFFICES ASSUME TypeOK, Once, [Next]_vars PROVE Once'
  OBVIOUS
<1> DEFINE parts == <<queueing, outbox, packets, sent, returned>>
<1>1. CASE UNCHANGED parts
  BY <1>1 DEF Once, OneQueuer, UnqueuedIsNowhere, Unqueued, Ahead, OnePlace, QueuedIsNew, Arrived,
              NoPacketTwice
<1>2. Tick => UNCHANGED parts
  BY DEF Tick
<1>3. UNCHANGED vars => UNCHANGED parts
  BY DEF vars
<1> QED BY <1>1, <1>2, <1>3, BeginOnce, PutOnce, LoseOnce, ReceiveOnce DEF Next

\* No packet is joined into two messages nor kept once it was joined, whatever
\* is lost, dropped, mixed or late: each stands at one place of one outbox and
\* is heard once.
THEOREM PacketsAreJoinedOnce == Spec => []NoPacketTwice
<1>1. Once => NoPacketTwice
  BY DEF Once
<1> QED BY <1>1, TypeInit, TypeStep, OnceInit, OnceStep, PTL DEF Spec

-----------------------------------------------------------------------------
(* What reassembly returns while nothing has spoiled it                    *)

\* Queued or about to be, and not yet sent.
Waits(f) ==
    \/ \E t \in Thread : Ahead(t, f)
    \/ \E n \in Node : \E i \in 1 .. Len(outbox[n]) : outbox[n][i] = f

Heard(f) == f[1] \in sent /\ ~Waits(f) /\ f \notin lost

Halfway(t, m) == queueing[t] # Idle /\ queueing[t][1] = m /\ queueing[t][2] > 0

\* Messages are queued by their own node, and stay in its outbox.
AtHome ==
    /\ \A t \in Thread : queueing[t] # Idle => From[queueing[t][1]] = Host[t]
    /\ \A n \in Node : \A i \in 1 .. Len(outbox[n]) : From[outbox[n][i][1]] = n

\* The packets of one message leave in the order of their places.
Rising ==
    \A n \in Node : \A i, j \in 1 .. Len(outbox[n]) :
        i < j /\ outbox[n][i][1] = outbox[n][j][1] => outbox[n][i][2] < outbox[n][j][2]

\* No two threads are halfway through messages of one key.
OneHalfway ==
    \A t, u \in Thread, m, w \in Message :
        Halfway(t, m) /\ Halfway(u, w) /\ KeyOf(m) = KeyOf(w) => t = u

\* A packet of m comes after place i of n's outbox.
Behind(m, n, i) ==
    \/ \E j \in 1 .. Len(outbox[n]) : i < j /\ outbox[n][j][1] = m
    \/ \E t \in Thread : Halfway(t, m)

\* Messages of one key leave in turns: a message of which a packet comes after
\* one of another message has none before it.
InTurns ==
    \A n \in Node : \A i \in 1 .. Len(outbox[n]) : \A m \in Message :
        m # outbox[n][i][1] /\ KeyOf(m) = KeyOf(outbox[n][i][1]) /\ Behind(m, n, i) =>
            /\ \A j \in 1 .. i - 1 : outbox[n][j][1] # m
            /\ \A f \in Fragment : f[1] = m => ~Heard(f)

\* While packets of a message are to come, those heard are in its buffer.
HeardIsKept ==
    \A f, g \in Fragment : f[1] = g[1] /\ f[2] < g[2] /\ Heard(f) /\ Waits(g) =>
        f \in packets[KeyOf(f[1])]

\* No buffer holds the last packet of a message.
LastIsJoined == \A k \in Key : \A f \in packets[k] : f[2] + 1 # Total[f[1]]

LastIsHanded == \A f \in Fragment : Heard(f) /\ f[2] + 1 = Total[f[1]] => CameThrough(f[1])

ReturnedAreWhole == \A P \in returned : \E m \in Message : P = FragmentsOf(m)

Unspoilt ==
    OneHalfway /\ InTurns /\ HeardIsKept /\ LastIsJoined /\ LastIsHanded /\ ReturnedAreWhole

Whole == AtHome /\ Rising /\ (causes = {} => Unspoilt)

-----------------------------------------------------------------------------
(* Counting packets                                                        *)

\* Without its last place a buffer of packets, one per place, is never full.
LEMMA LastPlaceFills ==
    ASSUME NEW T \in Nat \ {0}, NEW P,
           \A f \in P : f[2] \in Nat /\ f[2] < T /\ f[2] + 1 # T,
           \A f, g \in P : f[2] = g[2] => f = g
    PROVE  Cardinality(P) # T
<1> DEFINE F == [f \in P |-> f[2]]
<1>1. F \in [P -> 0 .. T - 2]
  OBVIOUS
<1>2. F \in Injection(P, 0 .. T - 2)
  BY <1>1 DEF Injection, IsInjective
<1>3. IsFiniteSet(0 .. T - 2) /\ Cardinality(0 .. T - 2) = T - 1
  BY FS_Interval
<1>4. Cardinality(P) <= T - 1 /\ IsFiniteSet(P)
  BY <1>2, <1>3, FS_Injection
<1>5. Cardinality(P) \in Nat
  BY <1>4, FS_CardinalityType
<1> QED BY <1>4, <1>5

LEMMA WholeIsFull ==
    ASSUME NEW m \in Message
    PROVE  Cardinality(FragmentsOf(m)) = Total[m]
<1> DEFINE T == Total[m]
<1>1. T \in Nat \ {0}
  BY FramingConstants
<1> HIDE DEF T
<1>2. IsFiniteSet(0 .. T - 1) /\ Cardinality(0 .. T - 1) = T
  <2>1. 0 \in Int /\ T - 1 \in Int /\ ~(0 > T - 1) /\ (T - 1) - 0 + 1 = T
    BY <1>1
  <2> QED BY <2>1, FS_Interval
<1>3. IsFiniteSet({m}) /\ Cardinality({m}) = 1
  BY FS_Singleton
<1>4. Cardinality({m} \X (0 .. T - 1)) = 1 * T
  BY <1>2, <1>3, FS_Product
<1> QED BY <1>1, <1>4 DEF FragmentsOf, T

-----------------------------------------------------------------------------
(* What the steps do to the packets that wait and those that were heard    *)

At(n, o, i) == IF o = n THEN i + 1 ELSE i

LEMMA ShiftAt ==
    ASSUME TypeOK, NEW n \in Node, outbox[n] # <<>>,
           outbox' = [outbox EXCEPT ![n] = Tail(@)]
    PROVE  \A o \in Node : \A i \in 1 .. Len(outbox'[o]) :
              At(n, o, i) \in 1 .. Len(outbox[o]) /\ outbox'[o][i] = outbox[o][At(n, o, i)]
<1> SUFFICES ASSUME NEW o \in Node, NEW i \in 1 .. Len(outbox'[o])
             PROVE  At(n, o, i) \in 1 .. Len(outbox[o]) /\ outbox'[o][i] = outbox[o][At(n, o, i)]
  OBVIOUS
<1>1. CASE o = n
  <2>1. i \in 1 .. Len(outbox'[n])
    BY <1>1
  <2>2. i + 1 \in 1 .. Len(outbox[n]) /\ outbox'[n][i] = outbox[n][i + 1]
    BY <2>1, Shift
  <2> QED BY <1>1, <2>2 DEF At
<1>2. CASE o # n
  <2>1. outbox'[o] = outbox[o]
    BY Shift, <1>2
  <2> QED BY <1>2, <2>1 DEF At
<1> QED BY <1>1, <1>2

\* All that waited waits on, but for the packet that was sent.
LEMMA PopWaits ==
    ASSUME TypeOK, Once, NEW n \in Node, outbox[n] # <<>>,
           outbox' = [outbox EXCEPT ![n] = Tail(@)], queueing' = queueing,
           NEW g \in Fragment
    PROVE  Waits(g)' <=> (Waits(g) /\ g # Head(outbox[n]))
<1> DEFINE f == Head(outbox[n])
<1>1. 1 \in 1 .. Len(outbox[n]) /\ f = outbox[n][1] /\ f \in Fragment
  BY Shift, TailPlaces DEF TypeOK
<1>2. /\ \A o \in Node : \A i \in 1 .. Len(outbox'[o]) :
            /\ outbox'[o][i] # f
            /\ \E j \in 1 .. Len(outbox[o]) : outbox'[o][i] = outbox[o][j]
  BY ShiftKeeps
<1>3. \A t \in Thread : ~Ahead(t, f)
  BY <1>1 DEF Once, UnqueuedIsNowhere, Unqueued
<1>4. \A t \in Thread : Ahead(t, g)' <=> Ahead(t, g)
  BY DEF Ahead
<1>5. Waits(g)' => Waits(g) /\ g # f
  <2>1. ASSUME NEW t \in Thread, Ahead(t, g)' PROVE Waits(g) /\ g # f
    <3>1. Ahead(t, g) /\ ~Ahead(t, f)
      BY <1>3, <1>4, <2>1
    <3> QED BY <3>1 DEF Waits
  <2>2. ASSUME NEW o \in Node, NEW i \in 1 .. Len(outbox'[o]), outbox'[o][i] = g
        PROVE  Waits(g) /\ g # f
    BY <1>2, <2>2 DEF Waits
  <2> QED BY <2>1, <2>2 DEF Waits
<1>6. ASSUME Waits(g), g # f PROVE Waits(g)'
  <2>1. CASE \E t \in Thread : Ahead(t, g)
    BY <1>4, <2>1 DEF Waits
  <2>2. ASSUME NEW o \in Node, NEW i \in 1 .. Len(outbox[o]), outbox[o][i] = g
        PROVE  Waits(g)'
    <3>1. CASE o # n
      <4>1. outbox'[o] = outbox[o]
        BY <3>1, Shift
      <4> QED BY <2>2, <4>1 DEF Waits
    <3>2. CASE o = n
      <4>1. /\ Len(outbox[n]) \in Nat
            /\ outbox'[n] = Tail(outbox[n])
            /\ Len(Tail(outbox[n])) = Len(outbox[n]) - 1
            /\ \A j \in 1 .. Len(outbox[n]) - 1 : Tail(outbox[n])[j] = outbox[n][j + 1]
        BY TailPlaces DEF TypeOK
      <4>2. i \in 1 .. Len(outbox[n]) /\ i # 1
        BY <1>1, <1>6, <2>2, <3>2
      <4>3. i - 1 \in 1 .. Len(outbox[n]) - 1 /\ (i - 1) + 1 = i
        BY <4>1, <4>2
      <4>4. outbox'[n][i - 1] = g
        BY <2>2, <3>2, <4>1, <4>3
      <4>5. i - 1 \in 1 .. Len(outbox'[n])
        BY <4>1, <4>3
      <4> QED BY <4>4, <4>5 DEF Waits
    <3> QED BY <3>1, <3>2
  <2> QED BY <1>6, <2>1, <2>2 DEF Waits
<1> QED BY <1>5, <1>6

LEMMA BeginHears ==
    ASSUME TypeOK, NEW t \in Thread, NEW m \in Message, Begin(t, m), NEW g \in Fragment
    PROVE  /\ Heard(g)' => Heard(g) /\ g[1] # m
           /\ Waits(g)' => Waits(g) \/ g[1] = m
<1>1. /\ queueing[t] = Idle /\ queueing' = [queueing EXCEPT ![t] = <<m, 0>>]
      /\ sent' = sent \cup {m} /\ UNCHANGED <<outbox, lost>>
  BY DEF Begin
<1>2. g[2] \in Nat /\ g[1] \in Message
  BY FragmentParts
<1>3. queueing'[t] = <<m, 0>> /\ queueing'[t] # Idle
      /\ \A u \in Thread \ {t} : queueing'[u] = queueing[u]
  BY <1>1, FramingConstants DEF TypeOK
<1>4. g[1] = m => Ahead(t, g)'
  BY <1>2, <1>3 DEF Ahead
<1>5. \A u \in Thread : Ahead(u, g) => Ahead(u, g)'
  BY <1>1, <1>3 DEF Ahead
<1>6. \A u \in Thread : Ahead(u, g)' => Ahead(u, g) \/ g[1] = m
  BY <1>3 DEF Ahead
<1>7. Waits(g) => Waits(g)'
  BY <1>1, <1>5 DEF Waits
<1>8. g[1] = m => Waits(g)'
  BY <1>4 DEF Waits
<1>9. Waits(g)' => Waits(g) \/ g[1] = m
  BY <1>1, <1>6 DEF Waits
<1> QED BY <1>1, <1>7, <1>8, <1>9 DEF Heard

LEMMA PutHears ==
    ASSUME TypeOK, NEW t \in Thread, Put(t), NEW g \in Fragment
    PROVE  (Heard(g)' => Heard(g)) /\ (Waits(g)' => Waits(g))
<1> DEFINE n == Host[t]
<1>0. PICK f \in Fragment : f = queueing[t]
  BY DEF Put, TypeOK
<1>1. f \in Fragment /\ f # Idle /\ n \in Node
  BY <1>0, FramingConstants DEF Put
<1>2. f = <<f[1], f[2]>> /\ f[2] \in Nat /\ f[2] < Total[f[1]] /\ Total[f[1]] \in Nat
  BY <1>1, FragmentParts, FramingConstants
<1>3. g = <<g[1], g[2]>> /\ g[2] \in Nat /\ g[2] < Total[g[1]]
  BY FragmentParts
<1>4. /\ queueing'[t] = IF f[2] + 1 = Total[f[1]] THEN Idle ELSE <<f[1], f[2] + 1>>
      /\ \A u \in Thread \ {t} : queueing'[u] = queueing[u]
      /\ sent' = sent
  BY <1>0 DEF Put, TypeOK
<1>5. Ahead(t, f)
  BY <1>0, <1>1, <1>2 DEF Ahead
<1>6. \A u \in Thread : Ahead(u, g)' => Ahead(u, g)
  BY <1>0, <1>1, <1>2, <1>3, <1>4 DEF Ahead
<1>7. \A u \in Thread : Ahead(u, g) /\ g # f => Ahead(u, g)'
  <2>1. ASSUME Ahead(t, g), g # f PROVE Ahead(t, g)'
    <3>1. f[1] = g[1] /\ f[2] <= g[2]
      BY <1>0, <2>1 DEF Ahead
    <3>2. f[2] # g[2]
      BY <1>2, <1>3, <2>1, <3>1
    <3>3. f[2] + 1 <= g[2] /\ f[2] + 1 # Total[f[1]]
      BY <1>2, <1>3, <3>1, <3>2
    <3>4. queueing'[t] = <<f[1], f[2] + 1>>
      BY <1>4, <3>3
    <3>5. queueing'[t] # Idle
      BY <1>1, <1>2, <3>4, FragmentParts, FramingConstants
    <3> QED BY <3>1, <3>3, <3>4, <3>5 DEF Ahead
  <2> QED BY <1>4, <2>1 DEF Ahead
<1>8. CASE outbox' = [outbox EXCEPT ![n] = Append(@, f)] /\ lost' = lost
  <2>1. /\ Len(outbox[n]) \in Nat
        /\ Len(Append(outbox[n], f)) = Len(outbox[n]) + 1
        /\ \A i \in 1 .. Len(outbox[n]) : Append(outbox[n], f)[i] = outbox[n][i]
        /\ Append(outbox[n], f)[Len(outbox[n]) + 1] = f
    BY <1>1, AppendPlaces DEF TypeOK
  <2>2. outbox'[n] = Append(outbox[n], f) /\ \A o \in Node \ {n} : outbox'[o] = outbox[o]
    BY <1>1, <1>8 DEF TypeOK
  <2>3. \A o \in Node : \A i \in 1 .. Len(outbox[o]) :
           i \in 1 .. Len(outbox'[o]) /\ outbox'[o][i] = outbox[o][i]
    BY <2>1, <2>2
  <2>4. \A o \in Node : \A i \in 1 .. Len(outbox'[o]) :
           outbox'[o][i] = f \/ (i \in 1 .. Len(outbox[o]) /\ outbox'[o][i] = outbox[o][i])
    <3> TAKE o \in Node
    <3> TAKE i \in 1 .. Len(outbox'[o])
    <3>1. CASE o = n
      <4>1. i = Len(outbox[n]) + 1 \/ i \in 1 .. Len(outbox[n])
        BY <2>1, <2>2, <3>1
      <4> QED BY <2>1, <2>2, <3>1, <4>1
    <3>2. CASE o # n
      BY <2>2, <3>2
    <3> QED BY <3>1, <3>2
  <2>5. Waits(f)'
    <3>1. Len(outbox[n]) + 1 \in 1 .. Len(outbox'[n]) /\ outbox'[n][Len(outbox[n]) + 1] = f
      BY <2>1, <2>2
    <3> QED BY <1>1, <3>1 DEF Waits
  <2>6. Waits(g) => Waits(g)'
    BY <1>7, <2>3, <2>5 DEF Waits
  <2>7. Waits(g)' => Waits(g)
    BY <1>5, <1>6, <2>4 DEF Waits
  <2> QED BY <1>4, <1>8, <2>6, <2>7 DEF Heard
<1>9. CASE outbox' = outbox /\ lost' = lost \cup {f}
  <2>1. Waits(g)' => Waits(g)
    BY <1>6, <1>9 DEF Waits
  <2>2. Waits(g) /\ g # f => Waits(g)'
    BY <1>7, <1>9 DEF Waits
  <2> QED BY <1>4, <1>9, <2>1, <2>2 DEF Heard
<1> QED BY <1>0, <1>8, <1>9 DEF Put

\* What a put does to the outbox and to the thread.
LEMMA PutPlaces ==
    ASSUME TypeOK, NEW t \in Thread, Put(t), NEW f \in Fragment, f = queueing[t]
    PROVE  /\ Host[t] \in Node /\ f # Idle
           /\ queueing'[t] = Idle \/ (queueing'[t] = <<f[1], f[2] + 1>> /\ queueing'[t][1] = f[1]
                                       /\ queueing'[t][2] = f[2] + 1)
           /\ \A u \in Thread \ {t} : queueing'[u] = queueing[u]
           /\ \A o \in Node : \A i \in 1 .. Len(outbox[o]) :
                 i \in 1 .. Len(outbox'[o]) /\ outbox'[o][i] = outbox[o][i]
           /\ \A o \in Node : \A i \in 1 .. Len(outbox'[o]) :
                 \/ i \in 1 .. Len(outbox[o]) /\ outbox'[o][i] = outbox[o][i]
                 \/ o = Host[t] /\ i = Len(outbox[o]) + 1 /\ outbox'[o][i] = f
<1> DEFINE n == Host[t]
<1>1. f # Idle /\ n \in Node
  BY FramingConstants DEF Put
<1>2. /\ queueing'[t] = IF f[2] + 1 = Total[f[1]] THEN Idle ELSE <<f[1], f[2] + 1>>
      /\ \A u \in Thread \ {t} : queueing'[u] = queueing[u]
  BY DEF Put, TypeOK
<1>3. CASE outbox' = [outbox EXCEPT ![n] = Append(@, f)]
  <2>1. /\ Len(outbox[n]) \in Nat
        /\ Len(Append(outbox[n], f)) = Len(outbox[n]) + 1
        /\ \A i \in 1 .. Len(outbox[n]) : Append(outbox[n], f)[i] = outbox[n][i]
        /\ Append(outbox[n], f)[Len(outbox[n]) + 1] = f
    BY <1>1, AppendPlaces DEF TypeOK
  <2>2. outbox'[n] = Append(outbox[n], f) /\ \A o \in Node \ {n} : outbox'[o] = outbox[o]
    BY <1>1, <1>3 DEF TypeOK
  <2>3. \A o \in Node : \A i \in 1 .. Len(outbox[o]) :
           i \in 1 .. Len(outbox'[o]) /\ outbox'[o][i] = outbox[o][i]
    BY <2>1, <2>2
  <2>4. \A o \in Node : \A i \in 1 .. Len(outbox'[o]) :
           \/ i \in 1 .. Len(outbox[o]) /\ outbox'[o][i] = outbox[o][i]
           \/ o = n /\ i = Len(outbox[o]) + 1 /\ outbox'[o][i] = f
    <3> TAKE o \in Node
    <3> TAKE i \in 1 .. Len(outbox'[o])
    <3>1. CASE o = n
      <4>1. i = Len(outbox[n]) + 1 \/ i \in 1 .. Len(outbox[n])
        BY <2>1, <2>2, <3>1
      <4> QED BY <2>1, <2>2, <3>1, <4>1
    <3>2. CASE o # n
      BY <2>2, <3>2
    <3> QED BY <3>1, <3>2
  <2> QED BY <1>1, <1>2, <2>3, <2>4
<1>4. CASE outbox' = outbox
  BY <1>1, <1>2, <1>4
<1> QED BY <1>3, <1>4 DEF Put

-----------------------------------------------------------------------------
(* Homes and orders, whatever happens                                      *)

LEMMA RisingInit == Init => AtHome /\ Rising
BY DEF Init, AtHome, Rising

LEMMA RisingStep == TypeOK /\ Once /\ AtHome /\ Rising /\ [Next]_vars => AtHome' /\ Rising'
<1> SUFFICES ASSUME TypeOK, Once, AtHome, Rising, [Next]_vars PROVE AtHome' /\ Rising'
  OBVIOUS
<1>1. ASSUME NEW t \in Thread, NEW m \in Message, Begin(t, m) PROVE AtHome' /\ Rising'
  <2>1. queueing' = [queueing EXCEPT ![t] = <<m, 0>>] /\ From[m] = Host[t] /\ outbox' = outbox
    BY <1>1 DEF Begin
  <2>2. AtHome'
    BY <2>1 DEF AtHome, TypeOK
  <2> QED BY <2>1, <2>2 DEF Rising
<1>2. ASSUME NEW t \in Thread, Put(t) PROVE AtHome' /\ Rising'
  <2>0. PICK f \in Fragment : f = queueing[t]
    BY <1>2 DEF Put, TypeOK
  <2>1. /\ Host[t] \in Node /\ f # Idle
        /\ queueing'[t] = Idle \/ queueing'[t][1] = f[1]
        /\ \A u \in Thread \ {t} : queueing'[u] = queueing[u]
        /\ \A o \in Node : \A i \in 1 .. Len(outbox'[o]) :
              \/ i \in 1 .. Len(outbox[o]) /\ outbox'[o][i] = outbox[o][i]
              \/ o = Host[t] /\ i = Len(outbox[o]) + 1 /\ outbox'[o][i] = f
    BY <1>2, <2>0, PutPlaces
  <2>2. From[f[1]] = Host[t]
    BY <2>0, <2>1 DEF AtHome
  <2>3. AtHome'
    <3>1. \A u \in Thread : queueing'[u] # Idle => From[queueing'[u][1]] = Host[u]
      BY <2>1, <2>2 DEF AtHome
    <3>2. \A o \in Node : \A i \in 1 .. Len(outbox'[o]) : From[outbox'[o][i][1]] = o
      BY <2>1, <2>2 DEF AtHome
    <3> QED BY <3>1, <3>2 DEF AtHome
  <2>4. ASSUME NEW o \in Node, NEW i \in 1 .. Len(outbox[o]), outbox[o][i][1] = f[1]
        PROVE  outbox[o][i][2] < f[2]
    <3>1. outbox[o][i] \in Fragment
      BY DEF TypeOK
    <3>2. ~Ahead(t, outbox[o][i])
      BY <3>1 DEF Once, UnqueuedIsNowhere, Unqueued
    <3>3. outbox[o][i][2] \in Nat /\ f[2] \in Nat
      BY <3>1, FragmentParts
    <3> QED BY <2>0, <2>1, <2>4, <3>2, <3>3 DEF Ahead
  <2>5. Rising'
    <3> SUFFICES ASSUME NEW o \in Node, NEW i \in 1 .. Len(outbox'[o]), NEW j \in 1 .. Len(outbox'[o]),
                        i < j, outbox'[o][i][1] = outbox'[o][j][1]
                 PROVE  outbox'[o][i][2] < outbox'[o][j][2]
      BY DEF Rising
    <3>1. Len(outbox[o]) \in Nat
      BY DEF TypeOK
    <3>2. i \in 1 .. Len(outbox[o]) /\ outbox'[o][i] = outbox[o][i]
      BY <2>1, <3>1
    <3> QED BY <2>1, <2>4, <3>2 DEF Rising
  <2> QED BY <2>3, <2>5
<1>3. ASSUME NEW n \in Node, outbox[n] # <<>>, outbox' = [outbox EXCEPT ![n] = Tail(@)],
             queueing' = queueing
      PROVE  AtHome' /\ Rising'
  <2>1. \A o \in Node : \A i \in 1 .. Len(outbox'[o]) :
           At(n, o, i) \in 1 .. Len(outbox[o]) /\ outbox'[o][i] = outbox[o][At(n, o, i)]
    BY <1>3, ShiftAt
  <2>2. AtHome'
    BY <1>3, <2>1 DEF AtHome
  <2>3. \A o \in Node : \A i, j \in 1 .. Len(outbox'[o]) : i < j => At(n, o, i) < At(n, o, j)
    BY DEF At
  <2>4. Rising'
    <3> SUFFICES ASSUME NEW o \in Node, NEW i \in 1 .. Len(outbox'[o]), NEW j \in 1 .. Len(outbox'[o]),
                        i < j, outbox'[o][i][1] = outbox'[o][j][1]
                 PROVE  outbox'[o][i][2] < outbox'[o][j][2]
      BY DEF Rising
    <3>1. At(n, o, i) < At(n, o, j)
      BY <2>3
    <3>2. /\ At(n, o, i) \in 1 .. Len(outbox[o]) /\ outbox'[o][i] = outbox[o][At(n, o, i)]
          /\ At(n, o, j) \in 1 .. Len(outbox[o]) /\ outbox'[o][j] = outbox[o][At(n, o, j)]
      BY <2>1
    <3> QED BY <3>1, <3>2 DEF Rising
  <2> QED BY <2>2, <2>4
<1>4. CASE UNCHANGED <<outbox, queueing>>
  BY <1>4 DEF AtHome, Rising
<1> QED BY <1>1, <1>2, <1>3, <1>4 DEF Next, Lose, Receive, Tick, vars

-----------------------------------------------------------------------------
(* Turns                                                                   *)

\* Taking the first packet off an outbox leaves the turns what they were; the
\* packet may count as heard.
LEMMA PopTurns ==
    ASSUME TypeOK, AtHome, InTurns, NEW n \in Node, outbox[n] # <<>>,
           outbox' = [outbox EXCEPT ![n] = Tail(@)], queueing' = queueing,
           \A g \in Fragment : Heard(g)' => Heard(g) \/ g = Head(outbox[n])
    PROVE  InTurns'
<1>1. ASSUME NEW o \in Node, NEW i \in 1 .. Len(outbox'[o]), NEW m \in Message,
             m # outbox'[o][i][1], KeyOf(m) = KeyOf(outbox'[o][i][1]), Behind(m, o, i)'
      PROVE  /\ \A j \in 1 .. i - 1 : outbox'[o][j][1] # m
             /\ \A g \in Fragment : g[1] = m => ~Heard(g)'
  <2>1. \A j \in 1 .. Len(outbox'[o]) :
           At(n, o, j) \in 1 .. Len(outbox[o]) /\ outbox'[o][j] = outbox[o][At(n, o, j)]
    BY ShiftAt
  <2>2. PICK p \in 1 .. Len(outbox[o]) : p = At(n, o, i)
    BY <2>1
  <2>3. outbox'[o][i] = outbox[o][p]
    BY <2>1, <2>2
  <2>4. Behind(m, o, p)
    <3>1. ASSUME NEW j \in 1 .. Len(outbox'[o]), i < j, outbox'[o][j][1] = m
          PROVE  Behind(m, o, p)
      <4>1. p < At(n, o, j)
        BY <2>2, <3>1 DEF At
      <4> QED BY <2>1, <3>1, <4>1 DEF Behind
    <3>2. ASSUME NEW t \in Thread, Halfway(t, m)' PROVE Behind(m, o, p)
      BY <3>2 DEF Halfway, Behind
    <3> QED BY <1>1, <3>1, <3>2 DEF Behind
  <2>5. /\ \A j \in 1 .. p - 1 : outbox[o][j][1] # m
        /\ \A f \in Fragment : f[1] = m => ~Heard(f)
    BY <1>1, <2>3, <2>4 DEF InTurns
  <2>6. ASSUME NEW j \in 1 .. i - 1 PROVE outbox'[o][j][1] # m
    <3>1. j \in 1 .. Len(outbox'[o])
      <4>1. Len(outbox'[o]) \in Nat
        <5>1. CASE o = n
          BY <5>1, TailPlaces DEF TypeOK
        <5>2. CASE o # n
          BY <5>2 DEF TypeOK
        <5> QED BY <5>1, <5>2
      <4> QED BY <4>1
    <3>2. At(n, o, j) \in 1 .. p - 1
      BY <2>1, <2>2, <3>1 DEF At
    <3> QED BY <2>1, <2>5, <3>1, <3>2
  <2>7. Head(outbox[n])[1] # m
    <3> SUFFICES ASSUME Head(outbox[n])[1] = m PROVE FALSE
      OBVIOUS
    <3>1. 1 \in 1 .. Len(outbox[n]) /\ Head(outbox[n]) = outbox[n][1]
      BY Shift
    <3>2. From[m] = n /\ From[outbox[o][p][1]] = o
      BY <3>1 DEF AtHome
    <3>3. o = n
      BY <1>1, <2>3, <3>2 DEF KeyOf
    <3>4. 1 \in 1 .. p - 1
      BY <2>2, <3>3 DEF At
    <3> QED BY <2>5, <3>1, <3>3, <3>4
  <2> QED BY <2>5, <2>6, <2>7
<1> QED BY ONLY <1>1 DEF InTurns, KeyOf

LEMMA PutTurns ==
    ASSUME TypeOK, Once, AtHome, OneHalfway, InTurns, NEW t \in Thread, Put(t), causes' = {}
    PROVE  OneHalfway' /\ InTurns'
<1>0. PICK f \in Fragment : f = queueing[t]
  BY DEF Put, TypeOK
<1>1. /\ Host[t] \in Node /\ f # Idle
      /\ queueing'[t] = Idle \/ (queueing'[t] = <<f[1], f[2] + 1>> /\ queueing'[t][1] = f[1]
                                  /\ queueing'[t][2] = f[2] + 1)
      /\ \A u \in Thread \ {t} : queueing'[u] = queueing[u]
      /\ \A o \in Node : \A i \in 1 .. Len(outbox[o]) :
            i \in 1 .. Len(outbox'[o]) /\ outbox'[o][i] = outbox[o][i]
      /\ \A o \in Node : \A i \in 1 .. Len(outbox'[o]) :
            \/ i \in 1 .. Len(outbox[o]) /\ outbox'[o][i] = outbox[o][i]
            \/ o = Host[t] /\ i = Len(outbox[o]) + 1 /\ outbox'[o][i] = f
  BY <1>0, PutPlaces
<1>2. f[1] \in Message /\ f[2] \in Nat
  BY FragmentParts
<1>3. f[2] = 0 => \A u \in Thread \ {t}, w \in Message : Halfway(u, w) => KeyOf(w) # KeyOf(f[1])
  <2>1. ~Crosses(t, f)
    BY <1>0 DEF Put
  <2> QED BY <2>1 DEF Crosses, Halfway
<1>4. f[2] > 0 => Halfway(t, f[1])
  BY <1>0, <1>1 DEF Halfway
<1>5. \A u \in Thread \ {t}, w \in Message : Halfway(u, w)' <=> Halfway(u, w)
  BY <1>1 DEF Halfway
<1>6. \A w \in Message : Halfway(t, w)' => w = f[1]
  BY <1>1 DEF Halfway
<1>7. \A u \in Thread \ {t}, w \in Message : Halfway(u, w) => KeyOf(w) # KeyOf(f[1])
  <2> TAKE u \in Thread \ {t}, w \in Message
  <2>1. CASE f[2] = 0
    BY <1>3, <2>1
  <2>2. CASE f[2] > 0
    BY <1>2, <1>4, <2>2 DEF OneHalfway
  <2> QED BY <1>2, <2>1, <2>2
<1>8. OneHalfway'
  <2> SUFFICES ASSUME NEW u \in Thread, NEW v \in Thread, NEW w \in Message, NEW x \in Message,
                      Halfway(u, w)', Halfway(v, x)', KeyOf(w) = KeyOf(x)
               PROVE  u = v
    BY DEF OneHalfway, KeyOf
  <2>1. CASE u = t
    BY <1>5, <1>6, <1>7, <2>1
  <2>2. CASE u # t /\ v = t
    BY <1>5, <1>6, <1>7, <2>2
  <2>3. CASE u # t /\ v # t
    BY <1>5, <2>3 DEF OneHalfway
  <2> QED BY <2>1, <2>2, <2>3
\* Of a message that is begun nothing has been sent.
<1>9. f[2] = 0 => /\ \A g \in Fragment : g[1] = f[1] => ~Heard(g)
                  /\ \A o \in Node : \A i \in 1 .. Len(outbox[o]) : outbox[o][i][1] # f[1]
  <2> SUFFICES ASSUME f[2] = 0
               PROVE  /\ \A g \in Fragment : g[1] = f[1] => ~Heard(g)
                      /\ \A o \in Node : \A i \in 1 .. Len(outbox[o]) : outbox[o][i][1] # f[1]
    OBVIOUS
  <2>1. ASSUME NEW g \in Fragment, g[1] = f[1] PROVE Ahead(t, g)
    <3>1. g[2] \in Nat
      BY FragmentParts
    <3> QED BY <1>0, <1>1, <2>1, <3>1 DEF Ahead
  <2>2. \A g \in Fragment : g[1] = f[1] => ~Heard(g)
    BY <2>1 DEF Heard, Waits
  <2>3. ASSUME NEW o \in Node, NEW i \in 1 .. Len(outbox[o]) PROVE outbox[o][i][1] # f[1]
    <3>1. outbox[o][i] \in Fragment
      BY DEF TypeOK
    <3> QED BY <2>1, <3>1 DEF Once, UnqueuedIsNowhere, Unqueued
  <2> QED BY <2>2, <2>3
<1>10. InTurns'
  <2> SUFFICES ASSUME NEW o \in Node, NEW i \in 1 .. Len(outbox'[o]), NEW m \in Message,
                      m # outbox'[o][i][1], KeyOf(m) = KeyOf(outbox'[o][i][1]), Behind(m, o, i)'
               PROVE  /\ \A j \in 1 .. i - 1 : outbox'[o][j][1] # m
                      /\ \A g \in Fragment : g[1] = m => ~Heard(g)'
    BY DEF InTurns, KeyOf
  <2>0. Len(outbox[o]) \in Nat
    BY DEF TypeOK
  <2>1. i \in 1 .. Len(outbox[o]) /\ outbox'[o][i] = outbox[o][i]
    <3> SUFFICES ASSUME o = Host[t], i = Len(outbox[o]) + 1, outbox'[o][i] = f PROVE FALSE
      BY <1>1
    <3>1. \A j \in 1 .. Len(outbox'[o]) : ~(i < j)
      BY <1>1, <2>0
    <3>2. PICK u \in Thread : Halfway(u, m)'
      BY <3>1 DEF Behind
    <3>3. u # t
      BY <1>6, <3>2
    <3> QED BY <1>5, <1>7, <3>2, <3>3
  <2>2. \A j \in 1 .. i - 1 : j \in 1 .. Len(outbox[o]) /\ outbox'[o][j] = outbox[o][j]
    BY <1>1, <2>0, <2>1
  <2>3. Behind(m, o, i) \/ (m = f[1] /\ f[2] = 0)
    <3>1. ASSUME NEW j \in 1 .. Len(outbox'[o]), i < j, outbox'[o][j][1] = m
          PROVE  Behind(m, o, i) \/ (m = f[1] /\ f[2] = 0)
      <4>1. CASE j \in 1 .. Len(outbox[o]) /\ outbox'[o][j] = outbox[o][j]
        BY <3>1, <4>1 DEF Behind
      <4>2. CASE outbox'[o][j] = f
        BY <1>2, <1>4, <3>1, <4>2 DEF Behind
      <4> QED BY <1>1, <4>1, <4>2
    <3>2. ASSUME NEW u \in Thread, Halfway(u, m)'
          PROVE  Behind(m, o, i) \/ (m = f[1] /\ f[2] = 0)
      <4>1. CASE u = t
        BY <1>2, <1>4, <1>6, <3>2, <4>1 DEF Behind
      <4>2. CASE u # t
        BY <1>5, <3>2, <4>2 DEF Behind
      <4> QED BY <4>1, <4>2
    <3> QED BY <3>1, <3>2 DEF Behind
  <2>4. \A g \in Fragment : Heard(g)' => Heard(g)
    BY PutHears
  <2>5. CASE Behind(m, o, i)
    <3>1. /\ \A j \in 1 .. i - 1 : outbox[o][j][1] # m
          /\ \A g \in Fragment : g[1] = m => ~Heard(g)
      BY <2>1, <2>5 DEF InTurns
    <3> QED BY <2>2, <2>4, <3>1
  <2>6. CASE m = f[1] /\ f[2] = 0
    BY <1>9, <2>2, <2>4, <2>6
  <2> QED BY <2>3, <2>5, <2>6
<1> QED BY <1>8, <1>10

LEMMA BeginTurns ==
    ASSUME TypeOK, OneHalfway, InTurns, NEW t \in Thread, NEW m \in Message, Begin(t, m)
    PROVE  OneHalfway' /\ InTurns'
<1>1. /\ queueing' = [queueing EXCEPT ![t] = <<m, 0>>]
      /\ outbox' = outbox
  BY DEF Begin
<1>2. \A u \in Thread, w \in Message : Halfway(u, w)' => Halfway(u, w)
  BY <1>1 DEF Halfway, TypeOK
<1>3. \A g \in Fragment : Heard(g)' => Heard(g)
  BY BeginHears
<1>4. \A w \in Message, o \in Node : \A i \in 1 .. Len(outbox[o]) : Behind(w, o, i)' => Behind(w, o, i)
  BY <1>1, <1>2 DEF Behind
<1>5. OneHalfway'
  BY <1>2 DEF OneHalfway, KeyOf
<1>6. ASSUME NEW o \in Node, NEW i \in 1 .. Len(outbox'[o]), NEW w \in Message,
             w # outbox'[o][i][1], KeyOf(w) = KeyOf(outbox'[o][i][1]), Behind(w, o, i)'
      PROVE  /\ \A j \in 1 .. i - 1 : outbox'[o][j][1] # w
             /\ \A g \in Fragment : g[1] = w => ~Heard(g)'
  <2>1. /\ \A j \in 1 .. i - 1 : outbox[o][j][1] # w
        /\ \A g \in Fragment : g[1] = w => ~Heard(g)
    BY <1>1, <1>4, <1>6 DEF InTurns
  <2> QED BY <1>1, <1>3, <2>1
<1>7. InTurns'
  BY ONLY <1>6 DEF InTurns, KeyOf
<1> QED BY <1>5, <1>7

\* A step of which the buffers and the layers above see nothing keeps what they
\* hold, if it makes no packet heard that was not.
LEMMA SameHeard ==
    ASSUME HeardIsKept, LastIsJoined, LastIsHanded, ReturnedAreWhole,
           packets' = packets, handed' = handed, returned' = returned,
           \A g \in Fragment : Heard(g)' => Heard(g),
           \A f, g \in Fragment : f[1] = g[1] /\ Heard(f)' /\ Waits(g)' => Waits(g)
    PROVE  HeardIsKept' /\ LastIsJoined' /\ LastIsHanded' /\ ReturnedAreWhole'
<1>1. HeardIsKept'
  BY DEF HeardIsKept, KeyOf
<1>2. LastIsJoined'
  BY DEF LastIsJoined, Key, KeyOf
<1>3. LastIsHanded'
  BY DEF LastIsHanded, CameThrough, FragmentsOf
<1>4. ReturnedAreWhole'
  BY DEF ReturnedAreWhole, FragmentsOf
<1> QED BY <1>1, <1>2, <1>3, <1>4

LEMMA BeginWhole ==
    ASSUME TypeOK, Unspoilt, NEW t \in Thread, NEW m \in Message, Begin(t, m)
    PROVE  Unspoilt'
<1>1. packets' = packets /\ handed' = handed /\ returned' = returned
  BY DEF Begin
<1>2. \A g \in Fragment : (Heard(g)' => Heard(g) /\ g[1] # m) /\ (Waits(g)' => Waits(g) \/ g[1] = m)
  BY BeginHears
<1>3. OneHalfway' /\ InTurns'
  BY BeginTurns DEF Unspoilt
<1>4. HeardIsKept' /\ LastIsJoined' /\ LastIsHanded' /\ ReturnedAreWhole'
  BY <1>1, <1>2, SameHeard DEF Unspoilt
<1> QED BY <1>3, <1>4 DEF Unspoilt

LEMMA PutWhole ==
    ASSUME TypeOK, Once, AtHome, Unspoilt, NEW t \in Thread, Put(t), causes' = {}
    PROVE  Unspoilt'
<1>1. packets' = packets /\ handed' = handed /\ returned' = returned
  BY DEF Put
<1>2. \A g \in Fragment : (Heard(g)' => Heard(g)) /\ (Waits(g)' => Waits(g))
  BY PutHears
<1>3. OneHalfway' /\ InTurns'
  BY PutTurns DEF Unspoilt
<1>4. HeardIsKept' /\ LastIsJoined' /\ LastIsHanded' /\ ReturnedAreWhole'
  BY <1>1, <1>2, SameHeard DEF Unspoilt
<1> QED BY <1>3, <1>4 DEF Unspoilt

LEMMA LoseWhole ==
    ASSUME TypeOK, Once, AtHome, Unspoilt, NEW n \in Node, Lose(n)
    PROVE  Unspoilt'
<1>1. /\ outbox[n] # <<>> /\ outbox' = [outbox EXCEPT ![n] = Tail(@)] /\ queueing' = queueing
      /\ packets' = packets /\ handed' = handed /\ returned' = returned /\ sent' = sent
      /\ lost' = lost \cup {Head(outbox[n])}
  BY DEF Lose
<1>2. \A g \in Fragment : Waits(g)' <=> (Waits(g) /\ g # Head(outbox[n]))
  BY <1>1, PopWaits
<1>3. \A g \in Fragment : Heard(g)' => Heard(g)
  BY <1>1, <1>2 DEF Heard
<1>4. OneHalfway'
  BY <1>1 DEF Unspoilt, OneHalfway, Halfway, KeyOf
<1>5. InTurns'
  BY <1>1, <1>3, PopTurns DEF Unspoilt
<1>6. HeardIsKept' /\ LastIsJoined' /\ LastIsHanded' /\ ReturnedAreWhole'
  BY <1>1, <1>2, <1>3, SameHeard DEF Unspoilt
<1> QED BY <1>4, <1>5, <1>6 DEF Unspoilt

LEMMA TickWhole ==
    ASSUME Unspoilt, UNCHANGED <<queueing, outbox, packets, handed, sent, returned, lost>>
    PROVE  Unspoilt'
<1>1. \A g : (Waits(g)' <=> Waits(g)) /\ (Heard(g)' <=> Heard(g))
  BY DEF Waits, Heard, Ahead
<1>2. OneHalfway'
  BY DEF Unspoilt, OneHalfway, Halfway, KeyOf
<1>3. \A w, o, i : Behind(w, o, i)' <=> Behind(w, o, i)
  BY DEF Behind, Halfway
<1>4. InTurns'
  BY <1>1, <1>3 DEF Unspoilt, InTurns, KeyOf
<1>5. HeardIsKept' /\ LastIsJoined' /\ LastIsHanded' /\ ReturnedAreWhole'
  BY <1>1, SameHeard DEF Unspoilt
<1> QED BY <1>2, <1>4, <1>5 DEF Unspoilt

-----------------------------------------------------------------------------
(* What arrives                                                            *)

\* A packet that arrives with no hole before it: the earlier packets of its
\* message have all been heard.
LEMMA EarlierAreHeard ==
    ASSUME TypeOK, Once, AtHome, Rising, NEW n \in Node, outbox[n] # <<>>,
           NEW f \in Fragment, f = Head(outbox[n]),
           \A g \in lost : ~(g[1] = f[1] /\ g[2] < f[2])
    PROVE  \A g \in Fragment : g[1] = f[1] /\ g[2] < f[2] => Heard(g)
<1> SUFFICES ASSUME NEW g \in Fragment, g[1] = f[1], g[2] < f[2] PROVE Heard(g)
  OBVIOUS
<1>1. 1 \in 1 .. Len(outbox[n]) /\ f = outbox[n][1]
  BY TailPlaces DEF TypeOK
<1>2. f[1] \in sent /\ \A t \in Thread : ~Ahead(t, f)
  BY <1>1 DEF Once, UnqueuedIsNowhere, Unqueued
<1>3. g[2] \in Nat /\ f[2] \in Nat
  BY FragmentParts
<1>4. ASSUME NEW t \in Thread, Ahead(t, g) PROVE FALSE
  <2>1. queueing[t] \in Fragment
    BY <1>4 DEF Ahead, TypeOK
  <2>2. queueing[t][2] \in Nat
    BY <2>1, FragmentParts
  <2>3. Ahead(t, f)
    BY <1>3, <1>4, <2>2 DEF Ahead
  <2> QED BY <1>2, <2>3
<1>5. ASSUME NEW o \in Node, NEW i \in 1 .. Len(outbox[o]), outbox[o][i] = g PROVE FALSE
  <2>1. From[g[1]] = o /\ From[f[1]] = n
    BY <1>1, <1>5 DEF AtHome
  <2>2. o = n
    BY <2>1
  <2>3. i # 1
    BY <1>1, <1>3, <1>5, <2>2
  <2>4. 1 < i /\ i \in 1 .. Len(outbox[n])
    BY <2>2, <2>3
  <2>5. f[2] < g[2]
    BY <1>1, <1>5, <2>2, <2>4 DEF Rising
  <2> QED BY <1>3, <2>5
<1>6. ~Waits(g)
  BY <1>4, <1>5 DEF Waits
<1> QED BY <1>2, <1>6 DEF Heard

\* Of another message of its key, of which packets are still to come, none has
\* been heard.
LEMMA OthersAreUnheard ==
    ASSUME TypeOK, AtHome, InTurns, NEW n \in Node, outbox[n] # <<>>,
           NEW f \in Fragment, f = Head(outbox[n]),
           NEW a \in Fragment, NEW b \in Fragment, a[1] = b[1], a[1] # f[1],
           KeyOf(a[1]) = KeyOf(f[1]), Waits(b)
    PROVE  ~Heard(a)
<1> SUFFICES ASSUME Heard(a) PROVE FALSE
  OBVIOUS
<1>1. 1 \in 1 .. Len(outbox[n]) /\ f = outbox[n][1]
  BY TailPlaces DEF TypeOK
<1>2. a[2] \in Nat /\ b[2] \in Nat /\ a[1] \in Message
  BY FragmentParts
<1>3. ASSUME NEW t \in Thread, Ahead(t, b) PROVE Behind(a[1], n, 1)
  <2>1. queueing[t] # Idle /\ queueing[t][1] = a[1]
    BY <1>3 DEF Ahead
  <2>2. queueing[t] \in Fragment
    BY <2>1 DEF TypeOK
  <2>3. queueing[t][2] \in Nat
    BY <2>2, FragmentParts
  <2>4. ~Ahead(t, a)
    BY DEF Heard, Waits
  <2>5. queueing[t][2] > 0
    BY <1>2, <2>1, <2>3, <2>4 DEF Ahead
  <2> QED BY <2>1, <2>5 DEF Behind, Halfway
<1>4. ASSUME NEW o \in Node, NEW i \in 1 .. Len(outbox[o]), outbox[o][i] = b
      PROVE  Behind(a[1], n, 1)
  <2>1. From[b[1]] = o /\ From[f[1]] = n
    BY <1>1, <1>4 DEF AtHome
  <2>2. o = n
    BY <2>1 DEF KeyOf
  <2>3. i # 1
    BY <1>1, <1>4, <2>2
  <2>4. 1 < i /\ i \in 1 .. Len(outbox[n]) /\ outbox[n][i][1] = a[1]
    BY <1>4, <2>2, <2>3
  <2> QED BY <2>4 DEF Behind
<1>5. Behind(a[1], n, 1)
  BY <1>3, <1>4 DEF Waits
<1> QED BY <1>1, <1>2, <1>5 DEF InTurns

\* The last packet of a message on top of all its others makes it whole.
LEMMA LastMakesWhole ==
    ASSUME NEW f \in Fragment, f[2] + 1 = Total[f[1]], NEW P, Partial(KeyOf(f[1]), P),
           \A g \in Fragment : g[1] = f[1] /\ g[2] < f[2] => g \in P
    PROVE  With(P, f) = FragmentsOf(f[1])
<1>1. f = <<f[1], f[2]>> /\ f[1] \in Message /\ f[2] \in Nat /\ Total[f[1]] \in Nat
  BY FragmentParts, FramingConstants
<1>2. ASSUME NEW i \in 0 .. Total[f[1]] - 1 PROVE <<f[1], i>> \in With(P, f)
  <2>1. CASE i = f[2]
    BY <1>1, <2>1 DEF With
  <2>2. CASE i # f[2]
    <3>1. i < f[2] /\ i \in Nat /\ i < Total[f[1]]
      BY <1>1, <2>2
    <3>2. <<f[1], i>> \in Fragment
      BY <1>1, <3>1 DEF Fragment
    <3>3. <<f[1], i>> \in P
      BY <3>1, <3>2
    <3> QED BY <2>2, <3>3 DEF With
  <2> QED BY <2>1, <2>2
<1>3. ASSUME NEW g \in With(P, f) PROVE g \in FragmentsOf(f[1])
  <2>1. CASE g = f
    BY <1>1, <2>1 DEF FragmentsOf
  <2>2. CASE g # f
    <3>1. g \in P /\ g[2] # f[2] /\ g \in Fragment /\ KeyOf(g[1]) = KeyOf(f[1])
      BY <1>3, <2>2 DEF With, Partial
    <3>2. g[2] \in Nat /\ g[2] < Total[f[1]]
      BY <3>1, FragmentParts DEF KeyOf
    <3>3. g[2] < f[2] /\ g[2] \in 0 .. Total[f[1]] - 1
      BY <1>1, <3>1, <3>2
    <3>4. <<f[1], g[2]>> \in Fragment
      BY <1>1, <3>2 DEF Fragment
    <3>5. <<f[1], g[2]>> \in P
      BY <3>3, <3>4
    <3>6. g = <<f[1], g[2]>>
      BY <3>1, <3>5 DEF Partial
    <3> QED BY <3>3, <3>6 DEF FragmentsOf
  <2> QED BY <2>1, <2>2
<1>4. FragmentsOf(f[1]) \subseteq With(P, f)
  BY <1>2 DEF FragmentsOf
<1> QED BY <1>3, <1>4

\* Without its last packet, or another message's, a buffer is not complete.
LEMMA OthersDoNotFill ==
    ASSUME NEW f \in Fragment, f[2] + 1 # Total[f[1]], NEW P, Partial(KeyOf(f[1]), P),
           \A g \in P : g[2] + 1 # Total[g[1]]
    PROVE  ~Complete(With(P, f), f)
<1> DEFINE T == Total[f[1]]
           Q == With(P, f)
<1>1. T \in Nat \ {0}
  BY FragmentParts, FramingConstants
<1>2. \A g \in Q : g \in Fragment /\ KeyOf(g[1]) = KeyOf(f[1]) /\ g[2] + 1 # Total[g[1]]
  BY DEF With, Partial
<1>3. \A g \in Q : g[2] \in Nat /\ g[2] < T /\ g[2] + 1 # T
  BY <1>2, FragmentParts DEF KeyOf
<1>4. \A g, h \in Q : g[2] = h[2] => g = h
  BY DEF With, Partial
<1> HIDE DEF T, Q
<1>5. Cardinality(Q) # T
  BY <1>1, <1>3, <1>4, LastPlaceFills
<1> QED BY <1>5 DEF Complete, Q, T

LEMMA CameThroughLater ==
    ASSUME NEW m
    PROVE  CameThrough(m)' <=> m \in handed' \/ (m \in Sealed /\ FragmentsOf(m) \in returned')
BY DEF CameThrough, FragmentsOf

\* What is read of a message that is whole is that message, or it is sealed.
LEMMA WholeIsRead ==
    ASSUME NEW f \in Fragment, NEW m \in Message, m = f[1], m \notin Sealed
    PROVE  Readings(FragmentsOf(m), f) = {{m}}
<1>1. Total[m] \in Nat \ {0}
  BY FramingConstants
<1>2. <<m, 0>> \in FragmentsOf(m)
  BY <1>1 DEF FragmentsOf
<1>3. \A w \in Message : FragmentsOf(m) = FragmentsOf(w) => w = m
  BY <1>2 DEF FragmentsOf
<1> QED BY <1>3 DEF Readings

LEMMA ReceiveWhole ==
    ASSUME TypeOK, Once, AtHome, Rising, Unspoilt, NEW n \in Node, Receive(n), causes' = {}
    PROVE  Unspoilt'
<1>0. outbox[n] # <<>> /\ outbox' = [outbox EXCEPT ![n] = Tail(@)] /\ UNCHANGED <<queueing, sent, lost>>
  BY DEF Receive
<1>1. PICK f \in Fragment : f = Head(outbox[n])
  BY <1>0, TailPlaces DEF TypeOK
<1>2. PICK k \in Key : k = KeyOf(f[1])
  BY FragmentParts
<1>3. PICK P : P = With(packets[k], f)
  OBVIOUS
<1> DEFINE last == f[2] + 1 = Total[f[1]]
<1>4. (\A g \in lost : ~(g[1] = f[1] /\ g[2] < f[2])) /\ (\A j \in Key : ~Expired(j))
  BY <1>1 DEF Receive
<1>5. \A g \in Fragment : g[1] = f[1] /\ g[2] < f[2] => Heard(g)
  BY <1>0, <1>1, <1>4, EarlierAreHeard
<1>6. Waits(f)
  <2>1. 1 \in 1 .. Len(outbox[n]) /\ f = outbox[n][1]
    BY <1>0, <1>1, TailPlaces DEF TypeOK
  <2> QED BY <2>1 DEF Waits
<1>7. \A g \in Fragment : g[1] = f[1] /\ g[2] < f[2] => g \in packets[k]
  BY <1>2, <1>5, <1>6 DEF Unspoilt, HeardIsKept
<1>8. Partial(k, packets[k])
  BY DEF TypeOK
<1>9. \A g \in packets[k] : g[2] + 1 # Total[g[1]]
  BY DEF Unspoilt, LastIsJoined
<1>10. last => P = FragmentsOf(f[1])
  BY <1>2, <1>3, <1>7, <1>8, LastMakesWhole
<1>11. Complete(P, f) <=> last
  <2>1. last => Complete(P, f)
    BY <1>10, FragmentParts, WholeIsFull DEF Complete
  <2>2. ~last => ~Complete(P, f)
    BY <1>2, <1>3, <1>8, <1>9, OthersDoNotFill
  <2> QED BY <2>1, <2>2
\* The packet is stored, and its message joined if it is the last.
<1>12. /\ packets' = Without(f, last)
       /\ last => returned' = returned \cup {P} /\ (\E r \in Readings(P, f) : handed' = handed \cup r)
       /\ ~last => returned' = returned /\ handed' = handed
  BY <1>1, <1>2, <1>3, <1>4, <1>11 DEF Receive
<1>13. last => CameThrough(f[1])'
  <2>1. last /\ f[1] \notin Sealed => handed' = handed \cup {f[1]}
    BY <1>10, <1>12, FragmentParts, WholeIsRead
  <2>2. last => FragmentsOf(f[1]) \in returned'
    BY <1>10, <1>12
  <2>3. last => f[1] \in handed' \/ (f[1] \in Sealed /\ FragmentsOf(f[1]) \in returned')
    BY <2>1, <2>2
  <2> HIDE DEF last
  <2> QED BY <2>3, CameThroughLater
<1>14. /\ \A j \in Key \ {k} : packets'[j] = packets[j]
       /\ packets'[k] = IF last THEN {} ELSE P
  BY <1>2, <1>3, <1>4, <1>12 DEF Without, TypeOK
<1>15. \A g \in Fragment : Waits(g)' <=> (Waits(g) /\ g # f)
  BY <1>0, <1>1, PopWaits
<1>16. \A g \in Fragment : Heard(g)' => Heard(g) \/ g = f
  BY <1>0, <1>15 DEF Heard
<1>17. OneHalfway'
  BY <1>0 DEF Unspoilt, OneHalfway, Halfway, KeyOf
<1>18. InTurns'
  BY <1>0, <1>1, <1>16, PopTurns DEF Unspoilt
<1>19. ASSUME NEW a \in Fragment, NEW b \in Fragment, a[1] = b[1], a[2] < b[2], Heard(a)', Waits(b)'
       PROVE  a \in packets'[KeyOf(a[1])]
  <2>1. Waits(b) /\ b # f /\ (Heard(a) \/ a = f)
    BY <1>15, <1>16, <1>19
  <2>2. f = <<f[1], f[2]>> /\ b = <<b[1], b[2]>> /\ a = <<a[1], a[2]>> /\ f[2] \in Nat
        /\ b[2] \in Nat /\ a[2] \in Nat /\ b[2] < Total[b[1]] /\ Total[b[1]] \in Nat
    BY FragmentParts, FramingConstants
  <2>3. a[1] = f[1] => ~last
    <3> SUFFICES ASSUME a[1] = f[1], last PROVE FALSE
      OBVIOUS
    <3>1. b[1] = f[1] /\ b[2] < f[2]
      BY <1>19, <2>1, <2>2
    <3> QED BY <1>5, <2>1, <3>1 DEF Heard
  <2>4. CASE a = f
    BY <1>2, <1>3, <1>14, <2>3, <2>4 DEF With
  <2>5. CASE a # f
    <3>1. Heard(a) /\ a \in packets[KeyOf(a[1])]
      BY <1>19, <2>1, <2>5 DEF Unspoilt, HeardIsKept
    <3>2. CASE KeyOf(a[1]) # k
      BY <1>14, <3>1, <3>2, FragmentParts
    <3>3. CASE KeyOf(a[1]) = k
      <4>1. a[1] = f[1]
        BY <1>0, <1>1, <1>2, <1>19, <2>1, <3>1, <3>3, OthersAreUnheard DEF Unspoilt
      <4>2. a[2] # f[2]
        BY <2>2, <2>5, <4>1
      <4> QED BY <1>3, <1>14, <2>3, <3>1, <3>3, <4>1, <4>2 DEF With
    <3> QED BY <3>2, <3>3
  <2> QED BY <2>4, <2>5
<1>20. HeardIsKept'
  BY ONLY <1>19 DEF HeardIsKept, KeyOf
<1>21. LastIsJoined'
  <2>1. \A j \in Key : \A g \in packets'[j] : g[2] + 1 # Total[g[1]]
    BY <1>3, <1>9, <1>14 DEF Unspoilt, LastIsJoined, With
  <2> QED BY <2>1 DEF LastIsJoined, Key, KeyOf
<1>22. LastIsHanded'
  <2>1. ASSUME NEW g \in Fragment, Heard(g)', g[2] + 1 = Total[g[1]] PROVE CameThrough(g[1])'
    <3>1. handed \subseteq handed' /\ returned \subseteq returned'
      BY <1>12
    <3>2. CASE Heard(g)
      <4>1. CameThrough(g[1])
        BY <2>1, <3>2 DEF Unspoilt, LastIsHanded
      <4>2. g[1] \in handed' \/ (g[1] \in Sealed /\ FragmentsOf(g[1]) \in returned')
        BY <3>1, <4>1 DEF CameThrough
      <4> QED BY <4>2, CameThroughLater
    <3>3. CASE g = f
      BY <1>13, <2>1, <3>3
    <3> QED BY <1>16, <2>1, <3>2, <3>3
  <2> QED BY <2>1 DEF LastIsHanded
<1>23. ReturnedAreWhole'
  <2>1. \A Q \in returned' : \E m \in Message : Q = FragmentsOf(m)
    BY <1>10, <1>12, FragmentParts DEF Unspoilt, ReturnedAreWhole
  <2> QED BY <2>1 DEF ReturnedAreWhole, FragmentsOf
<1> QED BY <1>17, <1>18, <1>20, <1>21, <1>22, <1>23 DEF Unspoilt

-----------------------------------------------------------------------------
(* The theorems                                                            *)

LEMMA WholeInit == Init => Whole
<1> SUFFICES ASSUME Init PROVE Whole
  OBVIOUS
<1>1. sent = {} /\ returned = {} /\ (\A t \in Thread : queueing[t] = Idle)
      /\ (\A n \in Node : Len(outbox[n]) = 0) /\ (\A k \in Key : packets[k] = {})
  BY DEF Init
<1>2. OneHalfway /\ InTurns
  BY <1>1 DEF OneHalfway, Halfway, InTurns
<1>3. HeardIsKept /\ LastIsJoined /\ LastIsHanded /\ ReturnedAreWhole
  BY <1>1 DEF HeardIsKept, Heard, LastIsJoined, LastIsHanded, ReturnedAreWhole
<1> QED BY <1>2, <1>3, RisingInit DEF Whole, Unspoilt

LEMMA WholeStep == TypeOK /\ Once /\ Whole /\ [Next]_vars => Whole'
<1> SUFFICES ASSUME TypeOK, Once, Whole, [Next]_vars PROVE Whole'
  OBVIOUS
<1>1. AtHome' /\ Rising'
  BY RisingStep DEF Whole
<1>2. ASSUME causes' = {} PROVE Unspoilt'
  <2>0. AtHome /\ Rising
    BY DEF Whole
  <2>1. ASSUME NEW t \in Thread, NEW m \in Message, Begin(t, m) PROVE Unspoilt'
    <3>1. Unspoilt
      BY <1>2, <2>1 DEF Begin, Whole
    <3> QED BY <2>1, <3>1, BeginWhole
  <2>2. ASSUME NEW t \in Thread, Put(t) PROVE Unspoilt'
    <3>1. Unspoilt
      BY <1>2, <2>2 DEF Put, Whole
    <3> QED BY <1>2, <2>0, <2>2, <3>1, PutWhole
  <2>3. ASSUME NEW n \in Node, Lose(n) PROVE Unspoilt'
    <3>1. Unspoilt
      BY <1>2, <2>3 DEF Lose, Whole
    <3> QED BY <2>0, <2>3, <3>1, LoseWhole
  <2>4. ASSUME NEW n \in Node, Receive(n) PROVE Unspoilt'
    <3>1. causes \subseteq causes'
      BY <2>4 DEF Receive
    <3>2. Unspoilt
      BY <1>2, <3>1 DEF Whole
    <3> QED BY <1>2, <2>0, <2>4, <3>2, ReceiveWhole
  <2>5. CASE Tick
    <3>1. Unspoilt
      BY <1>2, <2>5 DEF Tick, Whole
    <3> QED BY <2>5, <3>1, TickWhole DEF Tick
  <2>6. CASE UNCHANGED vars
    <3>1. Unspoilt
      BY <1>2, <2>6 DEF vars, Whole
    <3> QED BY <2>6, <3>1, TickWhole DEF vars
  <2> QED BY <2>1, <2>2, <2>3, <2>4, <2>5, <2>6 DEF Next
<1> QED BY <1>1, <1>2 DEF Whole

\* What add_packet returns is one whole message, unless two threads crossed, a
\* message was heard with a hole in it, or a buffer grew too old.
THEOREM MixturesHaveCause == Spec => []MixedForCause
<1>1. Whole => MixedForCause
  BY DEF Whole, Unspoilt, ReturnedAreWhole, MixedForCause
<1> QED BY <1>1, TypeInit, TypeStep, OnceInit, OnceStep, WholeInit, WholeStep, PTL DEF Spec

\* A message that was heard from end to end has been handed up, or at least
\* joined if it was sealed, but for those causes: its last packet completed the
\* buffer, however many threads, senders and fragments there are.
THEOREM HeardMessagesAreHanded == Spec => []HeardIsHanded
<1>1. TypeOK /\ Whole => HeardIsHanded
  <2> SUFFICES ASSUME TypeOK, Whole, causes = {}, NEW m \in sent, ~CameThrough(m),
                      FragmentsOf(m) \cap lost = {},
                      ~\E t \in Thread : queueing[t] # Idle /\ queueing[t][1] = m
               PROVE  \E i \in 1 .. Len(outbox[From[m]]) : outbox[From[m]][i][1] = m
    BY DEF HeardIsHanded, TypeOK
  <2>1. m \in Message /\ Total[m] \in Nat \ {0}
    BY FramingConstants DEF TypeOK
  <2>2. PICK f \in Fragment : f = <<m, Total[m] - 1>>
    <3>1. Total[m] - 1 \in Nat /\ Total[m] - 1 < Total[m]
      BY <2>1
    <3>2. <<m, Total[m] - 1>> \in Fragment
      BY <2>1, <3>1 DEF Fragment
    <3> QED BY <3>2
  <2>3. f[1] = m /\ f[2] + 1 = Total[f[1]]
    BY <2>1, <2>2
  <2>4. f \in FragmentsOf(m)
    BY <2>1, <2>2 DEF FragmentsOf
  <2>5. ~Heard(f)
    BY <2>3 DEF Whole, Unspoilt, LastIsHanded
  <2>6. Waits(f)
    BY <2>3, <2>4, <2>5 DEF Heard
  <2>7. PICK n \in Node : \E i \in 1 .. Len(outbox[n]) : outbox[n][i] = f
    BY <2>3, <2>6 DEF Waits, Ahead
  <2>8. From[m] = n
    BY <2>3, <2>7 DEF Whole, AtHome
  <2> QED BY <2>3, <2>7, <2>8
<1> QED BY <1>1, TypeInit, TypeStep, OnceInit, OnceStep, WholeInit, WholeStep, PTL DEF Spec
=============================================================================
