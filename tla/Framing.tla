-------------------------------- MODULE Framing --------------------------------
(***************************************************************************)
(* Messages longer than a packet: pneuma_mesh/mesh_node.py cuts each into  *)
(* fragments with the Framer of pneuma_db/framing.py, its threads put them *)
(* one by one into the node's bounded outbox, and the transmit loop sends  *)
(* them in that order.  A listener's ReassemblyBuffer puts together what   *)
(* it hears, whomever it was meant for, by sender and number of fragments  *)
(* alone.  A packet is heard intact or not at all: the CRC stops the rest. *)
(***************************************************************************)
EXTENDS Integers, Sequences, FiniteSets

CONSTANTS
    Node,       \* the senders a listener hears
    Thread,     \* the threads that queue messages
    Host,       \* the node each thread runs on
    Message,    \* the messages that may be sent, each once
    From,       \* the node that sends each message
    Total,      \* the number of fragments of each message
    Sealed,     \* the messages sent encrypted: there was a session with the peer
    Capacity,   \* of an outbox
    Timeout,    \* of the reassembly buffer, in ticks
    Idle, Garbled

ASSUME FramingConstants ==
    /\ Host \in [Thread -> Node]
    /\ From \in [Message -> Node]
    /\ Total \in [Message -> Nat \ {0}]
    /\ Sealed \subseteq Message
    /\ Capacity \in Nat
    /\ Timeout \in Nat
    /\ Idle \notin Message \X Nat
    /\ Garbled \notin Message

\* Framer.fragment: the i-th of the message's fragments, from 0.
Fragment == {f \in Message \X Nat : f[2] < Total[f[1]]}

FragmentsOf(m) == {m} \X (0 .. Total[m] - 1)

\* Mutant: the number of fragments is not part of the key.
KeyOfMutant(m) == <<From[m], 0>>

\* The buffer a packet goes to: all that tells two messages apart.
KeyOf(m) == <<From[m], Total[m]>>
Key == {KeyOf(m) : m \in Message}

VARIABLES
    queueing,   \* the fragment each thread puts into the outbox next
    outbox,     \* _outbox of each node: packets in the order they are sent
    packets,    \* the packets of the listener's buffers; none: no such buffer
    age,        \* ticks since each buffer began, up to Timeout + 1
    handed,     \* history: the messages handed to _handle_message
    sent,       \* history: the messages whose queueing has begun
    returned,   \* history: the sets of packets that add_packet has joined
    lost,       \* history: the packets lost in a full outbox or in the air
    causes      \* history: which of the things below have happened

vars == <<queueing, outbox, packets, age, handed, sent, returned, lost, causes>>

\* What spoils reassembly:
Causes == {
    "crossed",  \* two threads put fragments of messages of one key in turns
    "gap",      \* a packet arrived after an earlier one of its message was lost
    "late"}     \* a buffer was dropped because it was too old

Init ==
    /\ queueing = [t \in Thread |-> Idle]
    /\ outbox = [n \in Node |-> <<>>]
    /\ packets = [k \in Key |-> {}]
    /\ age = [k \in Key |-> 0]
    /\ handed = {} /\ sent = {} /\ returned = {} /\ lost = {} /\ causes = {}

-----------------------------------------------------------------------------
(* The sender *)

\* _queue_to_peer: serialised, sealed or not, coded and cut.
Begin(t, m) ==
    /\ queueing[t] = Idle
    /\ From[m] = Host[t]
    /\ m \notin sent
    /\ queueing' = [queueing EXCEPT ![t] = <<m, 0>>]
    /\ sent' = sent \cup {m}
    /\ UNCHANGED <<outbox, packets, age, handed, returned, lost, causes>>

\* Another thread is halfway through a message of the same key.
Crosses(t, f) ==
    /\ f[2] = 0
    /\ \E u \in Thread \ {t} : /\ queueing[u] # Idle
                               /\ queueing[u][2] > 0
                               /\ KeyOf(queueing[u][1]) = KeyOf(f[1])

\* put_nowait of one packet: a full outbox drops it, and only it.
Put(t) ==
    /\ queueing[t] # Idle
    /\ LET f == queueing[t]
           n == Host[t]
       IN /\ queueing' = [queueing EXCEPT ![t] =
                             IF f[2] + 1 = Total[f[1]] THEN Idle ELSE <<f[1], f[2] + 1>>]
          /\ \/ /\ Len(outbox[n]) < Capacity
                /\ outbox' = [outbox EXCEPT ![n] = Append(@, f)]
                /\ lost' = lost
             \/ /\ Len(outbox[n]) >= Capacity
                /\ outbox' = outbox
                /\ lost' = lost \cup {f}
          /\ causes' = causes \cup (IF Crosses(t, f) THEN {"crossed"} ELSE {})
    /\ UNCHANGED <<packets, age, handed, sent, returned>>

\* Sent, and not heard: noise, or the listener's own slot, or its beacon
\* thread had the microphone.
Lose(n) ==
    /\ outbox[n] # <<>>
    /\ outbox' = [outbox EXCEPT ![n] = Tail(@)]
    /\ lost' = lost \cup {Head(outbox[n])}
    /\ UNCHANGED <<queueing, packets, age, handed, sent, returned, causes>>

-----------------------------------------------------------------------------
(* The listener *)

\* Mutant: the first packet of a place stays.
WithFirst(P, f) == IF \E g \in P : g[2] = f[2] THEN P ELSE P \cup {f}

\* A packet replaces the one that has its place.
With(P, f) == {g \in P : g[2] # f[2]} \cup {f}

Complete(P, f) == Cardinality(P) = Total[f[1]]

\* A buffer that began longer ago than the timeout.
Expired(k) == age[k] > Timeout

\* Mutant: a complete buffer is returned and not removed.
WithoutMutant(f, returns) ==
    LET k == KeyOf(f[1])
        stored == [packets EXCEPT ![k] = With(@, f)]
    IN [j \in Key |-> IF Expired(j) THEN {} ELSE stored[j]]

\* What is left when the packet is stored, the old are dropped and the
\* complete one, if it returns, is removed.
Without(f, returns) ==
    LET k == KeyOf(f[1])
        stored == [packets EXCEPT ![k] = With(@, f)]
    IN [j \in Key |-> IF Expired(j) \/ (returns /\ j = k) THEN {} ELSE stored[j]]

\* Error correction, then by the flags of the last packet f decryption, then
\* JSON: a whole message in clear passes, and a sealed one if the listener has a
\* session with its sender that opens it.  A mixture may pass in clear only.
Readings(P, f) ==
    LET whole == {m \in Message : P = FragmentsOf(m)}
        sealed == f[1] \in Sealed
    IN {{m} : m \in whole}
       \cup (IF whole = {} /\ ~sealed THEN {{Garbled}} ELSE {})
       \cup (IF whole = {} \/ sealed THEN {{}} ELSE {})

\* add_packet, then _process_raw: the packet is stored, the buffers that are
\* too old are dropped, and then the packet's own is joined if it is complete.
\* If it has just been dropped, its removal raises KeyError: nothing returns.
Receive(n) ==
    /\ outbox[n] # <<>>
    /\ outbox' = [outbox EXCEPT ![n] = Tail(@)]
    /\ LET f == Head(outbox[n])
           k == KeyOf(f[1])
           P == With(packets[k], f)
           returns == Complete(P, f) /\ ~Expired(k)
       IN /\ packets' = Without(f, returns)
          /\ age' = [j \in Key |-> IF packets'[j] = {} THEN 0 ELSE age[j]]
          /\ \/ /\ returns
                /\ returned' = returned \cup {P}
                /\ \E r \in Readings(P, f) : handed' = handed \cup r
             \/ /\ ~returns
                /\ UNCHANGED <<returned, handed>>
          /\ causes' = causes
                \cup (IF \E g \in lost : g[1] = f[1] /\ g[2] < f[2] THEN {"gap"} ELSE {})
                \cup (IF \E j \in Key : Expired(j) THEN {"late"} ELSE {})
    /\ UNCHANGED <<queueing, sent, lost>>

\* Time passes for the buffers there are.
Tick ==
    /\ age' = [k \in Key |-> IF packets[k] # {} /\ age[k] <= Timeout THEN age[k] + 1 ELSE age[k]]
    /\ age' # age
    /\ UNCHANGED <<queueing, outbox, packets, handed, sent, returned, lost, causes>>

Next ==
    \/ \E t \in Thread, m \in Message : Begin(t, m)
    \/ \E t \in Thread : Put(t)
    \/ \E n \in Node : Lose(n) \/ Receive(n)
    \/ Tick

Spec == Init /\ [][Next]_vars

-----------------------------------------------------------------------------
(* Properties *)

\* A buffer holds some packets of its key, at most one per place, and never all.
Partial(k, P) ==
    /\ P \subseteq {f \in Fragment : KeyOf(f[1]) = k}
    /\ \A f, g \in P : f[2] = g[2] => f = g
    /\ \A f \in P : ~Complete(P, f)

\* Types; a buffer of the reassembly (framing.py:167-190) is partial.
TypeOK ==
    /\ queueing \in [Thread -> Fragment \cup {Idle}]
    /\ outbox \in [Node -> Seq(Fragment)]
    /\ \A n \in Node : Len(outbox[n]) <= Capacity
    /\ DOMAIN packets = Key
    /\ \A k \in Key : Partial(k, packets[k])
    /\ age \in [Key -> 0 .. Timeout + 1]
    /\ handed \subseteq Message \cup {Garbled}
    /\ sent \subseteq Message
    /\ returned \subseteq SUBSET Fragment
    /\ lost \subseteq Fragment
    /\ causes \subseteq Causes

\* No packet is joined into two messages, nor kept once it was joined
\* (framing.py:184-188), however losses, expiry and KeyErrors fall.
NoPacketTwice ==
    /\ \A P, Q \in returned : P # Q => P \cap Q = {}
    /\ \A k \in Key : \A P \in returned : packets[k] \cap P = {}

\* What add_packet returns is one message, unmixed, "for multiple in-flight
\* messages" (framing.py:157-161), unless two threads crossed, or a message was
\* heard with a hole in it, or a buffer grew too old.  A message whose END is
\* lost is no such cause: the next one overwrites what it left.
MixedForCause ==
    causes = {} => \A P \in returned : \E m \in Message : P = FragmentsOf(m)

\* Handed up; or, if the message is sealed, joined: it is dropped then if no
\* session opens it (mesh_node.py:265-274).
CameThrough(m) ==
    m \in handed \/ (m \in Sealed /\ FragmentsOf(m) \in returned)

\* And no message that was heard from end to end is missing where it arrives
\* (framing.py:167-171, mesh_node.py:254-278), but for those causes.
HeardIsHanded ==
    causes = {} =>
        \A m \in sent :
            \/ CameThrough(m)
            \/ FragmentsOf(m) \cap lost # {}
            \/ \E t \in Thread : queueing[t] # Idle /\ queueing[t][1] = m
            \/ \E i \in 1 .. Len(outbox[From[m]]) : outbox[From[m]][i][1] = m

=============================================================================
