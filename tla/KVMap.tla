-------------------------------- MODULE KVMap --------------------------------
(***************************************************************************)
(* What the local shard of one node promises its callers: a map from keys  *)
(* to values that changes in single steps, in which a completed write is   *)
(* durable and only a key that was once given a time to live may be        *)
(* forgotten behind its callers' backs.  There is no clock, no row and no  *)
(* second phase here; LocalStore is shown to implement this module.        *)
(***************************************************************************)
EXTENDS Integers

CONSTANTS
    Client,     \* threads that call the store
    UserKey,    \* keys callers write
    SeqKey,     \* "_seq:<table>" rows, written by next_id alone
    Value,      \* values callers write
    Nil,        \* Python None: no value
    Yes, No,    \* True and False
    NoArg,      \* the call was not a cas
    Raised,     \* the call ended with an exception
    NoView      \* no read in progress

VARIABLES
    dict,       \* what a statement sees
    durable,    \* what a crash leaves
    volatile,   \* keys some put named with a time to live
    view,       \* a read in progress: its key and the value it has seen
    answer      \* the answer given last

kvVars == <<dict, durable, volatile, view, answer>>

Key == UserKey \cup SeqKey

Init ==
    /\ dict = [k \in Key |-> Nil]
    /\ durable = dict
    /\ volatile = {}
    /\ view = [c \in Client |-> NoView]
    /\ answer = [expected |-> NoArg, result |-> Nil]

Reply(a) == answer' = [expected |-> NoArg, result |-> a]
CasReply(old, a) == answer' = [expected |-> old, result |-> a]

\* A completed write: visible and durable at once.
Settle(d) == dict' = d /\ durable' = d

\* A write that failed: not done, done but not durable, or rolled back.
Spoil(d) == dict' \in {dict, d, durable} /\ UNCHANGED durable

With(k, v) == [dict EXCEPT ![k] = v]
Without(S) == [k \in Key |-> IF k \in S THEN Nil ELSE dict[k]]

Put(c, k, v) ==
    /\ \/ Reply(Yes) /\ Settle(With(k, v))
       \/ Reply(No) /\ Spoil(With(k, v))
    /\ view[c] = NoView
    /\ UNCHANGED <<volatile, view>>

Delete(c, k) ==
    /\ \/ Reply(Yes) /\ Settle(Without({k}))
       \/ Reply(Raised) /\ Spoil(Without({k}))
    /\ view[c] = NoView
    /\ UNCHANGED <<volatile, view>>

Cas(c, k, old, new) ==
    /\ \/ CasReply(old, No) /\ dict[k] # old /\ UNCHANGED <<dict, durable>>
       \/ CasReply(old, Yes) /\ dict[k] = old /\ Settle(With(k, new))
       \/ CasReply(old, Raised) /\ dict[k] = old /\ Spoil(With(k, new))
    /\ view[c] = NoView
    /\ UNCHANGED <<volatile, view>>

NextId(c, t) ==
    /\ LET n == IF dict[t] = Nil THEN 1 ELSE dict[t] + 1
       IN  \/ Reply(n) /\ Settle(With(t, n))
           \/ Reply(Raised) /\ Spoil(With(t, n))
    /\ view[c] = NoView
    /\ UNCHANGED <<volatile, view>>

MakeVolatile(k) ==
    /\ k \notin volatile /\ volatile' = volatile \cup {k}
    /\ UNCHANGED <<answer, view, dict, durable>>

ReadAbsent(c, k) ==
    /\ Reply(Nil)
    /\ view[c] = NoView /\ dict[k] = Nil
    /\ UNCHANGED <<dict, durable, volatile, view>>

ReadBegin(c, k) ==
    /\ UNCHANGED <<answer, volatile>>
    /\ view[c] = NoView /\ dict[k] # Nil
    /\ view' = [view EXCEPT ![c] = [key |-> k, value |-> dict[k]]]
    /\ UNCHANGED <<dict, durable>>

ReadEnd(c) ==
    /\ view[c] # NoView
    /\ Reply(view[c].value)
    /\ view' = [view EXCEPT ![c] = NoView]
    /\ UNCHANGED <<dict, durable, volatile>>

\* A read of a volatile key may find it gone, and take it away.
ReadLost(c) ==
    /\ view[c] # NoView /\ view[c].key \in volatile
    /\ \/ Reply(Nil) /\ Settle(Without({view[c].key}))
       \/ Reply(Raised) /\ Spoil(Without({view[c].key}))
    /\ view' = [view EXCEPT ![c] = NoView]
    /\ UNCHANGED volatile

Forget(S) ==
    /\ UNCHANGED <<answer, volatile>> /\ S \subseteq volatile
    /\ UNCHANGED view
    /\ Settle(Without(S)) \/ Spoil(Without(S))

Crash ==
    /\ UNCHANGED <<answer, volatile, durable>>
    /\ dict' = durable
    /\ view' = [c \in Client |-> NoView]

Next ==
    \/ Crash
    \/ \E S \in SUBSET UserKey : Forget(S)
    \/ \E k \in UserKey : MakeVolatile(k)
    \/ \E c \in Client :
          \/ ReadEnd(c) \/ ReadLost(c)
          \/ \E k \in Key : ReadAbsent(c, k) \/ ReadBegin(c, k)
          \/ \E t \in SeqKey : NextId(c, t)
          \/ \E k \in UserKey : Delete(c, k)
          \/ \E k \in UserKey, v \in Value : Put(c, k, v)
          \/ \E k \in UserKey, old \in Value \cup {Nil}, v \in Value : Cas(c, k, old, v)

Spec == Init /\ [][Next]_kvVars

=============================================================================
