------------------------------ MODULE LocalStore ------------------------------
(***************************************************************************)
(* The SQLite-backed shard of one PNEUMA-DB node (class LocalStore of      *)
(* pneuma_db/db.py), called by several threads at once: the REST handlers  *)
(* of server.py are plain functions that FastAPI runs on a thread pool,    *)
(* and the relay's event loop applies remote requests beside them.         *)
(*                                                                         *)
(* A "with self._lock" block is one step: it holds the only lock, keeps    *)
(* nothing when it ends, and calls nothing that takes the lock again.      *)
(* What the code does OUTSIDE those blocks is a step of its own: put reads *)
(* the clock before it takes the lock, and get releases the lock before it *)
(* looks at the clock and calls delete.                                    *)
(*                                                                         *)
(* The connection is shared, so a statement whose commit fails stays       *)
(* visible to every thread (store) although no crash would keep it (disk). *)
(***************************************************************************)
EXTENDS Integers, Sequences

CONSTANTS
    Client,     \* threads that call the store
    UserKey,    \* keys callers write
    SeqKey,     \* "_seq:<table>" rows, written by next_id alone
    Value,      \* JSON values callers write
    Ttl,        \* the ttl arguments callers pass: NoTtl or seconds
    MaxTime,    \* bound: the clock stops here
    MaxId,      \* bound: no counter is taken past this
    Nil,        \* Python None
    NoTtl,      \* ttl=None, and a NULL expires_at
    NoRow,      \* no row under a key
    Idle,       \* no call in progress
    Yes, No,    \* True and False
    NoArg,      \* the call was not a cas
    Raised      \* the call ended with an exception

Key == UserKey \cup SeqKey

UserRow == [value : Value, expires : Nat \cup {NoTtl}]
SeqRow == [value : Nat, expires : {NoTtl}]
Row == UserRow \cup SeqRow

\* A table: at most one row per key, and counters that never expire.
IsTable(s) ==
    /\ s \in [Key -> Row \cup {NoRow}]
    /\ \A k \in UserKey : s[k] \in UserRow \cup {NoRow}
    /\ \A t \in SeqKey : s[t] \in SeqRow \cup {NoRow}

\* A call between two of its steps, with the row it carries along: the row
\* put is about to write, or the row get has read.
Call == [op : {"put", "got", "purge"}, key : Key, row : Row]

\* What a call returned, and for cas also the value it was told to expect.
Answer == [expected : Value \cup {Nil, NoArg},
           result : Value \cup Nat \cup {Nil, Yes, No, Raised}]

ASSUME StoreConstants ==
    /\ UserKey \cap SeqKey = {}
    /\ MaxTime \in Nat /\ MaxId \in Nat
    /\ Ttl \subseteq Nat \cup {NoTtl}
    /\ NoTtl \notin Nat
    /\ NoRow \notin Row
    /\ Idle \notin Call
    /\ Nil \notin Value \cup Nat

\* The KVMap view of a read, a key with a value, is never taken for no view.
ASSUME IdleIsNoView == Idle \notin [key : Key, value : Value \cup Nat]

VARIABLES
    store,      \* the table as the shared connection sees it
    disk,       \* the table as last committed
    now,        \* time.time()
    call,       \* the call each client is in
    answer,     \* the answer given last
    volatile,   \* history: keys some put named with a time to live
    acked,      \* history: the value a user key's last write acknowledged, or Nil
    issued      \* history: the ids next_id handed out, per table

vars == <<store, disk, now, call, answer, volatile, acked, issued>>

TypeOK ==
    /\ IsTable(store)
    /\ IsTable(disk)
    /\ now \in Nat
    /\ call \in [Client -> Call \cup {Idle}]
    /\ answer \in Answer
    /\ volatile \subseteq UserKey
    /\ acked \in [UserKey -> Value \cup {Nil}]
    /\ issued \in [SeqKey -> Seq(Nat)]

Init ==
    /\ store = [k \in Key |-> NoRow]
    /\ disk = [k \in Key |-> NoRow]
    /\ now = 0
    /\ call = [c \in Client |-> Idle]
    /\ answer = [expected |-> NoArg, result |-> Nil]
    /\ volatile = {}
    /\ acked = [k \in UserKey |-> Nil]
    /\ issued = [t \in SeqKey |-> <<>>]

-----------------------------------------------------------------------------
(* What the handlers share *)

Reply(a) == answer' = [expected |-> NoArg, result |-> a]
CasReply(old, a) == answer' = [expected |-> old, result |-> a]

\* Nobody can rely on k any more, or everybody on v.
Acked(k, v) == acked' = [acked EXCEPT ![k] = v]

\* A mutant of Commit: the handler returns without conn.commit().
CommitMutant(s) == store' = s /\ UNCHANGED disk

\* conn.commit() returns: everything the connection holds is on disk.
Commit(s) == store' = s /\ disk' = s

\* An SQLite error before or in the commit: the statement did not run, or it
\* ran and its transaction stays open, or SQLite rolled the transaction back.
Fail(s) == store' \in {store, s, disk} /\ UNCHANGED disk

ValueIn(s, k) == IF s[k] = NoRow THEN Nil ELSE s[k].value

\* "expires_at = now + ttl if ttl else None": zero seconds means no expiry.
Expiry(ttl) == IF ttl \in {NoTtl, 0} THEN NoTtl ELSE now + ttl

Expired(row) == row.expires # NoTtl /\ now > row.expires

\* A mutant of Without: the row is overwritten with null instead of deleted.
WithoutMutant(k) == [store EXCEPT ![k] = Nil]

NewRow(k, row) == [store EXCEPT ![k] = row]
Without(k) == [store EXCEPT ![k] = NoRow]

-----------------------------------------------------------------------------
(* put *)

PutBegin(c, k, v, ttl) ==
    /\ call[c] = Idle
    /\ call' = [call EXCEPT ![c] =
          [op |-> "put", key |-> k, row |-> [value |-> v, expires |-> Expiry(ttl)]]]
    /\ volatile' = IF ttl \in {NoTtl, 0} THEN volatile ELSE volatile \cup {k}
    /\ UNCHANGED <<store, disk, now, answer, acked, issued>>

PutCommit(c) ==
    /\ call[c] # Idle /\ call[c].op = "put"
    /\ LET k == call[c].key
           row == call[c].row
       IN  \/ Commit(NewRow(k, row)) /\ Reply(Yes) /\ Acked(k, row.value)
           \/ Fail(NewRow(k, row)) /\ Reply(No) /\ Acked(k, Nil)
    /\ call' = [call EXCEPT ![c] = Idle]
    /\ UNCHANGED <<now, volatile, issued>>

-----------------------------------------------------------------------------
(* get *)

GetSelect(c, k) ==
    /\ call[c] = Idle
    /\ \/ /\ store[k] = NoRow
          /\ Reply(Nil)
          /\ UNCHANGED call
       \/ /\ store[k] # NoRow
          /\ call' = [call EXCEPT ![c] = [op |-> "got", key |-> k, row |-> store[k]]]
          /\ UNCHANGED answer
    /\ UNCHANGED <<store, disk, now, volatile, acked, issued>>

GetCheck(c) ==
    /\ call[c] # Idle /\ call[c].op = "got"
    /\ \/ /\ Expired(call[c].row)
          /\ call' = [call EXCEPT ![c].op = "purge"]
          /\ UNCHANGED answer
       \/ /\ ~ Expired(call[c].row)
          /\ Reply(call[c].row.value)
          /\ call' = [call EXCEPT ![c] = Idle]
    /\ UNCHANGED <<store, disk, now, volatile, acked, issued>>

\* self.delete(key): whatever row is there by now.
GetPurge(c) ==
    /\ call[c] # Idle /\ call[c].op = "purge"
    /\ \/ Commit(Without(call[c].key)) /\ Reply(Nil)
       \/ Fail(Without(call[c].key)) /\ Reply(Raised)
    /\ call' = [call EXCEPT ![c] = Idle]
    /\ UNCHANGED <<now, volatile, acked, issued>>

-----------------------------------------------------------------------------
(* delete, cas, next_id: one locked block each *)

Delete(c, k) ==
    /\ call[c] = Idle
    /\ \/ Commit(Without(k)) /\ Reply(Yes)
       \/ Fail(Without(k)) /\ Reply(Raised)
    /\ Acked(k, Nil)
    /\ UNCHANGED <<now, call, volatile, issued>>

\* A mutant of Cas: expecting None is taken to mean expecting anything.
CasMutant(c, k, old, new) ==
    /\ call[c] = Idle
    /\ old = Nil \/ ValueIn(store, k) = old
    /\ Commit(NewRow(k, [value |-> new, expires |-> NoTtl]))
    /\ CasReply(old, Yes) /\ Acked(k, new)
    /\ UNCHANGED <<now, call, volatile, issued>>

\* The row's expires_at is neither looked at nor changed.
Cas(c, k, old, new) ==
    /\ call[c] = Idle
    /\ LET row == [value |-> new,
                   expires |-> IF store[k] = NoRow THEN NoTtl ELSE store[k].expires]
       IN  \/ /\ ValueIn(store, k) # old
              /\ CasReply(old, No)
              /\ UNCHANGED <<store, disk, acked>>
           \/ /\ ValueIn(store, k) = old
              /\ Commit(NewRow(k, row)) /\ CasReply(old, Yes) /\ Acked(k, new)
           \/ /\ ValueIn(store, k) = old
              /\ Fail(NewRow(k, row)) /\ CasReply(old, Raised) /\ Acked(k, Nil)
    /\ UNCHANGED <<now, call, volatile, issued>>

\* A mutant of NextId: a failed commit is logged and the id returned all the same.
NextIdMutant(c, t) ==
    /\ call[c] = Idle
    /\ LET n == IF store[t] = NoRow THEN 1 ELSE store[t].value + 1
           row == [value |-> n, expires |-> NoTtl]
       IN  /\ n <= MaxId
           /\ Commit(NewRow(t, row)) \/ Fail(NewRow(t, row))
           /\ Reply(n)
           /\ issued' = [issued EXCEPT ![t] = Append(@, n)]
    /\ UNCHANGED <<now, call, volatile, acked>>

NextId(c, t) ==
    /\ call[c] = Idle
    /\ LET n == IF store[t] = NoRow THEN 1 ELSE store[t].value + 1
           row == [value |-> n,
                   expires |-> IF store[t] = NoRow THEN NoTtl ELSE store[t].expires]
       IN  /\ n <= MaxId
           /\ \/ /\ Commit(NewRow(t, row)) /\ Reply(n)
                 /\ issued' = [issued EXCEPT ![t] = Append(@, n)]
              \/ /\ Fail(NewRow(t, row)) /\ Reply(Raised)
                 /\ UNCHANGED issued
    /\ UNCHANGED <<now, call, volatile, acked>>

-----------------------------------------------------------------------------
(* housekeeping and the environment *)

Swept == [k \in Key |-> IF store[k] # NoRow /\ Expired(store[k]) THEN NoRow ELSE store[k]]

ExpireOld ==
    /\ Commit(Swept) \/ Fail(Swept)
    /\ UNCHANGED <<now, call, answer, volatile, acked, issued>>

Tick ==
    /\ now < MaxTime
    /\ now' = now + 1
    /\ UNCHANGED <<store, disk, call, answer, volatile, acked, issued>>

\* The process dies and a new one opens the same file.
Crash ==
    /\ store' = disk
    /\ call' = [c \in Client |-> Idle]
    /\ UNCHANGED <<disk, now, answer, volatile, acked, issued>>

Next ==
    \/ \E c \in Client :
          \/ \E k \in UserKey, v \in Value, ttl \in Ttl : PutBegin(c, k, v, ttl)
          \/ \E k \in Key : GetSelect(c, k)
          \/ \E k \in UserKey : Delete(c, k)
          \/ \E k \in UserKey, old \in Value \cup {Nil}, new \in Value : Cas(c, k, old, new)
          \/ \E t \in SeqKey : NextId(c, t)
          \/ PutCommit(c) \/ GetCheck(c) \/ GetPurge(c)
    \/ ExpireOld
    \/ Tick
    \/ Crash

Spec == Init /\ [][Next]_vars

-----------------------------------------------------------------------------
(* Properties *)

\* A write that was acknowledged to a key nobody ever gave a time to live is
\* what every reader sees and what a crash leaves, until the next write or
\* delete of that key is called: put's return True after commit (db.py:117-138),
\* and get's lazy delete, expire_old and failed commits must not touch it.
AckedIsDurable ==
    \A k \in UserKey \ volatile :
        acked[k] # Nil =>
            /\ ValueIn(store, k) = acked[k]
            /\ ValueIn(disk, k) = acked[k]

\* next_id never hands out an id twice, whatever commits fail and whatever
\* crashes lie between two calls (db.py:193-208).
IdsDistinct ==
    \A t \in SeqKey : \A i, j \in DOMAIN issued[t] : i < j => issued[t][i] < issued[t][j]

\* The map a caller may think of, whatever steps its calls take.
KV == INSTANCE KVMap WITH
    dict <- [k \in Key |-> ValueIn(store, k)],
    durable <- [k \in Key |-> ValueIn(disk, k)],
    view <- [c \in Client |-> IF call[c] # Idle /\ call[c].op \in {"got", "purge"}
                              THEN [key |-> call[c].key, value |-> call[c].row.value]
                              ELSE Idle],
    NoView <- Idle

\* LocalStore implements the map of KVMap (db.py:89-218).
ImplementsMap == KV!Spec

=============================================================================
