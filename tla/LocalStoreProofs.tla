--------------------------- MODULE LocalStoreProofs ---------------------------
(***************************************************************************)
(* Proofs about LocalStore, for any number of clients, keys and values and *)
(* any clock: acknowledged writes survive, ids are not repeated, and the   *)
(* store implements the map of KVMap.                                      *)
(***************************************************************************)
EXTENDS LocalStore, TLAPS

\* A row that expires sits only under a volatile key, in the table and in the
\* calls that carry rows; only an expiring row is ever purged.
ExpiringIsVolatile ==
    /\ \A k \in UserKey :
          /\ store[k] # NoRow /\ store[k].expires # NoTtl => k \in volatile
          /\ disk[k] # NoRow /\ disk[k].expires # NoTtl => k \in volatile
    /\ \A c \in Client : call[c] # Idle =>
          /\ call[c].row.expires # NoTtl => call[c].key \in volatile
          /\ call[c].op = "purge" => call[c].row.expires # NoTtl

\* A call of put carries a row fit for a user key.
PutsAreTyped ==
    \A c \in Client : call[c] # Idle /\ call[c].op = "put" =>
        call[c].key \in UserKey /\ call[c].row \in UserRow

\* The counter covers every id handed out, in the table and on disk, so that
\* neither the next statement nor a crash can bring one back.
CounterCovers ==
    \A t \in SeqKey : \A i \in DOMAIN issued[t] :
        /\ store[t] # NoRow /\ issued[t][i] <= store[t].value
        /\ disk[t] # NoRow /\ issued[t][i] <= disk[t].value

\* AckedIsDurable needs ExpiringIsVolatile (only a volatile key is purged or
\* swept), IdsDistinct needs CounterCovers, and all need the types.
IndInv ==
    /\ TypeOK
    /\ PutsAreTyped
    /\ ExpiringIsVolatile
    /\ AckedIsDurable
    /\ CounterCovers
    /\ IdsDistinct

-----------------------------------------------------------------------------
(* Tables under the operations that change them *)

LEMMA KeyFacts == UserKey \subseteq Key /\ SeqKey \subseteq Key /\ UserKey \cap SeqKey = {}
BY StoreConstants DEF Key

\* Writing a user row, a counter or nothing at a key leaves a table a table.
LEMMA WriteTyped ==
    ASSUME IsTable(store), NEW k \in Key, NEW row \in Row \cup {NoRow},
           k \in UserKey => row \in UserRow \cup {NoRow},
           k \in SeqKey => row \in SeqRow \cup {NoRow}
    PROVE  IsTable(NewRow(k, row))
BY KeyFacts DEF IsTable, NewRow, Row

LEMMA DeleteTyped ==
    ASSUME IsTable(store), NEW k \in Key
    PROVE  IsTable(Without(k))
BY WriteTyped DEF Without, NewRow

LEMMA SweptTyped == IsTable(store) => IsTable(Swept)
BY KeyFacts DEF IsTable, Swept

\* Whether a write is committed, fails or is rolled back, both views stay tables.
LEMMA WriteSettles ==
    ASSUME IsTable(store), IsTable(disk), NEW s, IsTable(s), Commit(s) \/ Fail(s)
    PROVE  IsTable(store)' /\ IsTable(disk)'
BY DEF Commit, Fail, IsTable

-----------------------------------------------------------------------------
(* Type correctness *)

LEMMA InitTyped == Init => TypeOK /\ PutsAreTyped
BY StoreConstants, KeyFacts DEF Init, TypeOK, IsTable, PutsAreTyped, Answer, Row

LEMMA NextTyped == TypeOK /\ PutsAreTyped /\ [Next]_vars => TypeOK' /\ PutsAreTyped'
<1> SUFFICES ASSUME TypeOK, PutsAreTyped, [Next]_vars PROVE TypeOK' /\ PutsAreTyped'
  OBVIOUS
<1> USE StoreConstants, KeyFacts
<1>1. ASSUME NEW c \in Client, NEW k \in UserKey, NEW v \in Value, NEW ttl \in Ttl,
             PutBegin(c, k, v, ttl)
      PROVE  TypeOK' /\ PutsAreTyped'
  <2>1. Expiry(ttl) \in Nat \cup {NoTtl}
    BY DEF Expiry, TypeOK
  <2>2. [value |-> v, expires |-> Expiry(ttl)] \in UserRow
    BY <2>1 DEF UserRow
  <2>3. volatile' \subseteq UserKey
    BY <1>1 DEF PutBegin, TypeOK
  <2> QED BY <1>1, <2>2, <2>3 DEF PutBegin, TypeOK, PutsAreTyped, Call, Row, IsTable
<1>2. ASSUME NEW c \in Client, PutCommit(c) PROVE TypeOK' /\ PutsAreTyped'
  <2>1. call[c].key \in UserKey /\ call[c].row \in UserRow
    BY <1>2 DEF PutCommit, PutsAreTyped
  <2>2. IsTable(NewRow(call[c].key, call[c].row))
    BY <2>1, WriteTyped DEF TypeOK, Row
  <2>3. IsTable(store)' /\ IsTable(disk)'
    BY <1>2, <2>2, WriteSettles DEF PutCommit, TypeOK
  <2>4. answer' \in Answer
    BY <1>2 DEF PutCommit, Reply, Answer
  <2>5. acked' \in [UserKey -> Value \cup {Nil}]
    BY <1>2, <2>1 DEF PutCommit, Acked, TypeOK, UserRow
  <2> QED BY <1>2, <2>3, <2>4, <2>5 DEF PutCommit, TypeOK, PutsAreTyped
<1>3. ASSUME NEW c \in Client, NEW k \in Key, GetSelect(c, k)
      PROVE  TypeOK' /\ PutsAreTyped'
  <2>1. CASE store[k] = NoRow
    BY <1>3, <2>1 DEF GetSelect, TypeOK, PutsAreTyped, Reply, Answer, IsTable
  <2>2. CASE store[k] # NoRow
    <3>1. store[k] \in Row
      BY <2>2 DEF TypeOK, IsTable
    <3>2. [op |-> "got", key |-> k, row |-> store[k]] \in Call
      BY <3>1 DEF Call
    <3>3. /\ call' = [call EXCEPT ![c] = [op |-> "got", key |-> k, row |-> store[k]]]
          /\ UNCHANGED <<store, disk, now, answer, volatile, acked, issued>>
      BY <1>3, <2>2 DEF GetSelect
    <3>4. PutsAreTyped'
      BY <3>3 DEF TypeOK, PutsAreTyped
    <3> QED BY <3>2, <3>3, <3>4 DEF TypeOK, IsTable
  <2> QED BY <2>1, <2>2
<1>4. ASSUME NEW c \in Client, GetCheck(c) PROVE TypeOK' /\ PutsAreTyped'
  <2>1. call[c] \in Call
    BY <1>4 DEF GetCheck, TypeOK
  <2>2. call[c].row.value \in Value \cup Nat
    BY <2>1 DEF Call, Row, UserRow, SeqRow
  <2>3. answer' \in Answer
    BY <1>4, <2>2 DEF GetCheck, Reply, Answer, TypeOK
  <2>4. call' \in [Client -> Call \cup {Idle}]
    <3>1. [call[c] EXCEPT !.op = "purge"] \in Call
      BY <2>1 DEF Call
    <3>2. call' = [call EXCEPT ![c] = [call[c] EXCEPT !.op = "purge"]]
          \/ call' = [call EXCEPT ![c] = Idle]
      BY <1>4 DEF GetCheck
    <3> QED BY <3>1, <3>2 DEF TypeOK
  <2>5. PutsAreTyped'
    BY <1>4, <2>1 DEF GetCheck, TypeOK, PutsAreTyped, Call
  <2> QED BY <1>4, <2>3, <2>4, <2>5 DEF GetCheck, TypeOK, IsTable
<1>5. ASSUME NEW c \in Client, GetPurge(c) PROVE TypeOK' /\ PutsAreTyped'
  <2>1. call[c].key \in Key
    BY <1>5 DEF GetPurge, TypeOK, Call
  <2>2. IsTable(store)' /\ IsTable(disk)'
    BY <1>5, <2>1, DeleteTyped, WriteSettles DEF GetPurge, TypeOK
  <2>3. answer' \in Answer
    BY <1>5 DEF GetPurge, Reply, Answer
  <2> QED BY <1>5, <2>2, <2>3 DEF GetPurge, TypeOK, PutsAreTyped
<1>6. ASSUME NEW c \in Client, NEW k \in UserKey, Delete(c, k)
      PROVE  TypeOK' /\ PutsAreTyped'
  <2>1. IsTable(store)' /\ IsTable(disk)'
    BY <1>6, DeleteTyped, WriteSettles DEF Delete, TypeOK
  <2>2. answer' \in Answer /\ acked' \in [UserKey -> Value \cup {Nil}]
    BY <1>6 DEF Delete, Reply, Answer, Acked, TypeOK
  <2> QED BY <1>6, <2>1, <2>2 DEF Delete, TypeOK, PutsAreTyped
<1>7. ASSUME NEW c \in Client, NEW k \in UserKey, NEW old \in Value \cup {Nil},
             NEW new \in Value, Cas(c, k, old, new)
      PROVE  TypeOK' /\ PutsAreTyped'
  <2> DEFINE row == [value |-> new,
                     expires |-> IF store[k] = NoRow THEN NoTtl ELSE store[k].expires]
  <2>1. row \in UserRow
    BY DEF TypeOK, IsTable, UserRow
  <2>2. IsTable(NewRow(k, row))
    BY <2>1, WriteTyped DEF TypeOK, Row
  <2>3. IsTable(store)' /\ IsTable(disk)'
    <3>1. CASE UNCHANGED <<store, disk>>
      BY <3>1 DEF TypeOK, IsTable
    <3>2. CASE Commit(NewRow(k, row)) \/ Fail(NewRow(k, row))
      BY <3>2, <2>2, WriteSettles DEF TypeOK
    <3> QED BY <1>7, <3>1, <3>2 DEF Cas
  <2>4. answer' \in Answer /\ acked' \in [UserKey -> Value \cup {Nil}]
    <3>1. /\ CasReply(old, No) \/ CasReply(old, Yes) \/ CasReply(old, Raised)
          /\ acked' = acked \/ Acked(k, new) \/ Acked(k, Nil)
      BY <1>7 DEF Cas
    <3> QED BY <3>1 DEF CasReply, Answer, Acked, TypeOK
  <2> QED BY <1>7, <2>3, <2>4 DEF Cas, TypeOK, PutsAreTyped
<1>8. ASSUME NEW c \in Client, NEW t \in SeqKey, NextId(c, t)
      PROVE  TypeOK' /\ PutsAreTyped'
  <2> DEFINE n == IF store[t] = NoRow THEN 1 ELSE store[t].value + 1
             row == [value |-> n,
                     expires |-> IF store[t] = NoRow THEN NoTtl ELSE store[t].expires]
  <2>1. n \in Nat /\ row \in SeqRow
    BY DEF TypeOK, IsTable, SeqRow
  <2>2. IsTable(NewRow(t, row))
    BY <2>1, WriteTyped DEF TypeOK, Row
  <2>3. IsTable(store)' /\ IsTable(disk)'
    <3>1. Commit(NewRow(t, row)) \/ Fail(NewRow(t, row))
      BY <1>8 DEF NextId
    <3> QED BY <3>1, <2>2, WriteSettles DEF TypeOK
  <2>4. answer' \in Answer
    BY <1>8, <2>1 DEF NextId, Reply, Answer
  <2>5. issued' \in [SeqKey -> Seq(Nat)]
    <3>1. issued' = issued \/ issued' = [issued EXCEPT ![t] = Append(@, n)]
      BY <1>8 DEF NextId
    <3>2. Append(issued[t], n) \in Seq(Nat)
      BY <2>1 DEF TypeOK
    <3> QED BY <3>1, <3>2 DEF TypeOK
  <2> QED BY <1>8, <2>3, <2>4, <2>5 DEF NextId, TypeOK, PutsAreTyped
<1>9. CASE ExpireOld
  BY <1>9, SweptTyped, WriteSettles DEF ExpireOld, TypeOK, PutsAreTyped
<1>10. CASE Tick
  BY <1>10 DEF Tick, TypeOK, PutsAreTyped, IsTable
<1>11. CASE Crash
  BY <1>11 DEF Crash, TypeOK, PutsAreTyped, IsTable
<1>12. CASE UNCHANGED vars
  BY <1>12 DEF vars, TypeOK, PutsAreTyped, IsTable
<1> QED BY <1>1, <1>2, <1>3, <1>4, <1>5, <1>6, <1>7, <1>8, <1>9, <1>10, <1>11, <1>12 DEF Next

\* Every row, counter, call and reply stays of its kind: in particular a counter
\* row is never overwritten by put or cas and never gets an expiry.
THEOREM TypeCorrect == Spec => []TypeOK
BY InitTyped, NextTyped, PTL DEF Spec

-----------------------------------------------------------------------------
(* Acknowledged writes *)

LEMMA NextExpiring ==
    TypeOK /\ PutsAreTyped /\ ExpiringIsVolatile /\ [Next]_vars => ExpiringIsVolatile'
<1> SUFFICES ASSUME TypeOK, PutsAreTyped, ExpiringIsVolatile, [Next]_vars
             PROVE  ExpiringIsVolatile'
  OBVIOUS
<1> USE StoreConstants, KeyFacts
<1>1. ASSUME NEW c \in Client, NEW k \in UserKey, NEW v \in Value, NEW ttl \in Ttl,
             PutBegin(c, k, v, ttl)
      PROVE  ExpiringIsVolatile'
  <2>1. volatile \subseteq volatile' /\ (Expiry(ttl) # NoTtl => k \in volatile')
    BY <1>1 DEF PutBegin, Expiry
  <2>2. call' = [call EXCEPT ![c] =
            [op |-> "put", key |-> k, row |-> [value |-> v, expires |-> Expiry(ttl)]]]
    BY <1>1 DEF PutBegin
  <2>3. \A d \in Client : call'[d] # Idle =>
            /\ call'[d].row.expires # NoTtl => call'[d].key \in volatile'
            /\ call'[d].op = "purge" => call'[d].row.expires # NoTtl
    BY <2>1, <2>2 DEF ExpiringIsVolatile, TypeOK
  <2> QED BY <1>1, <2>1, <2>3 DEF PutBegin, ExpiringIsVolatile
<1>2. ASSUME NEW c \in Client, PutCommit(c) PROVE ExpiringIsVolatile'
  <2>1. call[c].key \in UserKey /\ call[c].row \in UserRow
    BY <1>2 DEF PutCommit, PutsAreTyped
  <2>2. call[c].row.expires # NoTtl => call[c].key \in volatile
    BY <1>2 DEF PutCommit, ExpiringIsVolatile
  <2>3. \A k \in UserKey :
           NewRow(call[c].key, call[c].row)[k] # NoRow
           /\ NewRow(call[c].key, call[c].row)[k].expires # NoTtl => k \in volatile
    BY <2>1, <2>2 DEF NewRow, TypeOK, IsTable, ExpiringIsVolatile
  <2> QED BY <1>2, <2>3 DEF PutCommit, ExpiringIsVolatile, Commit, Fail, TypeOK
<1>3. ASSUME NEW c \in Client, NEW k \in Key, GetSelect(c, k) PROVE ExpiringIsVolatile'
  <2>1. k \in UserKey \/ (store[k] # NoRow => store[k].expires = NoTtl)
    BY DEF TypeOK, IsTable, SeqRow, Key
  <2>2. CASE UNCHANGED call
    BY <1>3, <2>2 DEF GetSelect, ExpiringIsVolatile
  <2>3. CASE store[k] # NoRow
             /\ call' = [call EXCEPT ![c] = [op |-> "got", key |-> k, row |-> store[k]]]
    <3>1. call'[c].row = store[k] /\ call'[c].key = k /\ call'[c].op = "got"
      BY <2>3 DEF TypeOK
    <3>2. \A d \in Client \ {c} : call'[d] = call[d]
      BY <2>3 DEF TypeOK
    <3>3. store[k].expires # NoTtl => k \in volatile
      BY <2>1, <2>3 DEF ExpiringIsVolatile
    <3> QED BY <1>3, <3>1, <3>2, <3>3 DEF GetSelect, ExpiringIsVolatile
  <2> QED BY <1>3, <2>2, <2>3 DEF GetSelect
<1>4. ASSUME NEW c \in Client, GetCheck(c) PROVE ExpiringIsVolatile'
  <2>1. call[c] \in Call
    BY <1>4 DEF GetCheck, TypeOK
  <2>2. CASE call' = [call EXCEPT ![c].op = "purge"] /\ Expired(call[c].row)
    <3>1. call'[c].row = call[c].row /\ call'[c].key = call[c].key
      BY <2>1, <2>2 DEF TypeOK, Call
    <3>2. call[c].row.expires # NoTtl /\ call[c].key \in volatile
      BY <1>4, <2>2 DEF Expired, ExpiringIsVolatile, GetCheck
    <3>3. \A d \in Client \ {c} : call'[d] = call[d]
      BY <2>2 DEF TypeOK
    <3> QED BY <1>4, <3>1, <3>2, <3>3 DEF GetCheck, ExpiringIsVolatile
  <2>3. CASE call' = [call EXCEPT ![c] = Idle]
    BY <1>4, <2>3 DEF GetCheck, ExpiringIsVolatile, TypeOK
  <2> QED BY <1>4, <2>2, <2>3 DEF GetCheck
<1>5. ASSUME NEW c \in Client, GetPurge(c) PROVE ExpiringIsVolatile'
  BY <1>5 DEF GetPurge, ExpiringIsVolatile, Commit, Fail, Without, TypeOK, IsTable
<1>6. ASSUME NEW c \in Client, NEW k \in UserKey, Delete(c, k) PROVE ExpiringIsVolatile'
  BY <1>6 DEF Delete, ExpiringIsVolatile, Commit, Fail, Without, TypeOK, IsTable
<1>7. ASSUME NEW c \in Client, NEW k \in UserKey, NEW old \in Value \cup {Nil},
             NEW new \in Value, Cas(c, k, old, new)
      PROVE  ExpiringIsVolatile'
  <2> DEFINE row == [value |-> new,
                     expires |-> IF store[k] = NoRow THEN NoTtl ELSE store[k].expires]
  <2>1. \A j \in UserKey : NewRow(k, row)[j] # NoRow /\ NewRow(k, row)[j].expires # NoTtl
                            => j \in volatile
    BY DEF NewRow, TypeOK, IsTable, ExpiringIsVolatile
  <2>2. UNCHANGED <<store, disk>> \/ Commit(NewRow(k, row)) \/ Fail(NewRow(k, row))
    BY <1>7 DEF Cas
  <2> HIDE DEF row
  <2> QED BY <1>7, <2>1, <2>2 DEF Cas, ExpiringIsVolatile, Commit, Fail
<1>8. ASSUME NEW c \in Client, NEW t \in SeqKey, NextId(c, t) PROVE ExpiringIsVolatile'
  <2> DEFINE n == IF store[t] = NoRow THEN 1 ELSE store[t].value + 1
             row == [value |-> n,
                     expires |-> IF store[t] = NoRow THEN NoTtl ELSE store[t].expires]
  <2>1. \A j \in UserKey : NewRow(t, row)[j] = store[j]
    BY DEF NewRow, TypeOK, IsTable
  <2>2. Commit(NewRow(t, row)) \/ Fail(NewRow(t, row))
    BY <1>8 DEF NextId
  <2> HIDE DEF row, n
  <2> QED BY <1>8, <2>1, <2>2 DEF NextId, ExpiringIsVolatile, Commit, Fail
<1>9. CASE ExpireOld
  <2>1. \A j \in UserKey : Swept[j] = NoRow \/ Swept[j] = store[j]
    BY DEF Swept
  <2> QED BY <1>9, <2>1 DEF ExpireOld, ExpiringIsVolatile, Commit, Fail
<1>10. CASE Tick
  BY <1>10 DEF Tick, ExpiringIsVolatile
<1>11. CASE Crash
  BY <1>11 DEF Crash, ExpiringIsVolatile
<1>12. CASE UNCHANGED vars
  BY <1>12 DEF vars, ExpiringIsVolatile
<1> QED BY <1>1, <1>2, <1>3, <1>4, <1>5, <1>6, <1>7, <1>8, <1>9, <1>10, <1>11, <1>12 DEF Next

\* A write at another key leaves what k holds as it was, in both views, as long
\* as the two views agree on k.
LEMMA OtherKeyKept ==
    ASSUME NEW k \in UserKey, NEW s, Commit(s) \/ Fail(s),
           s[k] = store[k], ValueIn(store, k) = ValueIn(disk, k)
    PROVE  ValueIn(store', k) = ValueIn(store, k) /\ ValueIn(disk', k) = ValueIn(store, k)
BY DEF Commit, Fail, ValueIn

LEMMA NextAcked ==
    TypeOK /\ PutsAreTyped /\ ExpiringIsVolatile /\ AckedIsDurable /\ [Next]_vars
        => AckedIsDurable'
<1> SUFFICES ASSUME TypeOK, PutsAreTyped, ExpiringIsVolatile, AckedIsDurable, [Next]_vars,
                    NEW j \in UserKey, j \notin volatile', acked'[j] # Nil
             PROVE  ValueIn(store', j) = acked'[j] /\ ValueIn(disk', j) = acked'[j]
  BY DEF AckedIsDurable, ValueIn
<1> USE StoreConstants, KeyFacts
<1>0. ASSUME j \notin volatile, acked[j] # Nil
      PROVE  ValueIn(store, j) = acked[j] /\ ValueIn(disk, j) = acked[j]
  BY <1>0 DEF AckedIsDurable
<1>1. ASSUME NEW c \in Client, NEW k \in UserKey, NEW v \in Value, NEW ttl \in Ttl,
             PutBegin(c, k, v, ttl)
      PROVE  ValueIn(store', j) = acked'[j] /\ ValueIn(disk', j) = acked'[j]
  BY <1>0, <1>1 DEF PutBegin, ValueIn
<1>2. ASSUME NEW c \in Client, PutCommit(c)
      PROVE  ValueIn(store', j) = acked'[j] /\ ValueIn(disk', j) = acked'[j]
  <2> DEFINE k == call[c].key
             s == NewRow(k, call[c].row)
  <2>1. k \in UserKey /\ call[c].row \in UserRow /\ call[c].row # NoRow
    BY <1>2 DEF PutCommit, PutsAreTyped, Row
  <2>2. \/ Commit(s) /\ Acked(k, call[c].row.value)
        \/ Fail(s) /\ Acked(k, Nil)
    BY <1>2 DEF PutCommit
  <2>3. CASE j = k
    <3>1. Commit(s) /\ acked'[j] = call[c].row.value
      BY <2>1, <2>2, <2>3 DEF Acked, TypeOK
    <3>2. s[j] = call[c].row
      BY <2>1, <2>3 DEF NewRow, TypeOK, IsTable
    <3> QED BY <2>1, <3>1, <3>2 DEF Commit, ValueIn
  <2>4. CASE j # k
    <3>1. s[j] = store[j] /\ acked'[j] = acked[j] /\ volatile' = volatile
      BY <1>2, <2>1, <2>2, <2>4 DEF PutCommit, Acked, NewRow, TypeOK, IsTable
    <3>2. ValueIn(store, j) = acked[j] /\ ValueIn(disk, j) = acked[j]
      BY <1>0, <3>1
    <3> HIDE DEF s, k
    <3> QED BY <2>2, <3>1, <3>2, OtherKeyKept
  <2> QED BY <2>3, <2>4
<1>3. ASSUME NEW c \in Client, NEW k \in Key, GetSelect(c, k)
      PROVE  ValueIn(store', j) = acked'[j] /\ ValueIn(disk', j) = acked'[j]
  BY <1>0, <1>3 DEF GetSelect, ValueIn
<1>4. ASSUME NEW c \in Client, GetCheck(c)
      PROVE  ValueIn(store', j) = acked'[j] /\ ValueIn(disk', j) = acked'[j]
  BY <1>0, <1>4 DEF GetCheck, ValueIn
<1>5. ASSUME NEW c \in Client, GetPurge(c)
      PROVE  ValueIn(store', j) = acked'[j] /\ ValueIn(disk', j) = acked'[j]
  <2> DEFINE s == Without(call[c].key)
  <2>1. call[c].key \in volatile /\ volatile' = volatile /\ acked' = acked
    BY <1>5 DEF GetPurge, ExpiringIsVolatile
  <2>2. s[j] = store[j]
    BY <2>1 DEF Without, TypeOK, IsTable
  <2>3. Commit(s) \/ Fail(s)
    BY <1>5 DEF GetPurge
  <2> HIDE DEF s
  <2> QED BY <1>0, <2>1, <2>2, <2>3, OtherKeyKept
<1>6. ASSUME NEW c \in Client, NEW k \in UserKey, Delete(c, k)
      PROVE  ValueIn(store', j) = acked'[j] /\ ValueIn(disk', j) = acked'[j]
  <2> DEFINE s == Without(k)
  <2>1. j # k /\ acked'[j] = acked[j] /\ volatile' = volatile
    BY <1>6 DEF Delete, Acked, TypeOK
  <2>2. s[j] = store[j]
    BY <2>1 DEF Without, TypeOK, IsTable
  <2>3. Commit(s) \/ Fail(s)
    BY <1>6 DEF Delete
  <2> HIDE DEF s
  <2> QED BY <1>0, <2>1, <2>2, <2>3, OtherKeyKept
<1>7. ASSUME NEW c \in Client, NEW k \in UserKey, NEW old \in Value \cup {Nil},
             NEW new \in Value, Cas(c, k, old, new)
      PROVE  ValueIn(store', j) = acked'[j] /\ ValueIn(disk', j) = acked'[j]
  <2> DEFINE row == [value |-> new,
                     expires |-> IF store[k] = NoRow THEN NoTtl ELSE store[k].expires]
             s == NewRow(k, row)
  <2>1. \/ UNCHANGED <<store, disk, acked>>
        \/ Commit(s) /\ Acked(k, new)
        \/ Fail(s) /\ Acked(k, Nil)
    BY <1>7 DEF Cas
  <2>2. CASE UNCHANGED <<store, disk, acked>>
    BY <1>0, <1>7, <2>2 DEF Cas, ValueIn
  <2>3. CASE ~ UNCHANGED <<store, disk, acked>> /\ j = k
    <3>1. Commit(s) /\ acked'[j] = new
      BY <2>1, <2>3 DEF Acked, TypeOK
    <3>2. s[j] = row /\ row \in UserRow
      BY <2>3 DEF NewRow, TypeOK, IsTable, UserRow
    <3>3. row # NoRow
      BY <3>2 DEF Row
    <3>4. ValueIn(store', j) = row.value /\ ValueIn(disk', j) = row.value
      <4> HIDE DEF row
      <4> QED BY <3>1, <3>2, <3>3 DEF Commit, ValueIn
    <3> QED BY <3>1, <3>4
  <2>4. CASE ~ UNCHANGED <<store, disk, acked>> /\ j # k
    <3>1. s[j] = store[j] /\ acked'[j] = acked[j] /\ volatile' = volatile
      BY <1>7, <2>1, <2>4 DEF Cas, Acked, NewRow, TypeOK, IsTable
    <3>2. Commit(s) \/ Fail(s)
      BY <2>1, <2>4
    <3> HIDE DEF s
    <3> QED BY <1>0, <3>1, <3>2, OtherKeyKept
  <2> QED BY <2>2, <2>3, <2>4
<1>8. ASSUME NEW c \in Client, NEW t \in SeqKey, NextId(c, t)
      PROVE  ValueIn(store', j) = acked'[j] /\ ValueIn(disk', j) = acked'[j]
  <2> DEFINE n == IF store[t] = NoRow THEN 1 ELSE store[t].value + 1
             row == [value |-> n,
                     expires |-> IF store[t] = NoRow THEN NoTtl ELSE store[t].expires]
             s == NewRow(t, row)
  <2>1. Commit(s) \/ Fail(s)
    BY <1>8 DEF NextId
  <2>2. s[j] = store[j]
    BY DEF NewRow, TypeOK, IsTable
  <2>3. acked' = acked /\ volatile' = volatile
    BY <1>8 DEF NextId
  <2> HIDE DEF s, row, n
  <2> QED BY <1>0, <2>1, <2>2, <2>3, OtherKeyKept
<1>9. CASE ExpireOld
  <2>1. acked' = acked /\ volatile' = volatile /\ (Commit(Swept) \/ Fail(Swept))
    BY <1>9 DEF ExpireOld
  <2>2. Swept[j] = store[j]
    BY <2>1 DEF Swept, Expired, ExpiringIsVolatile
  <2> QED BY <1>0, <2>1, <2>2, OtherKeyKept
<1>10. CASE Tick
  BY <1>0, <1>10 DEF Tick, ValueIn
<1>11. CASE Crash
  BY <1>0, <1>11 DEF Crash, ValueIn
<1>12. CASE UNCHANGED vars
  BY <1>0, <1>12 DEF vars, ValueIn
<1> QED BY <1>1, <1>2, <1>3, <1>4, <1>5, <1>6, <1>7, <1>8, <1>9, <1>10, <1>11, <1>12 DEF Next

\* A write acknowledged to a key that never had a time to live is what every
\* reader sees and every crash leaves, until the next write of that key: lazy
\* deletes, sweeps and failed commits of others do not touch it.
THEOREM AckedWritesAreDurable == Spec => []AckedIsDurable
<1>1. Init => ExpiringIsVolatile /\ AckedIsDurable
  BY KeyFacts DEF Init, ExpiringIsVolatile, AckedIsDurable
<1> QED BY <1>1, InitTyped, NextTyped, NextExpiring, NextAcked, PTL DEF Spec

-----------------------------------------------------------------------------
(* Ids *)

\* A step that issues nothing and writes no counter keeps the counters covering
\* the ids: what it commits, fails to commit or rolls back is a table whose
\* counters are those of the table or of the disk.
LEMMA CountersKept ==
    ASSUME CounterCovers, IdsDistinct, issued' = issued,
           \A t \in SeqKey : /\ store'[t] \in {store[t], disk[t]}
                            /\ disk'[t] \in {store[t], disk[t]}
    PROVE  CounterCovers' /\ IdsDistinct'
BY DEF CounterCovers, IdsDistinct

LEMMA UserWriteKeepsCounters ==
    ASSUME CounterCovers, IdsDistinct, issued' = issued, NEW s,
           \A t \in SeqKey : s[t] = store[t], Commit(s) \/ Fail(s)
    PROVE  CounterCovers' /\ IdsDistinct'
BY CountersKept DEF Commit, Fail

LEMMA NextIds ==
    TypeOK /\ PutsAreTyped /\ ExpiringIsVolatile /\ CounterCovers /\ IdsDistinct /\ [Next]_vars
        => CounterCovers' /\ IdsDistinct'
<1> SUFFICES ASSUME TypeOK, PutsAreTyped, ExpiringIsVolatile, CounterCovers, IdsDistinct,
                    [Next]_vars
             PROVE  CounterCovers' /\ IdsDistinct'
  OBVIOUS
<1> USE StoreConstants, KeyFacts
<1>1. ASSUME NEW c \in Client, NEW k \in UserKey, NEW v \in Value, NEW ttl \in Ttl,
             PutBegin(c, k, v, ttl)
      PROVE  CounterCovers' /\ IdsDistinct'
  BY <1>1, CountersKept DEF PutBegin
<1>2. ASSUME NEW c \in Client, PutCommit(c) PROVE CounterCovers' /\ IdsDistinct'
  <2>1. call[c].key \in UserKey
    BY <1>2 DEF PutCommit, PutsAreTyped
  <2>2. \A t \in SeqKey : NewRow(call[c].key, call[c].row)[t] = store[t]
    BY <2>1 DEF NewRow, TypeOK, IsTable
  <2> QED BY <1>2, <2>2, UserWriteKeepsCounters DEF PutCommit
<1>3. ASSUME NEW c \in Client, NEW k \in Key, GetSelect(c, k)
      PROVE  CounterCovers' /\ IdsDistinct'
  BY <1>3, CountersKept DEF GetSelect
<1>4. ASSUME NEW c \in Client, GetCheck(c) PROVE CounterCovers' /\ IdsDistinct'
  BY <1>4, CountersKept DEF GetCheck
<1>5. ASSUME NEW c \in Client, GetPurge(c)
      PROVE  CounterCovers' /\ IdsDistinct'
  <2>1. call[c].key \in UserKey
    BY <1>5 DEF GetPurge, ExpiringIsVolatile, TypeOK
  <2>2. \A t \in SeqKey : Without(call[c].key)[t] = store[t]
    BY <2>1 DEF Without, TypeOK, IsTable
  <2> QED BY <1>5, <2>2, UserWriteKeepsCounters DEF GetPurge
<1>6. ASSUME NEW c \in Client, NEW k \in UserKey, Delete(c, k)
      PROVE  CounterCovers' /\ IdsDistinct'
  <2>1. \A t \in SeqKey : Without(k)[t] = store[t]
    BY DEF Without, TypeOK, IsTable
  <2> QED BY <1>6, <2>1, UserWriteKeepsCounters DEF Delete
<1>7. ASSUME NEW c \in Client, NEW k \in UserKey, NEW old \in Value \cup {Nil},
             NEW new \in Value, Cas(c, k, old, new)
      PROVE  CounterCovers' /\ IdsDistinct'
  <2> DEFINE row == [value |-> new,
                     expires |-> IF store[k] = NoRow THEN NoTtl ELSE store[k].expires]
             s == NewRow(k, row)
  <2>1. \A t \in SeqKey : s[t] = store[t]
    BY DEF NewRow, TypeOK, IsTable
  <2>2. UNCHANGED <<store, disk>> \/ Commit(s) \/ Fail(s)
    BY <1>7 DEF Cas
  <2>3. issued' = issued
    BY <1>7 DEF Cas
  <2> HIDE DEF s
  <2> QED BY <2>1, <2>2, <2>3, UserWriteKeepsCounters, CountersKept
<1>8. ASSUME NEW c \in Client, NEW t \in SeqKey, NextId(c, t)
      PROVE  CounterCovers' /\ IdsDistinct'
  <2> DEFINE n == IF store[t] = NoRow THEN 1 ELSE store[t].value + 1
             row == [value |-> n,
                     expires |-> IF store[t] = NoRow THEN NoTtl ELSE store[t].expires]
             s == NewRow(t, row)
  <2>1. /\ n \in Nat /\ row # NoRow
        /\ store[t] # NoRow => store[t].value \in Nat /\ n > store[t].value
    BY DEF TypeOK, IsTable, SeqRow, Row
  <2>2. s[t].value = n /\ s[t] # NoRow /\ \A u \in SeqKey \ {t} : s[u] = store[u]
    BY <2>1 DEF NewRow, TypeOK, IsTable
  <2>3. \A i \in DOMAIN issued[t] : issued[t][i] \in Nat /\ issued[t][i] < n
    BY <2>1 DEF CounterCovers, TypeOK
  <2>4. CASE Commit(s) /\ issued' = [issued EXCEPT ![t] = Append(@, n)]
    <3>1. \A u \in SeqKey \ {t} : issued'[u] = issued[u]
      BY <2>4 DEF TypeOK
    <3>2. issued'[t] = Append(issued[t], n) /\ issued[t] \in Seq(Nat)
      BY <2>4 DEF TypeOK
    <3>3. /\ DOMAIN issued'[t] = 1 .. (Len(issued[t]) + 1)
          /\ issued'[t][Len(issued[t]) + 1] = n
          /\ \A i \in DOMAIN issued[t] : issued'[t][i] = issued[t][i]
          /\ DOMAIN issued[t] = 1 .. Len(issued[t])
      BY <3>2, <2>1
    <3>4. \A i \in DOMAIN issued'[t] : issued'[t][i] <= n
      BY <3>3, <2>3, <2>1
    <3>5. \A i, j \in DOMAIN issued'[t] : i < j => issued'[t][i] < issued'[t][j]
      BY <3>3, <2>3 DEF IdsDistinct
    <3>6. CounterCovers'
      <4> SUFFICES ASSUME NEW u \in SeqKey, NEW i \in DOMAIN issued'[u]
                   PROVE  /\ store'[u] # NoRow /\ issued'[u][i] <= store'[u].value
                          /\ disk'[u] # NoRow /\ issued'[u][i] <= disk'[u].value
        BY DEF CounterCovers
      <4>1. CASE u = t
        BY <4>1, <2>4, <2>2, <3>4 DEF Commit
      <4>2. CASE u # t
        BY <4>2, <2>4, <2>2, <3>1 DEF Commit, CounterCovers
      <4> QED BY <4>1, <4>2
    <3>7. IdsDistinct'
      BY <3>1, <3>5 DEF IdsDistinct
    <3> QED BY <3>6, <3>7
  <2>5. CASE Fail(s) /\ issued' = issued
    <3>1. \A u \in SeqKey : \A i \in DOMAIN issued[u] :
             /\ s[u] # NoRow /\ issued[u][i] <= s[u].value
             /\ store[u] # NoRow /\ issued[u][i] <= store[u].value
             /\ disk[u] # NoRow /\ issued[u][i] <= disk[u].value
      <4> TAKE u \in SeqKey
      <4> TAKE i \in DOMAIN issued[u]
      <4>1. CASE u = t
        BY <4>1, <2>2, <2>3, <2>1 DEF CounterCovers
      <4>2. CASE u # t
        BY <4>2, <2>2 DEF CounterCovers
      <4> QED BY <4>1, <4>2
    <3> QED BY <2>5, <3>1 DEF Fail, CounterCovers, IdsDistinct
  <2> QED BY <1>8, <2>4, <2>5 DEF NextId
<1>9. CASE ExpireOld
  <2>1. \A t \in SeqKey : Swept[t] = store[t]
    BY DEF Swept, Expired, TypeOK, IsTable, SeqRow
  <2> QED BY <1>9, <2>1, UserWriteKeepsCounters DEF ExpireOld
<1>10. CASE Tick
  BY <1>10, CountersKept DEF Tick
<1>11. CASE Crash
  BY <1>11, CountersKept DEF Crash
<1>12. CASE UNCHANGED vars
  BY <1>12, CountersKept DEF vars
<1> QED BY <1>1, <1>2, <1>3, <1>4, <1>5, <1>6, <1>7, <1>8, <1>9, <1>10, <1>11, <1>12 DEF Next

\* No id is handed out twice, whatever commits fail and wherever crashes fall.
THEOREM IdsAreDistinct == Spec => []IdsDistinct
<1>1. Init => IndInv
  BY InitTyped, KeyFacts
     DEF Init, IndInv, ExpiringIsVolatile, AckedIsDurable, CounterCovers, IdsDistinct
<1>2. IndInv /\ [Next]_vars => IndInv'
  BY NextTyped, NextExpiring, NextAcked, NextIds DEF IndInv
<1>3. IndInv => IdsDistinct
  BY DEF IndInv
<1> QED BY <1>1, <1>2, <1>3, PTL DEF Spec

-----------------------------------------------------------------------------
(* LocalStore implements the map of KVMap *)

\* The map that a table stands for, and the read that a call stands for.
Map(s) == [k \in Key |-> ValueIn(s, k)]

ViewOf(k) == IF k # Idle /\ k.op \in {"got", "purge"}
             THEN [key |-> k.key, value |-> k.row.value] ELSE Idle

View == [c \in Client |-> ViewOf(call[c])]

LEMMA MapOfWrite ==
    ASSUME IsTable(store), NEW k \in Key, NEW row \in Row
    PROVE  Map(NewRow(k, row)) = [Map(store) EXCEPT ![k] = row.value]
BY StoreConstants DEF IsTable, Map, NewRow, ValueIn

LEMMA MapOfDelete ==
    ASSUME IsTable(store), NEW k \in Key
    PROVE  Map(Without(k)) = [j \in Key |-> IF j \in {k} THEN Nil ELSE Map(store)[j]]
BY DEF IsTable, Map, Without, ValueIn

\* A row has a value: the map holds Nil where the table has no row, and only there.
LEMMA NilIsNoRow ==
    ASSUME IsTable(store), NEW k \in Key
    PROVE  Map(store)[k] = ValueIn(store, k) /\ (ValueIn(store, k) = Nil <=> store[k] = NoRow)
BY StoreConstants DEF IsTable, Map, ValueIn, Row, UserRow, SeqRow

LEMMA CommitSettles ==
    ASSUME NEW s, Commit(s)
    PROVE  KV!Settle(Map(s))
BY DEF Commit, KV!Settle, Map, ValueIn

LEMMA FailSpoils ==
    ASSUME NEW s, Fail(s)
    PROVE  KV!Spoil(Map(s))
BY DEF Fail, KV!Spoil, Map, ValueIn

LEMMA SameView ==
    ASSUME \A c \in Client : ViewOf(call'[c]) = ViewOf(call[c])
    PROVE  View' = View
BY DEF View, ViewOf

LEMMA InitMap == Init => KV!Init
BY DEF Init, KV!Init, KV!Key, Key, ValueIn


\* What happens outside the store, or changes no map and no read, is a stutter.
LEMMA SameMap ==
    ASSUME UNCHANGED <<store, disk>>
    PROVE  Map(store)' = Map(store) /\ Map(disk)' = Map(disk)
BY DEF Map, ValueIn

\* A step that changes no map, no read and no answer is a stutter of KVMap.
LEMMA Stutter ==
    ASSUME View' = View, UNCHANGED <<store, disk, volatile, answer>>
    PROVE  UNCHANGED KV!kvVars
BY DEF KV!kvVars, Map, View, ViewOf, ValueIn

LEMMA PutBeginMaps ==
    ASSUME TypeOK, NEW c \in Client, NEW k \in UserKey, NEW v \in Value, NEW ttl \in Ttl,
           PutBegin(c, k, v, ttl)
    PROVE  [KV!Next]_(KV!kvVars)
<1>1. \A d \in Client : ViewOf(call'[d]) = ViewOf(call[d])
  BY DEF PutBegin, TypeOK, ViewOf
<1>2. View' = View /\ Map(store)' = Map(store) /\ Map(disk)' = Map(disk) /\ answer' = answer
  BY <1>1, SameView, SameMap DEF PutBegin
<1>3. CASE volatile' = volatile
  BY <1>2, <1>3, Stutter DEF PutBegin
<1>4. CASE volatile' # volatile
  <2>1. k \notin volatile /\ volatile' = volatile \cup {k}
    BY <1>4 DEF PutBegin
  <2>2. KV!MakeVolatile(k)
    BY <1>2, <2>1 DEF KV!MakeVolatile, Map, View, ViewOf
  <2> QED BY <2>2 DEF KV!Next
<1> QED BY <1>3, <1>4

LEMMA PutCommitMaps ==
    ASSUME TypeOK, PutsAreTyped, NEW c \in Client, PutCommit(c)
    PROVE  [KV!Next]_(KV!kvVars)
<1> DEFINE k == call[c].key
           s == NewRow(k, call[c].row)
<1>1. k \in UserKey /\ call[c].row \in UserRow /\ call[c].row.value \in Value
  BY DEF PutCommit, PutsAreTyped, UserRow
<1>2. Map(s) = KV!With(k, call[c].row.value)
  BY <1>1, MapOfWrite, KeyFacts DEF TypeOK, Row, KV!With, Map
<1>3. \A d \in Client : ViewOf(call'[d]) = ViewOf(call[d])
  BY DEF PutCommit, TypeOK, ViewOf
<1>4. View' = View /\ View[c] = Idle
  BY <1>3, SameView DEF View, ViewOf, PutCommit
<1>5. \/ Commit(s) /\ Reply(Yes)
      \/ Fail(s) /\ Reply(No)
  BY DEF PutCommit
<1>6. \/ KV!Settle(Map(s)) /\ KV!Reply(Yes)
      \/ KV!Spoil(Map(s)) /\ KV!Reply(No)
  BY <1>5, CommitSettles, FailSpoils DEF Reply, KV!Reply
<1>7. KV!Put(c, k, call[c].row.value)
  <2> HIDE DEF s, k
  <2> QED BY <1>2, <1>4, <1>6 DEF KV!Put, View, ViewOf, PutCommit
<1> QED BY <1>1, <1>7 DEF KV!Next

LEMMA GetSelectMaps ==
    ASSUME TypeOK, NEW c \in Client, NEW k \in Key, GetSelect(c, k)
    PROVE  [KV!Next]_(KV!kvVars)
<1>1. View[c] = Idle
  BY DEF View, ViewOf, GetSelect
<1>2. CASE store[k] = NoRow
  <2>1. View' = View /\ Reply(Nil) /\ UNCHANGED <<store, disk, volatile>>
    BY <1>2, SameView DEF GetSelect
  <2>2. Map(store)[k] = Nil
    BY <1>2, NilIsNoRow DEF TypeOK
  <2>3. KV!ReadAbsent(c, k)
    BY <1>1, <2>1, <2>2 DEF KV!ReadAbsent, KV!Reply, Reply, Map, ValueIn, View, ViewOf
  <2> QED BY <2>3 DEF KV!Next, KV!Key, Key
<1>3. CASE store[k] # NoRow
  <2> DEFINE r == [op |-> "got", key |-> k, row |-> store[k]]
  <2>1. call' = [call EXCEPT ![c] = r] /\ UNCHANGED <<store, disk, volatile, answer>>
    BY <1>3 DEF GetSelect
  <2>2. r \in Call
    BY <1>3 DEF TypeOK, IsTable, Call
  <2>3. r # Idle
    BY <2>2, StoreConstants
  <2>4. Map(store)[k] # Nil /\ Map(store)[k] = store[k].value
    BY <1>3, NilIsNoRow DEF TypeOK, ValueIn
  <2>5. ViewOf(r) = [key |-> k, value |-> Map(store)[k]]
    BY <2>3, <2>4 DEF ViewOf
  <2> HIDE DEF r
  <2>6. View' = [View EXCEPT ![c] = [key |-> k, value |-> Map(store)[k]]]
    BY <2>1, <2>5 DEF View, TypeOK
  <2>7. KV!ReadBegin(c, k)
    BY <1>1, <2>1, <2>4, <2>6 DEF KV!ReadBegin, Map, ValueIn, View, ViewOf
  <2> QED BY <2>7 DEF KV!Next, KV!Key, Key
<1> QED BY <1>2, <1>3

\* A call of get past its first step is a read in progress.
LEMMA GetIsRead ==
    ASSUME TypeOK, NEW c \in Client, call[c] # Idle, call[c].op \in {"got", "purge"}
    PROVE  /\ View[c] = [key |-> call[c].key, value |-> call[c].row.value]
           /\ View[c] # Idle
<1>1. call[c] \in Call
  BY DEF TypeOK
<1>2. call[c].key \in Key /\ call[c].row.value \in Value \cup Nat
  BY <1>1 DEF Call, Row, UserRow, SeqRow
<1>3. View[c] = [key |-> call[c].key, value |-> call[c].row.value]
  BY DEF View, ViewOf
<1> QED BY <1>2, <1>3, IdleIsNoView

\* The read ends when its call does.
LEMMA GetEnds ==
    ASSUME TypeOK, NEW c \in Client, call' = [call EXCEPT ![c] = Idle]
    PROVE  View' = [View EXCEPT ![c] = Idle]
BY DEF TypeOK, View, ViewOf

LEMMA GetCheckMaps ==
    ASSUME TypeOK, NEW c \in Client, GetCheck(c)
    PROVE  [KV!Next]_(KV!kvVars)
<1>1. call[c] \in Call /\ call[c] # Idle /\ call[c].op = "got"
  BY DEF GetCheck, TypeOK
<1>2. CASE call' = [call EXCEPT ![c].op = "purge"] /\ UNCHANGED answer
  <2> DEFINE r == [call[c] EXCEPT !.op = "purge"]
  <2>1. r \in Call /\ r.key = call[c].key /\ r.row = call[c].row /\ r.op = "purge"
    BY <1>1 DEF Call
  <2>2. r # Idle
    BY <2>1, StoreConstants
  <2>3. call' = [call EXCEPT ![c] = r]
    BY <1>2
  <2> HIDE DEF r
  <2>4. ViewOf(r) = ViewOf(call[c])
    BY <1>1, <2>1, <2>2 DEF ViewOf
  <2>5. \A d \in Client : ViewOf(call'[d]) = ViewOf(call[d])
    BY <2>3, <2>4 DEF TypeOK
  <2> QED BY <1>2, <2>5, SameView, Stutter DEF GetCheck
<1>3. CASE call' = [call EXCEPT ![c] = Idle] /\ Reply(call[c].row.value)
  <2>1. View' = [View EXCEPT ![c] = Idle]
    BY <1>3, GetEnds
  <2>2. View[c] # Idle /\ View[c].value = call[c].row.value
    <3>1. call[c].op \in {"got", "purge"}
      BY <1>1
    <3>2. /\ View[c] = [key |-> call[c].key, value |-> call[c].row.value]
          /\ View[c] # Idle
      BY ONLY TypeOK, <1>1, <3>1, GetIsRead
    <3> QED BY <3>2
  <2>3. KV!ReadEnd(c)
    BY <1>3, <2>1, <2>2 DEF GetCheck, KV!ReadEnd, KV!Reply, Reply, Map, ValueIn, View, ViewOf
  <2> QED BY <2>3 DEF KV!Next
<1> QED BY <1>2, <1>3 DEF GetCheck

\* Only a row that expires is purged, and it sits under a volatile key.
LEMMA GetPurgeMaps ==
    ASSUME TypeOK, ExpiringIsVolatile, NEW c \in Client, GetPurge(c)
    PROVE  [KV!Next]_(KV!kvVars)
<1> DEFINE s == Without(call[c].key)
<1>1. call[c] \in Call /\ call[c] # Idle /\ call[c].op = "purge"
  BY DEF GetPurge, TypeOK
<1>2. call[c].key \in Key /\ call[c].key \in volatile
  BY <1>1 DEF Call, ExpiringIsVolatile
<1>3. View[c] # Idle /\ View[c].key = call[c].key
  <2>1. call[c].op \in {"got", "purge"}
    BY <1>1
  <2>2. /\ View[c] = [key |-> call[c].key, value |-> call[c].row.value]
        /\ View[c] # Idle
    BY ONLY TypeOK, <1>1, <2>1, GetIsRead
  <2> QED BY <2>2
<1>4. Map(s) = KV!Without({View[c].key})
  BY <1>2, <1>3, MapOfDelete DEF TypeOK, KV!Without, KV!Key, Key, Map
<1>5. View' = [View EXCEPT ![c] = Idle]
  BY GetEnds DEF GetPurge
<1>6. \/ Commit(s) /\ Reply(Nil)
      \/ Fail(s) /\ Reply(Raised)
  BY DEF GetPurge
<1>7. \/ KV!Settle(Map(s)) /\ KV!Reply(Nil)
      \/ KV!Spoil(Map(s)) /\ KV!Reply(Raised)
  BY <1>6, CommitSettles, FailSpoils DEF Reply, KV!Reply
<1>8. KV!ReadLost(c)
  <2> HIDE DEF s
  <2> QED BY <1>2, <1>3, <1>4, <1>5, <1>7 DEF KV!ReadLost, View, ViewOf, GetPurge
<1> QED BY <1>8 DEF KV!Next

LEMMA DeleteMaps ==
    ASSUME TypeOK, NEW c \in Client, NEW k \in UserKey, Delete(c, k)
    PROVE  [KV!Next]_(KV!kvVars)
<1> DEFINE s == Without(k)
<1>1. View' = View /\ View[c] = Idle
  BY DEF Delete, View, ViewOf
<1>2. Map(s) = KV!Without({k})
  BY MapOfDelete, KeyFacts DEF TypeOK, KV!Without, KV!Key, Key, Map
<1>3. \/ Commit(s) /\ Reply(Yes)
      \/ Fail(s) /\ Reply(Raised)
  BY DEF Delete
<1>4. \/ KV!Settle(Map(s)) /\ KV!Reply(Yes)
      \/ KV!Spoil(Map(s)) /\ KV!Reply(Raised)
  BY <1>3, CommitSettles, FailSpoils DEF Reply, KV!Reply
<1>5. KV!Delete(c, k)
  <2> HIDE DEF s
  <2> QED BY <1>1, <1>2, <1>4 DEF KV!Delete, View, ViewOf, Delete
<1> QED BY <1>5 DEF KV!Next

LEMMA CasMaps ==
    ASSUME TypeOK, NEW c \in Client, NEW k \in UserKey, NEW old \in Value \cup {Nil},
           NEW new \in Value, Cas(c, k, old, new)
    PROVE  [KV!Next]_(KV!kvVars)
<1> DEFINE row == [value |-> new,
                   expires |-> IF store[k] = NoRow THEN NoTtl ELSE store[k].expires]
           s == NewRow(k, row)
<1>1. View' = View /\ View[c] = Idle
  BY DEF Cas, View, ViewOf
<1>2. row \in Row /\ row.value = new
  BY KeyFacts DEF TypeOK, IsTable, Row, UserRow
<1>3. \/ CasReply(old, No) /\ ValueIn(store, k) # old /\ UNCHANGED <<store, disk>>
      \/ CasReply(old, Yes) /\ ValueIn(store, k) = old /\ Commit(s)
      \/ CasReply(old, Raised) /\ ValueIn(store, k) = old /\ Fail(s)
  BY DEF Cas
<1> HIDE DEF row
<1>4. Map(s) = KV!With(k, new)
  BY <1>2, MapOfWrite, KeyFacts DEF TypeOK, KV!With, Map
<1>5. Map(store)[k] = ValueIn(store, k)
  BY NilIsNoRow, KeyFacts DEF TypeOK
<1> HIDE DEF s
<1>6. \/ KV!CasReply(old, No) /\ Map(store)[k] # old /\ UNCHANGED <<store, disk>>
      \/ KV!CasReply(old, Yes) /\ Map(store)[k] = old /\ KV!Settle(Map(s))
      \/ KV!CasReply(old, Raised) /\ Map(store)[k] = old /\ KV!Spoil(Map(s))
  BY <1>3, <1>5, CommitSettles, FailSpoils DEF CasReply, KV!CasReply
<1>7. UNCHANGED <<store, disk>> => UNCHANGED <<Map(store), Map(disk)>>
  BY SameMap
<1>8. UNCHANGED volatile
  BY DEF Cas
<1>9. KV!Cas(c, k, old, new)
  BY ONLY <1>1, <1>4, <1>6, <1>7, <1>8 DEF KV!Cas, Map, View, ViewOf
<1> QED BY <1>9 DEF KV!Next

LEMMA NextIdMaps ==
    ASSUME TypeOK, NEW c \in Client, NEW t \in SeqKey, NextId(c, t)
    PROVE  [KV!Next]_(KV!kvVars)
<1> DEFINE n == IF store[t] = NoRow THEN 1 ELSE store[t].value + 1
           row == [value |-> n,
                   expires |-> IF store[t] = NoRow THEN NoTtl ELSE store[t].expires]
           s == NewRow(t, row)
<1>1. View' = View /\ View[c] = Idle
  BY DEF NextId, View, ViewOf
<1>2. row \in Row /\ row.value = n
  BY KeyFacts DEF TypeOK, IsTable, Row, SeqRow
<1>3. \/ Commit(s) /\ Reply(n)
      \/ Fail(s) /\ Reply(Raised)
  BY DEF NextId
<1>4. n = IF Map(store)[t] = Nil THEN 1 ELSE Map(store)[t] + 1
  BY NilIsNoRow, KeyFacts DEF TypeOK, ValueIn
<1> HIDE DEF row, n
<1>5. Map(s) = KV!With(t, n)
  BY <1>2, MapOfWrite, KeyFacts DEF TypeOK, KV!With, Map
<1> HIDE DEF s
<1>6. \/ KV!Reply(n) /\ KV!Settle(Map(s))
      \/ KV!Reply(Raised) /\ KV!Spoil(Map(s))
  BY <1>3, CommitSettles, FailSpoils DEF Reply, KV!Reply
<1>7. KV!NextId(c, t)
  BY <1>1, <1>4, <1>5, <1>6 DEF KV!NextId, Map, View, ViewOf, NextId
<1> QED BY <1>7 DEF KV!Next

\* What a sweep takes is under volatile keys.
LEMMA ExpireOldMaps ==
    ASSUME TypeOK, ExpiringIsVolatile, ExpireOld
    PROVE  [KV!Next]_(KV!kvVars)
<1> DEFINE S == {k \in UserKey : store[k] # NoRow /\ Expired(store[k])}
<1>1. S \subseteq volatile
  BY DEF Expired, ExpiringIsVolatile
<1>2. \A k \in SeqKey : ~ (store[k] # NoRow /\ Expired(store[k]))
  BY DEF TypeOK, IsTable, SeqRow, Expired
<1>3. Map(Swept) = KV!Without(S)
  BY <1>2 DEF Swept, KV!Without, KV!Key, Key, Map, ValueIn
<1>4. S \in SUBSET UserKey
  OBVIOUS
<1>5. KV!Settle(Map(Swept)) \/ KV!Spoil(Map(Swept))
  BY CommitSettles, FailSpoils DEF ExpireOld
<1>6. View' = View
  BY DEF ExpireOld, View, ViewOf
<1> HIDE DEF S
<1>7. KV!Forget(S)
  BY <1>1, <1>3, <1>5, <1>6 DEF KV!Forget, View, ViewOf, ExpireOld
<1> QED BY <1>4, <1>7 DEF KV!Next

LEMMA CrashMaps ==
    ASSUME Crash
    PROVE  [KV!Next]_(KV!kvVars)
<1>1. KV!Crash
  BY DEF Crash, KV!Crash, ValueIn
<1> QED BY <1>1 DEF KV!Next

LEMMA TickMaps ==
    ASSUME Tick \/ UNCHANGED vars
    PROVE  [KV!Next]_(KV!kvVars)
BY SameView, Stutter DEF Tick, vars

LEMMA NextMaps ==
    TypeOK /\ PutsAreTyped /\ ExpiringIsVolatile /\ [Next]_vars => [KV!Next]_(KV!kvVars)
<1> SUFFICES ASSUME TypeOK, PutsAreTyped, ExpiringIsVolatile, [Next]_vars
             PROVE  [KV!Next]_(KV!kvVars)
  OBVIOUS
<1> QED BY PutBeginMaps, PutCommitMaps, GetSelectMaps, GetCheckMaps, GetPurgeMaps,
           DeleteMaps, CasMaps, NextIdMaps, ExpireOldMaps, TickMaps, CrashMaps DEF Next

\* Whatever steps the calls of LocalStore take, their callers see the map of
\* KVMap: writes in one step, completed writes durable, and nothing but a key
\* with a time to live forgotten behind their backs (db.py:89-218).
THEOREM ImplementsTheMap == Spec => ImplementsMap
<1>1. Init => ExpiringIsVolatile
  BY KeyFacts DEF Init, ExpiringIsVolatile
<1> QED BY <1>1, InitTyped, NextTyped, NextExpiring, InitMap, NextMaps, PTL
        DEF Spec, ImplementsMap, KV!Spec
=============================================================================
