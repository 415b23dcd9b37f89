------------------------------- MODULE TableORM -------------------------------
(***************************************************************************)
(* The ORM-style helper of pneuma_db/db.py (class Table) on a node in      *)
(* LOCAL mode, called from the REST handlers' thread pool.  A record is a  *)
(* row "<table>:<id>"; the row "_ids:<table>" lists the ids.  Every call   *)
(* of the store is a step, as LocalStore justifies, and no method of Table *)
(* holds anything between two of them, so another call, a failing          *)
(* statement or a crash may come between a record's row and its place in   *)
(* the list.                                                               *)
(*                                                                         *)
(* As in LocalStore, store is what the shared connection sees and disk     *)
(* what a crash leaves.                                                    *)
(***************************************************************************)
EXTENDS Integers, Sequences, SequencesExt

CONSTANTS
    Thread,     \* request threads
    Id,         \* record ids: given by the caller, or fresh from uuid4
    Field,      \* the fields of a record
    Value,      \* what a field holds
    NoRec,      \* no row for the record
    Idle,       \* no call in progress
    Expiring,   \* history: stored with a time to live, and gone some day
    Doubtful,   \* history: nobody can say
    MaxFaults   \* bound: failing statements and crashes

Record == [Field -> Value]

\* The record rows, the row _ids:<table> (absent reads as the empty list), and
\* the records whose row carries an expiry.
Tables == [rows : [Id -> Record \cup {NoRec}], ids : Seq(Id), mortal : SUBSET Id]

\* A method between two of its store calls: the step it takes next, and what
\* it has read so far (the id list, or the record it will write back).
Call ==
    [step : {"list"}, op : {"insert", "delete"}, id : Id]
    \cup [step : {"write"}, op : {"insert", "delete"}, id : Id, ids : Seq(Id)]
    \cup [step : {"save"}, id : Id, rec : Record]
    \cup [step : {"purge"}, id : Id]

\* What a caller may expect of a record.
Expectation == Record \cup {NoRec, Expiring, Doubtful}

ASSUME TableConstants ==
    /\ {NoRec, Expiring, Doubtful} \cap Record = {}
    /\ NoRec # Expiring /\ NoRec # Doubtful /\ Expiring # Doubtful
    /\ Idle \notin Call
    /\ MaxFaults \in Nat

VARIABLES
    store,      \* the table as the shared connection sees it
    disk,       \* the table as last committed
    call,       \* per thread
    faults,     \* statements that failed and crashes, so far
    wanted      \* history: the records as the calls made them, Doubtful after a
                \* call that failed, was cut by a crash or overlapped another

vars == <<store, disk, call, faults, wanted>>

TypeOK ==
    /\ store \in Tables
    /\ disk \in Tables
    /\ call \in [Thread -> Call \cup {Idle}]
    /\ faults \in Nat
    /\ wanted \in [Id -> Expectation]

NoTable == [rows |-> [i \in Id |-> NoRec], ids |-> <<>>, mortal |-> {}]

Init ==
    /\ store = NoTable /\ disk = NoTable
    /\ call = [t \in Thread |-> Idle]
    /\ faults = 0
    /\ wanted = [i \in Id |-> NoRec]

-----------------------------------------------------------------------------
(* The store *)

Commit(s) == store' = s /\ disk' = s /\ UNCHANGED faults

\* An SQLite error, as in LocalStore: the statement did not run, or it ran and
\* stays uncommitted, or the open transaction was rolled back.
Fail(s) ==
    /\ faults < MaxFaults /\ faults' = faults + 1
    /\ store' \in {store, s, disk} /\ UNCHANGED disk

\* put: an upsert that sets the row's expiry, or clears it.
WithRow(i, r, ttl) ==
    [store EXCEPT !.rows[i] = r,
                  !.mortal = IF ttl THEN @ \cup {i} ELSE @ \ {i}]

WithoutRow(i) == [store EXCEPT !.rows[i] = NoRec, !.mortal = @ \ {i}]

WithList(ids) == [store EXCEPT !.ids = ids]

-----------------------------------------------------------------------------
(* What the methods share *)

At(t, step) == call[t] # Idle /\ call[t].step = step

\* The methods in progress that write; a reader that purges is none of them.
InCall == {t \in Thread : call[t] # Idle /\ call[t].step # "purge"}

Then(t, c) == call' = [call EXCEPT ![t] = c]

Doubt(S) == wanted' = [i \in Id |-> IF i \in S THEN Doubtful ELSE wanted[i]]

\* No method is in progress, and no reader is about to purge record i.
Alone(i) ==
    \A t \in Thread : call[t] = Idle \/ (call[t].step = "purge" /\ call[t].id # i)

\* A method begins that makes record i what w says; overlapping methods may
\* each write a stale copy, so all of them are in doubt.
Begin(i, w) ==
    IF Alone(i) THEN wanted' = [wanted EXCEPT ![i] = w]
    ELSE Doubt({i} \cup {call[t].id : t \in InCall})

\* Its first statement fails.
BeginFailing(i) == Doubt({i} \cup {call[t].id : t \in InCall})

\* It ends, having done all it does or with a failure.
Finish(t) == Then(t, Idle) /\ UNCHANGED wanted
Abandon(t) == Then(t, Idle) /\ Doubt({call[t].id})

-----------------------------------------------------------------------------
(* insert *)

\* self.db.put(key, data, ttl), whose False is ignored.
InsertPut(t, i, r, ttl) ==
    /\ call[t] = Idle
    /\ \/ Commit(WithRow(i, r, ttl)) /\ Begin(i, IF ttl THEN Expiring ELSE r)
       \/ Fail(WithRow(i, r, ttl)) /\ BeginFailing(i)
    /\ Then(t, [step |-> "list", op |-> "insert", id |-> i])

\* A mutant of InsertList: the id is appended without looking for it first.
InsertListMutant(t) ==
    /\ At(t, "list") /\ call[t].op = "insert"
    /\ Then(t, [step |-> "write", op |-> "insert", id |-> call[t].id, ids |-> store.ids])
    /\ UNCHANGED <<store, disk, faults, wanted>>

InsertList(t) ==
    /\ At(t, "list") /\ call[t].op = "insert"
    /\ IF call[t].id \in ToSet(store.ids)
       THEN Finish(t)
       ELSE /\ Then(t, [step |-> "write", op |-> "insert",
                        id |-> call[t].id, ids |-> store.ids])
            /\ UNCHANGED wanted
    /\ UNCHANGED <<store, disk, faults>>

\* A mutant of InsertWrite: the record is appended instead of its id.
InsertWriteMutant(t) ==
    /\ At(t, "write") /\ call[t].op = "insert"
    /\ Commit(WithList(Append(call[t].ids, store.rows[call[t].id]))) /\ Finish(t)

\* self.db.put of the list, whose False is ignored too.
InsertWrite(t) ==
    /\ At(t, "write") /\ call[t].op = "insert"
    /\ LET ids == Append(call[t].ids, call[t].id)
       IN  \/ Commit(WithList(ids)) /\ Finish(t)
           \/ Fail(WithList(ids)) /\ Abandon(t)

-----------------------------------------------------------------------------
(* delete *)

\* self.db.delete raises when its statement fails, and the list stays as it is.
DeleteRow(t, i) ==
    /\ call[t] = Idle
    /\ \/ /\ Commit(WithoutRow(i)) /\ Begin(i, NoRec)
          /\ Then(t, [step |-> "list", op |-> "delete", id |-> i])
       \/ /\ Fail(WithoutRow(i)) /\ BeginFailing(i)
          /\ UNCHANGED call

DeleteList(t) ==
    /\ At(t, "list") /\ call[t].op = "delete"
    /\ Then(t, [step |-> "write", op |-> "delete", id |-> call[t].id, ids |-> store.ids])
    /\ UNCHANGED <<store, disk, faults, wanted>>

\* [i for i in ids if i != record_id]
Filtered(s, id) ==
    LET kept[k \in 0 .. Len(s)] ==
            IF k = 0 THEN <<>>
            ELSE IF s[k] = id THEN kept[k - 1] ELSE Append(kept[k - 1], s[k])
    IN  kept[Len(s)]

DeleteWrite(t) ==
    /\ At(t, "write") /\ call[t].op = "delete"
    /\ LET ids == Filtered(call[t].ids, call[t].id)
       IN  \/ Commit(WithList(ids)) /\ Finish(t)
           \/ Fail(WithList(ids)) /\ Abandon(t)

\* self.db.get of the list raises, in an insert or in a delete.
ListFails(t) ==
    /\ At(t, "list")
    /\ faults < MaxFaults /\ faults' = faults + 1
    /\ Abandon(t)
    /\ UNCHANGED <<store, disk>>

-----------------------------------------------------------------------------
(* update *)

\* What is left to expect: an update puts nothing right.
Updated(w, f, v) == IF w \in Record THEN [w EXCEPT ![f] = v] ELSE w

\* A mutant of UpdateFind: the given fields replace the record instead of joining it.
UpdateFindMutant(t, i, f, v) ==
    /\ call[t] = Idle
    /\ store.rows[i] # NoRec
    /\ Begin(i, Updated(wanted[i], f, v))
    /\ Then(t, [step |-> "save", id |-> i, rec |-> [g \in Field |-> v]])
    /\ UNCHANGED <<store, disk, faults>>

UpdateFind(t, i, f, v) ==
    /\ call[t] = Idle
    /\ store.rows[i] # NoRec
    /\ Begin(i, Updated(wanted[i], f, v))
    /\ Then(t, [step |-> "save", id |-> i, rec |-> [store.rows[i] EXCEPT ![f] = v]])
    /\ UNCHANGED <<store, disk, faults>>

\* self.db.put(key, record) without a ttl: the record no longer expires, and
\* one deleted in the meantime is back.  What put returns, update returns.
UpdateSave(t) ==
    /\ At(t, "save")
    /\ LET saved == WithRow(call[t].id, call[t].rec, FALSE)
       IN  \/ Commit(saved) /\ Finish(t)
           \/ Fail(saved) /\ Abandon(t)

-----------------------------------------------------------------------------
(* Expiry and crashes *)

\* find, all, where or update read a row that is past its expiry.
FindExpired(t, i) ==
    /\ call[t] = Idle
    /\ i \in store.mortal
    /\ Then(t, [step |-> "purge", id |-> i])
    /\ UNCHANGED <<store, disk, faults, wanted>>

\* ... and delete whatever is under its key by then, as get does.
Purge(t) ==
    /\ At(t, "purge")
    /\ Commit(WithoutRow(call[t].id)) \/ Fail(WithoutRow(call[t].id))
    /\ Finish(t)

Crash ==
    /\ faults < MaxFaults /\ faults' = faults + 1
    /\ store' = disk
    /\ call' = [t \in Thread |-> Idle]
    /\ Doubt({call[t].id : t \in InCall})
    /\ UNCHANGED disk

Next ==
    \/ \E t \in Thread, i \in Id :
          \/ \E r \in Record, ttl \in BOOLEAN : InsertPut(t, i, r, ttl)
          \/ \E f \in Field, v \in Value : UpdateFind(t, i, f, v)
          \/ DeleteRow(t, i)
          \/ FindExpired(t, i)
    \/ \E t \in Thread :
          \/ InsertList(t) \/ InsertWrite(t)
          \/ DeleteList(t) \/ DeleteWrite(t)
          \/ ListFails(t)
          \/ UpdateSave(t)
          \/ Purge(t)
    \/ Crash

Spec == Init /\ [][Next]_vars

-----------------------------------------------------------------------------
(* Properties *)

\* The id list names no record twice, however inserts, deletes, stale copies of
\* the list, failures and crashes interleave (db.py:241-245): count() would
\* count it twice and all() return it twice.
NoDuplicateIds == IsInjective(store.ids)

\* A record is wrong only through its own calls.  Unless one of them failed, was
\* cut by a crash or overlapped another call, and no insert or delete has put it
\* right since, a record without a call in progress is as it was inserted and
\* updated and in the list, or deleted and not in the list, whatever other
\* records' calls wrote from stale copies of the list, failed to commit or had
\* rolled back, and after every crash (db.py:235-280).
SettledRecordsAreKept ==
    \A i \in Id : (\A t \in InCall : call[t].id # i) =>
        /\ wanted[i] \in Record \cup {NoRec} => store.rows[i] = wanted[i]
        /\ wanted[i] \in Record \cup {Expiring} => i \in ToSet(store.ids)
        /\ wanted[i] = NoRec => i \notin ToSet(store.ids)

=============================================================================
