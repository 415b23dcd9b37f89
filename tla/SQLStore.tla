------------------------------- MODULE SQLStore -------------------------------
(***************************************************************************)
(* The SQL engine of pneuma_sql/sql_engine.py over a key-value store whose *)
(* calls are single steps (LocalStore), but next_id, which is two: each    *)
(* connection has a store of its own on the one file, and a lock of its    *)
(* own.  A connection has a cache of schemas and runs one statement at a   *)
(* time.  A table has the column id, its INTEGER PRIMARY KEY, and a text   *)
(* column u.  Between two calls of the store nothing is held, and BEGIN,   *)
(* COMMIT and ROLLBACK do nothing.  A call that fails writes nothing here; *)
(* what its open transaction may still do is in LocalStore.                *)
(*                                                                         *)
(* Rows are "<table>:<id>", index rows "_idx:<table>:u:<value>"; those of  *)
(* CREATE INDEX for an absent value, which nothing looks up, are left out. *)
(* A scan for a table's rows is a LIKE with the table's name in it, and    *)
(* sees the rows of the tables in Alike[table] ("a_b" is also "axb").      *)
(***************************************************************************)
EXTENDS SQLWhere

CONSTANTS
    Conn,           \* connections, each used by one thread
    Table,          \* table names
    Alike,          \* per table, the tables its scans see
    MaxId,          \* ids are 1 .. MaxId
    MaxText,        \* the texts are Text(1) .. Text(MaxText)
    Schemas,        \* the schemas that CREATE TABLE is given
    Given,          \* the ids, or Null, and the texts that INSERTs are given
    Clauses,        \* the WHERE clauses of updates and deletes
    Settings,       \* what updates may set: a column and its value
    MaxStatements,  \* bound on the number of statements
    MaxLiberties,   \* bound on the number of different liberties (below) taken
    NoRow, NoSchema, Idle

Ids == 1 .. MaxId
Texts == {Text(n) : n \in 1 .. MaxText}
Row == [id : {Num(n) : n \in Ids}, u : Texts \cup {Null}]
Schema == [unique : BOOLEAN, indexed : BOOLEAN]

\* The row of an INSERT that has yet to be numbered.
NewRow == [id : {Null}, u : Texts \cup {Null}]

\* A statement between two calls of the store: its next step, its table, and
\* what it has read or been given.
Call ==
    [step : {"create", "alter"}, table : Table, schema : Schema]
    \cup [step : {"number"}, table : Table, schema : Schema, row : NewRow, given : {FALSE}]
    \cup [step : {"count"}, table : Table, schema : Schema, row : NewRow, given : {FALSE},
          last : 0 .. MaxId - 1]
    \cup [step : {"check", "store", "index"}, table : Table, schema : Schema, row : Row, given : BOOLEAN]
    \cup [step : {"update"}, table : Table, where : Clauses, set : Settings]
    \cup [step : {"delete"}, table : Table, where : Clauses]
    \cup [step : {"rows"}, table : Table, todo : SUBSET (Ids \X (Row \cup {NoRow}))]
    \cup [step : {"drop", "unindex", "survey"}, table : Table]
    \cup [step : {"clear"}, table : Table, todo : SUBSET (Table \X Ids)]
    \cup [step : {"forget"}, table : Table, todo : SUBSET (Table \X Texts)]
    \cup [step : {"build"}, table : Table, todo : SUBSET Texts]

ASSUME SQLConstants ==
    /\ MaxId \in Nat /\ MaxText \in Nat /\ MaxStatements \in Nat /\ MaxLiberties \in Nat
    /\ Alike \in [Table -> SUBSET Table]
    /\ \A t \in Table : t \in Alike[t]
    /\ Schemas \subseteq Schema
    /\ Given \subseteq ({Null} \cup {Num(n) : n \in Ids}) \X (Texts \cup {Null})
    /\ \A where \in Clauses : IsClause(where)
    /\ Settings \subseteq [col : {"id"}, val : {Num(n) : n \in Ids}]
                        \cup [col : {"u"}, val : Texts \cup {Null}]
    /\ NoRow \notin Row /\ NoSchema \notin Schema /\ Idle \notin Call

VARIABLES
    schema,     \* the rows _schema:<table>
    rows,       \* the rows <table>:<id>, by table and key
    index,      \* the rows _idx:<table>:u:<value>: which are there
    seq,        \* _seq:<table>
    cache,      \* _schema_cache of each connection
    call,
    left,       \* statements that may still begin
    wanted,     \* history: the tables as SQL says the statements have made them
    gone,       \* history: per table, texts that a row had in u and has no more,
                \* or was to have, since the table was last dropped
    spoilt,     \* history: per table, texts for which UNIQUE may not be kept
    doubtful,   \* history: per table, ids that may not be new when they are drawn
    liberties   \* history: which of the things below have happened

vars == <<schema, rows, index, seq, cache, call, left, wanted, gone, spoilt, doubtful, liberties>>

histories == <<wanted, gone, spoilt, doubtful, liberties>>

\* What a user may do, or suffer, that the engine does not guard against:
Liberties == {
    "overlap",      \* a statement began while another was running
    "crash",        \* a connection's process died in the middle of a statement
    "failure",      \* a call of the store failed
    "stale",        \* a statement worked by a cached schema that is not the stored one
    "alike",        \* a statement changed rows of another table
    "clash",        \* an INSERT of an id that is taken, or an UPDATE that makes a
                    \* value of a unique column double: SQL refuses these
    "setId",        \* an UPDATE set the column id
    "reused",       \* an INSERT gave a unique column a text that an UPDATE or DELETE
                    \* had taken from or given to a row since the table was dropped
    "odd"}          \* a clause was used that is not Plain

\* Did(S) also bounds how many of them a behaviour takes.
Did(S) == /\ liberties' = liberties \cup S
          /\ Cardinality(liberties') <= MaxLiberties

Without(S) == liberties \cap S = {}

Quiet == \A c \in Conn : call[c] = Idle

Init ==
    /\ schema = [t \in Table |-> NoSchema]
    /\ rows = [t \in Table |-> [i \in Ids |-> NoRow]]
    /\ index = [t \in Table |-> {}]
    /\ seq = [t \in Table |-> 0]
    /\ cache = [c \in Conn |-> [t \in Table |-> NoSchema]]
    /\ call = [c \in Conn |-> Idle]
    /\ left = MaxStatements
    /\ wanted = rows
    /\ gone = [t \in Table |-> {}]
    /\ spoilt = [t \in Table |-> {}]
    /\ doubtful = [t \in Table |-> {}]
    /\ liberties = {}

-----------------------------------------------------------------------------
(* Helpers *)

At(c, step) == call[c] # Idle /\ call[c].step = step

Then(c, next) == call' = [call EXCEPT ![c] = next]

Set(f, t, x, y) == [f EXCEPT ![t][x] = y]

Mark(h, t, S) == [h EXCEPT ![t] = @ \cup S]

\* A put may fail, and _put does not look whether it has.
Lost(done) == IF done THEN {} ELSE {"failure"}

\* The text a row has in u, if it is there and has one.
TextOf(row) == IF row = NoRow THEN {} ELSE {row.u} \ {Null}

Held(t) == UNION {TextOf(rows[t][i]) : i \in Ids}

\* The texts of INSERTs into t that have passed their check.
Coming(t) == UNION {TextOf(call[d].row) :
    d \in {d \in Conn : (At(d, "store") \/ At(d, "index")) /\ call[d].table = t}}

\* A row is put, or with NoRow deleted, under the key i of t.
Write(t, i, row) ==
    /\ rows' = Set(rows, t, i, row)
    /\ gone' = Mark(gone, t, TextOf(rows[t][i]) \ TextOf(row))

Overlap == IF Quiet THEN {} ELSE {"overlap"}

\* The schema a statement works by: the connection's own copy, if it has one.
Known(c, t) == IF cache[c][t] # NoSchema THEN cache[c][t] ELSE schema[t]

\* A statement that needs its table begins by looking up the schema; s is what
\* the connection then keeps of it.
Begin(c, t, s, next, lib) ==
    /\ Known(c, t) # NoSchema
    /\ cache' = Set(cache, c, t, s)
    /\ Then(c, next)
    /\ Did(lib \cup Overlap \cup IF Known(c, t) = schema[t] THEN {} ELSE {"stale"})

OddIf(where) == IF Plain(where, {"u"}) THEN {} ELSE {"odd"}

\* The rows a scan for t returns, with their keys.
Scanned(t) == {e \in Table \X Ids : e[1] \in Alike[t] /\ rows[e[1]][e[2]] # NoRow}

AlikeIf(t, S) == IF \A e \in S : e[1] = t THEN {} ELSE {"alike"}

Change(row, set) == [row EXCEPT ![set.col] = set.val]

-----------------------------------------------------------------------------
(* What SQL says *)

RowsOf(T) == {T[i] : i \in Ids} \ {NoRow}

\* The rows S as a table.
Keyed(S) ==
    [i \in Ids |-> IF \E r \in S : r.id = Num(i) THEN CHOOSE r \in S : r.id = Num(i) ELSE NoRow]

\* An INSERT is refused if its id or, in a unique column, its text is another row's.
SQLInsert(T, row, unique) ==
    IF T[row.id.v] = NoRow /\ ~(unique /\ \E r \in RowsOf(T) : TextOf(r) \cap TextOf(row) # {})
    THEN [T EXCEPT ![row.id.v] = row] ELSE T

\* An UPDATE is refused as a whole if it would make an id or such a text double.
After(r, where, set) == IF SQLTrue(r, where) THEN Change(r, set) ELSE r

Doubles(T, where, set, unique) ==
    \E r, s \in RowsOf(T) :
        LET x == After(r, where, set)
            y == After(s, where, set)
        IN  r # s /\ (x.id = y.id \/ (unique /\ TextOf(x) \cap TextOf(y) # {}))

SQLUpdate(T, where, set, unique) ==
    IF Doubles(T, where, set, unique) THEN T
    ELSE Keyed({After(r, where, set) : r \in RowsOf(T)})

SQLDelete(T, where) ==
    [i \in Ids |-> IF T[i] # NoRow /\ SQLTrue(T[i], where) THEN NoRow ELSE T[i]]

-----------------------------------------------------------------------------
(* CREATE TABLE *)

\* The table may exist; with IF NOT EXISTS or without, nothing is then written.
Create(c, t, s) ==
    /\ schema[t] = NoSchema
    /\ Then(c, [step |-> "create", table |-> t, schema |-> s])
    /\ Did(Overlap)
    /\ UNCHANGED <<schema, rows, index, seq, cache, wanted, gone, spoilt, doubtful>>

CreatePut(c, done) ==
    /\ At(c, "create")
    /\ schema' = IF done THEN [schema EXCEPT ![call[c].table] = call[c].schema] ELSE schema
    /\ cache' = Set(cache, c, call[c].table, call[c].schema)
    /\ Then(c, Idle)
    /\ Did(Lost(done))
    /\ UNCHANGED <<rows, index, seq, left, wanted, gone, spoilt, doubtful>>

-----------------------------------------------------------------------------
(* INSERT *)

\* A mutant of Insert: the row is not numbered.
InsertMutant(c, t, id, u) ==
    /\ Begin(c, t, Known(c, t), [step |-> "check", table |-> t, schema |-> Known(c, t),
                                 row |-> [id |-> id, u |-> u], given |-> id # Null], {})
    /\ doubtful' = Mark(doubtful, t, IF id = Null THEN {} ELSE {id.v})
    /\ UNCHANGED <<schema, rows, index, seq, wanted, gone, spoilt>>

\* With no id given the row is numbered first.
Insert(c, t, id, u) ==
    /\ Begin(c, t, Known(c, t), [step |-> IF id = Null THEN "number" ELSE "check", table |-> t,
                    schema |-> Known(c, t), row |-> [id |-> id, u |-> u], given |-> id # Null], {})
    /\ doubtful' = Mark(doubtful, t, IF id = Null THEN {} ELSE {id.v})
    /\ UNCHANGED <<schema, rows, index, seq, wanted, gone, spoilt>>

\* next_id reads the sequence,
ReadSeq(c) ==
    /\ At(c, "number")
    /\ LET read == call[c]
           t == read.table
       IN  /\ seq[t] < MaxId
           /\ Then(c, [step |-> "count", table |-> t, schema |-> read.schema, row |-> read.row,
                       given |-> FALSE, last |-> seq[t]])
    /\ UNCHANGED <<schema, rows, index, seq, cache, left, histories>>

\* A mutant of NextId: ON CONFLICT DO NOTHING.
NextIdMutant(c) ==
    /\ At(c, "count")
    /\ LET t == call[c].table
           n == call[c].last + 1
       IN  /\ seq' = [seq EXCEPT ![t] = IF @ = 0 THEN n ELSE @]
           /\ doubtful' = Mark(doubtful, t, n .. seq[t])
           /\ Then(c, [step |-> "check", table |-> t, schema |-> call[c].schema,
                       row |-> [call[c].row EXCEPT !.id = Num(n)], given |-> FALSE])
    /\ UNCHANGED <<schema, rows, index, cache, left, wanted, gone, spoilt, liberties>>

\* and writes the next number, whatever is there by now.
NextId(c) ==
    /\ At(c, "count")
    /\ LET t == call[c].table
           n == call[c].last + 1
       IN  /\ seq' = [seq EXCEPT ![t] = n]
           /\ doubtful' = Mark(doubtful, t, n .. seq[t])
           /\ Then(c, [step |-> "check", table |-> t, schema |-> call[c].schema,
                       row |-> [call[c].row EXCEPT !.id = Num(n)], given |-> FALSE])
    /\ UNCHANGED <<schema, rows, index, cache, left, wanted, gone, spoilt, liberties>>

Checked(c) == call[c].schema.unique /\ call[c].row.u # Null

\* What SQL makes of the INSERT, and whether it is one of the liberties.
Judge(c, t, row) ==
    /\ wanted' = [wanted EXCEPT ![t] = SQLInsert(@, row, call[c].schema.unique)]
    /\ Did((IF wanted[t][row.id.v] = NoRow THEN {} ELSE {"clash"})
           \cup (IF Checked(c) /\ row.u \in gone[t] \cup spoilt[t] THEN {"reused"} ELSE {}))

\* IntegrityError if the value of a unique column has an index row.
Refuse(c) ==
    /\ At(c, "check") /\ Checked(c) /\ call[c].row.u \in index[call[c].table]
    /\ Judge(c, call[c].table, call[c].row)
    /\ Then(c, Idle)
    /\ UNCHANGED <<schema, rows, index, seq, cache, left, gone, spoilt, doubtful>>

\* Nothing is kept of the check: another INSERT of the text may be on its way.
Check(c) ==
    /\ At(c, "check") /\ (Checked(c) => call[c].row.u \notin index[call[c].table])
    /\ Judge(c, call[c].table, call[c].row)
    /\ Then(c, [call[c] EXCEPT !.step = "store"])
    /\ LET t == call[c].table
           u == TextOf(call[c].row)
       IN  spoilt' = Mark(spoilt, t, IF call[c].schema.unique THEN u \cap Coming(t) ELSE u)
    /\ UNCHANGED <<schema, rows, index, seq, cache, left, gone, doubtful>>

\* The row is put whether or not its key is taken.
StoreRow(c, done) ==
    /\ At(c, "store")
    /\ LET t == call[c].table
           row == call[c].row
       IN  IF done THEN Write(t, row.id.v, row)
                   ELSE rows' = rows /\ gone' = Mark(gone, t, TextOf(row))
    /\ Then(c, [call[c] EXCEPT !.step = "index"])
    /\ Did(Lost(done))
    /\ UNCHANGED <<schema, index, seq, cache, left, wanted, spoilt, doubtful>>

\* A mutant of IndexRow: only the columns of a CREATE INDEX are indexed.
IndexRowMutant(c, done) ==
    /\ At(c, "index")
    /\ LET t == call[c].table
           u == TextOf(call[c].row)
           put == done /\ call[c].schema.indexed
       IN  /\ index' = Mark(index, t, IF put THEN u ELSE {})
           /\ spoilt' = Mark(spoilt, t, IF done THEN {} ELSE u)
    /\ Then(c, Idle)
    /\ Did(Lost(done))
    /\ UNCHANGED <<schema, rows, seq, cache, left, wanted, gone, doubtful>>

\* The index rows of CREATE INDEX and of UNIQUE are the same rows.
IndexRow(c, done) ==
    /\ At(c, "index")
    /\ LET t == call[c].table
           u == TextOf(call[c].row)
           put == done /\ (call[c].schema.unique \/ call[c].schema.indexed)
       IN  /\ index' = Mark(index, t, IF put THEN u ELSE {})
           /\ spoilt' = Mark(spoilt, t, IF done THEN {} ELSE u)
    /\ Then(c, Idle)
    /\ Did(Lost(done))
    /\ UNCHANGED <<schema, rows, seq, cache, left, wanted, gone, doubtful>>

-----------------------------------------------------------------------------
(* UPDATE, DELETE *)

Update(c, t, where, set) ==
    /\ LET unique == Known(c, t) # NoSchema /\ Known(c, t).unique
       IN  /\ Begin(c, t, Known(c, t), [step |-> "update", table |-> t, where |-> where, set |-> set],
                    OddIf(where) \cup (IF set.col = "id" THEN {"setId"} ELSE {})
                    \cup (IF Doubles(wanted[t], where, set, unique) THEN {"clash"} ELSE {}))
           /\ wanted' = [wanted EXCEPT ![t] = SQLUpdate(@, where, set, unique)]
    /\ doubtful' = Mark(doubtful, t, IF set.col = "id" THEN {set.val.v} ELSE {})
    /\ UNCHANGED <<schema, rows, index, seq, gone, spoilt>>

Delete(c, t, where) ==
    /\ Begin(c, t, Known(c, t), [step |-> "delete", table |-> t, where |-> where], OddIf(where))
    /\ wanted' = [wanted EXCEPT ![t] = SQLDelete(@, where)]
    /\ UNCHANGED <<schema, rows, index, seq, gone, spoilt, doubtful>>

\* The rows a scan finds that match, with their tables.
Matching(t, where) ==
    {m \in {<<e[1], rows[e[1]][e[2]]>> : e \in Scanned(t)} : Match(m[2], where)}

\* A row that matches is written, or deleted, under the id it says it has.
ChangeRows(c, todo) ==
    Then(c, IF todo = {} THEN Idle ELSE [step |-> "rows", table |-> call[c].table, todo |-> todo])

UpdateScan(c) ==
    /\ At(c, "update")
    /\ LET t == call[c].table
           found == Matching(t, call[c].where)
       IN  /\ ChangeRows(c, {<<m[2].id.v, Change(m[2], call[c].set)>> : m \in found})
           /\ doubtful' = Mark(doubtful, t, {m[2].id.v : m \in {m \in found : m[1] # t}})
           /\ Did(AlikeIf(t, found))
    /\ UNCHANGED <<schema, rows, index, seq, cache, left, wanted, gone, spoilt>>

DeleteScan(c) ==
    /\ At(c, "delete")
    /\ LET found == Matching(call[c].table, call[c].where)
       IN  /\ ChangeRows(c, {<<m[2].id.v, NoRow>> : m \in found})
           /\ Did(AlikeIf(call[c].table, found))
    /\ UNCHANGED <<schema, rows, index, seq, cache, left, wanted, gone, spoilt, doubtful>>

\* No index row is touched: a text that is new under its key has none.
ChangeRow(c, done) ==
    /\ At(c, "rows")
    /\ LET t == call[c].table
       IN  \E e \in call[c].todo :
              /\ e[2] = NoRow => done
              /\ IF done
                 THEN /\ Write(t, e[1], e[2])
                      /\ spoilt' = Mark(spoilt, t, TextOf(e[2]) \ TextOf(rows[t][e[1]]))
                 ELSE UNCHANGED <<rows, gone, spoilt>>
              /\ Then(c, IF call[c].todo = {e} THEN Idle ELSE [call[c] EXCEPT !.todo = @ \ {e}])
    /\ Did(Lost(done))
    /\ UNCHANGED <<schema, index, seq, cache, left, wanted, doubtful>>

-----------------------------------------------------------------------------
(* DROP TABLE *)

Drop(c, t) ==
    /\ Begin(c, t, Known(c, t), [step |-> "drop", table |-> t], {})
    /\ wanted' = [wanted EXCEPT ![t] = [i \in Ids |-> NoRow]]
    /\ UNCHANGED <<schema, rows, index, seq, gone, spoilt, doubtful>>

\* The rows found go one by one, by the keys they were found under.
DropScan(c) ==
    /\ At(c, "drop")
    /\ Then(c, [step |-> "clear", table |-> call[c].table, todo |-> Scanned(call[c].table)])
    /\ Did(AlikeIf(call[c].table, Scanned(call[c].table)))
    /\ UNCHANGED <<schema, rows, index, seq, cache, left, wanted, gone, spoilt, doubtful>>

ClearRow(c) ==
    /\ At(c, "clear")
    /\ \E e \in call[c].todo :
          /\ Write(e[1], e[2], NoRow)
          /\ Then(c, [call[c] EXCEPT !.todo = @ \ {e}])
    /\ UNCHANGED <<schema, index, seq, cache, left, wanted, spoilt, doubtful, liberties>>

DropSchema(c) ==
    /\ At(c, "clear") /\ call[c].todo = {}
    /\ schema' = [schema EXCEPT ![call[c].table] = NoSchema]
    /\ Then(c, [step |-> "unindex", table |-> call[c].table])
    /\ UNCHANGED <<rows, index, seq, cache, left, histories>>

\* A mutant of ScanIndex: the index rows are left.
ScanIndexMutant(c) ==
    /\ At(c, "unindex")
    /\ Then(c, [step |-> "forget", table |-> call[c].table, todo |-> {}])
    /\ UNCHANGED <<schema, rows, index, seq, cache, left, histories>>

ScanIndex(c) ==
    /\ At(c, "unindex")
    /\ LET t == call[c].table
       IN  Then(c, [step |-> "forget", table |-> t,
                    todo |-> UNION {{a} \X index[a] : a \in Alike[t]}])
    /\ UNCHANGED <<schema, rows, index, seq, cache, left, histories>>

\* An index row of another table may go, or one whose text a new row has.
UnindexRow(c) ==
    /\ At(c, "forget")
    /\ \E e \in call[c].todo :
          /\ index' = [index EXCEPT ![e[1]] = @ \ {e[2]}]
          /\ spoilt' = Mark(spoilt, e[1], {e[2]} \cap Held(e[1]))
          /\ Then(c, [call[c] EXCEPT !.todo = @ \ {e}])
    /\ UNCHANGED <<schema, rows, seq, cache, left, wanted, gone, doubtful, liberties>>

\* The table is as new, but for rows that came in the meantime.
ForgetSchema(c) ==
    /\ At(c, "forget") /\ call[c].todo = {}
    /\ LET t == call[c].table
       IN  /\ cache' = Set(cache, c, t, NoSchema)
           /\ gone' = [gone EXCEPT ![t] = {}]
           /\ spoilt' = [spoilt EXCEPT ![t] = @ \cap (Held(t) \cup Coming(t))]
    /\ Then(c, Idle)
    /\ UNCHANGED <<schema, rows, index, seq, left, wanted, doubtful, liberties>>

-----------------------------------------------------------------------------
(* CREATE INDEX *)

\* The connection's schema gets the index and is put back, whatever is stored.
CreateIndex(c, t) ==
    /\ LET s == [Known(c, t) EXCEPT !.indexed = TRUE]
       IN  Begin(c, t, s, [step |-> "alter", table |-> t, schema |-> s], {})
    /\ UNCHANGED <<schema, rows, index, seq, wanted, gone, spoilt, doubtful>>

AlterSchema(c, done) ==
    /\ At(c, "alter")
    /\ schema' = IF done THEN [schema EXCEPT ![call[c].table] = call[c].schema] ELSE schema
    /\ Then(c, [step |-> "survey", table |-> call[c].table])
    /\ Did(Lost(done))
    /\ UNCHANGED <<rows, index, seq, cache, left, wanted, gone, spoilt, doubtful>>

\* Of rows of other tables, too.
BuildScan(c) ==
    /\ At(c, "survey")
    /\ LET t == call[c].table
           found == Matching(t, Everything)
           todo == UNION {TextOf(m[2]) : m \in found}
       IN  /\ Then(c, IF todo = {} THEN Idle ELSE [step |-> "build", table |-> t, todo |-> todo])
           /\ gone' = Mark(gone, t, UNION {TextOf(m[2]) : m \in {m \in found : m[1] # t}})
    /\ UNCHANGED <<schema, rows, index, seq, cache, left, wanted, spoilt, doubtful, liberties>>

BuildRow(c, done) ==
    /\ At(c, "build")
    /\ \E u \in call[c].todo :
          /\ index' = Mark(index, call[c].table, IF done THEN {u} ELSE {})
          /\ Then(c, IF call[c].todo = {u} THEN Idle ELSE [call[c] EXCEPT !.todo = @ \ {u}])
    /\ Did(Lost(done))
    /\ UNCHANGED <<schema, rows, seq, cache, left, wanted, gone, spoilt, doubtful>>

-----------------------------------------------------------------------------
(* Failures *)

\* The next call is one that raises when it fails: not a put.
Raises(c) ==
    \/ call[c].step \in {"number", "count", "update", "delete", "drop", "clear", "unindex", "survey"}
    \/ At(c, "check") /\ Checked(c)
    \/ At(c, "rows") /\ \E e \in call[c].todo : e[2] = NoRow
    \/ At(c, "forget") /\ call[c].todo # {}

Fail(c) ==
    /\ call[c] # Idle /\ Raises(c)
    /\ Then(c, Idle)
    /\ Did({"failure"})
    /\ UNCHANGED <<schema, rows, index, seq, cache, left, wanted, gone, spoilt, doubtful>>

\* The connection's process dies and is started again: its cache is empty.  A
\* row may have been stored and not indexed.
Crash(c) ==
    /\ cache' = [cache EXCEPT ![c] = [t \in Table |-> NoSchema]]
    /\ spoilt' = IF At(c, "index") THEN Mark(spoilt, call[c].table, TextOf(call[c].row)) ELSE spoilt
    /\ Then(c, Idle)
    /\ Did(IF call[c] = Idle THEN {} ELSE {"crash"})
    /\ UNCHANGED <<schema, rows, index, seq, left, wanted, gone, doubtful>>

Statement(c) ==
    /\ call[c] = Idle /\ left > 0 /\ left' = left - 1
    /\ \E t \in Table :
          \/ \E s \in Schemas : Create(c, t, s)
          \/ \E g \in Given : Insert(c, t, g[1], g[2])
          \/ \E where \in Clauses : Delete(c, t, where) \/ \E set \in Settings : Update(c, t, where, set)
          \/ Drop(c, t)
          \/ CreateIndex(c, t)

\* A statement under way makes its next call.
Step(c) ==
    /\ call[c] # Idle
    /\ \/ \E done \in BOOLEAN :
             \/ CreatePut(c, done) \/ StoreRow(c, done) \/ IndexRow(c, done)
             \/ ChangeRow(c, done) \/ AlterSchema(c, done) \/ BuildRow(c, done)
       \/ ReadSeq(c) \/ NextId(c) \/ Refuse(c) \/ Check(c)
       \/ UpdateScan(c) \/ DeleteScan(c)
       \/ DropScan(c) \/ ClearRow(c) \/ DropSchema(c) \/ ScanIndex(c) \/ UnindexRow(c) \/ ForgetSchema(c)
       \/ BuildScan(c)

Next == \E c \in Conn : Statement(c) \/ Step(c) \/ Fail(c) \/ Crash(c)

Spec == Init /\ [][Next]_vars

-----------------------------------------------------------------------------
(* Properties *)

TypeOK ==
    /\ schema \in [Table -> Schema \cup {NoSchema}]
    /\ \A t \in Table, i \in Ids : rows[t][i] = NoRow \/ rows[t][i] \in Row
    /\ index \in [Table -> SUBSET Texts]
    /\ seq \in [Table -> 0 .. MaxId]
    /\ cache \in [Conn -> [Table -> Schema \cup {NoSchema}]]
    /\ \A c \in Conn : call[c] = Idle \/ call[c] \in Call
    /\ left \in 0 .. MaxStatements
    /\ gone \in [Table -> SUBSET Texts]
    /\ spoilt \in [Table -> SUBSET Texts]
    /\ doubtful \in [Table -> SUBSET Ids]
    /\ liberties \subseteq Liberties

\* No two rows of a table have one text in u, unless that text is spoilt, and of
\* a text it takes one of these to be spoilt: it was inserted when the column was
\* not unique; two INSERTs of it passed the check together; an INSERT of it was
\* cut between its row and its index row; an UPDATE wrote it to a row that did
\* not have it; a DROP took its index row away from a row that was not dropped
\* (sql_engine.py:602-628; tests/test_sql.py:309).
UniqueHeld ==
    \A t \in Table : \A i, j \in Ids :
        i # j => TextOf(rows[t][i]) \cap TextOf(rows[t][j]) \subseteq spoilt[t]

\* A number that next_id has given to an INSERT is no other row's and no other
\* INSERT's, however statements overlap, processes die, tables are dropped and
\* made again and updates write back rows that were deleted: the row it puts
\* replaces none.  Only of an id that was given or set by hand, brought by an
\* UPDATE from a table with an alike name, or drawn again because two
\* connections read the sequence before either wrote it, is this not said.
NumbersAreFresh ==
    LET numbered == {c \in Conn : (At(c, "check") \/ At(c, "store")) /\ ~call[c].given}
        id(c) == call[c].row.id.v
    IN  \A c \in numbered : id(c) \notin doubtful[call[c].table] =>
            /\ rows[call[c].table][id(c)] = NoRow
            /\ \A d \in numbered \ {c} : call[d].table = call[c].table => id(d) # id(c)

\* UNIQUE refuses a text for which there is an index row, and deletes, updates
\* and statements that were cut short leave those behind; still, as long as
\* statements do not overlap, every one is of a text that a row has, or had, or
\* was to have, or that CREATE INDEX took from a table with an alike name, since
\* the table was last dropped.
RefusedForCause ==
    Without({"overlap"}) => \A t \in Table : index[t] \subseteq Held(t) \cup gone[t]

\* Between two statements every table holds what SQL says the statements have
\* made of it, refusals included (tests/test_sql.py:309), as long as none of the
\* liberties is taken.
TurnsKeepTheTables == Quiet /\ liberties = {} => rows = wanted

\* The same for all the clauses the engine says it supports (sql_engine.py:13).
SupportedStatementsWork == Quiet /\ liberties \subseteq {"odd"} => rows = wanted

=============================================================================
