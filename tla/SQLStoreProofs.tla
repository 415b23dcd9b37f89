---------------------------- MODULE SQLStoreProofs ----------------------------
(***************************************************************************)
(* Proofs about SQLStore, for any connections, tables, clauses and bounds: *)
(* its types, that next_id's numbers are fresh, that no two rows hold one  *)
(* text in a unique column, that UNIQUE refuses a text for a cause, and    *)
(* that statements that take turns leave the tables as SQL says.           *)
(***************************************************************************)
EXTENDS SQLStore, FiniteSetTheorems, TLAPS

\* The rows of one table.
Rows == [Ids -> Row \cup {NoRow}]

\* TypeOK, with rows, wanted and call as functions.
Typed ==
    /\ schema \in [Table -> Schema \cup {NoSchema}]
    /\ rows \in [Table -> Rows]
    /\ index \in [Table -> SUBSET Texts]
    /\ seq \in [Table -> 0 .. MaxId]
    /\ cache \in [Conn -> [Table -> Schema \cup {NoSchema}]]
    /\ call \in [Conn -> Call \cup {Idle}]
    /\ left \in 0 .. MaxStatements
    /\ wanted \in [Table -> Rows]
    /\ gone \in [Table -> SUBSET Texts]
    /\ spoilt \in [Table -> SUBSET Texts]
    /\ doubtful \in [Table -> SUBSET Ids]
    /\ liberties \subseteq Liberties

LEMMA TypedIsTypeOK == Typed => TypeOK
  BY DEF Typed, TypeOK, Rows

LEMMA Shapes ==
    ASSUME NEW k \in Call
    PROVE  /\ k.step \in {"create", "alter"} =>
                  k \in [step : {"create", "alter"}, table : Table, schema : Schema]
           /\ k.step = "number" =>
                  k \in [step : {"number"}, table : Table, schema : Schema, row : NewRow, given : {FALSE}]
           /\ k.step = "count" =>
                  k \in [step : {"count"}, table : Table, schema : Schema, row : NewRow, given : {FALSE},
                         last : 0 .. MaxId - 1]
           /\ k.step \in {"check", "store", "index"} =>
                  k \in [step : {"check", "store", "index"}, table : Table, schema : Schema,
                         row : Row, given : BOOLEAN]
           /\ k.step = "update" => k \in [step : {"update"}, table : Table, where : Clauses, set : Settings]
           /\ k.step = "delete" => k \in [step : {"delete"}, table : Table, where : Clauses]
           /\ k.step = "rows" =>
                  k \in [step : {"rows"}, table : Table, todo : SUBSET (Ids \X (Row \cup {NoRow}))]
           /\ k.step \in {"drop", "unindex", "survey"} =>
                  k \in [step : {"drop", "unindex", "survey"}, table : Table]
           /\ k.step = "clear" => k \in [step : {"clear"}, table : Table, todo : SUBSET (Table \X Ids)]
           /\ k.step = "forget" => k \in [step : {"forget"}, table : Table, todo : SUBSET (Table \X Texts)]
           /\ k.step = "build" => k \in [step : {"build"}, table : Table, todo : SUBSET Texts]
           /\ k.table \in Table
  BY DEF Call

LEMMA Values ==
    /\ Null \notin Texts
    /\ \A m, n : Num(m) = Num(n) => m = n
    /\ \A n : Num(n).v = n
    /\ \A n : Num(n) # Null
  BY DEF Texts, Null, Text, Num

LEMMA RowId ==
    ASSUME NEW row \in Row
    PROVE  row.id.v \in Ids /\ row.id = Num(row.id.v) /\ row.u \in Texts \cup {Null}
  BY DEF Row, Num

LEMMA ChangedRow ==
    ASSUME NEW row \in Row, NEW set \in Settings
    PROVE  /\ Change(row, set) \in Row
           /\ set.col # "id" => Change(row, set).id = row.id
           /\ set.col = "u" => Change(row, set).u = set.val
           /\ set.col # "u" => Change(row, set).u = row.u
           /\ set.col \in {"id", "u"}
           /\ set.col = "u" => set.val \in Texts \cup {Null}
  BY SQLConstants DEF Row, Change

LEMMA InitTyped == Init => Typed
  BY SQLConstants DEF Init, Typed, Liberties, Ids, Rows

-----------------------------------------------------------------------------
(* What the helpers do *)

LEMMA CacheOne ==
    ASSUME Typed, NEW c \in Conn, NEW t \in Table, NEW s \in Schema \cup {NoSchema}
    PROVE  Set(cache, c, t, s) \in [Conn -> [Table -> Schema \cup {NoSchema}]]
  BY DEF Typed, Set

LEMMA SetOne ==
    ASSUME NEW T \in [Table -> Rows], NEW t \in Table, NEW i \in Ids, NEW row \in Row \cup {NoRow}
    PROVE  /\ Set(T, t, i, row) \in [Table -> Rows]
           /\ Set(T, t, i, row)[t][i] = row
           /\ \A a \in Table, b \in Ids : (a # t \/ b # i) => Set(T, t, i, row)[a][b] = T[a][b]
  BY DEF Set, Rows

LEMMA MarkTexts ==
    ASSUME NEW h \in [Table -> SUBSET Texts], NEW t \in Table, NEW S \in SUBSET Texts
    PROVE  /\ Mark(h, t, S) \in [Table -> SUBSET Texts]
           /\ Mark(h, t, S)[t] = h[t] \cup S
           /\ \A a \in Table \ {t} : Mark(h, t, S)[a] = h[a]
           /\ \A a \in Table : h[a] \subseteq Mark(h, t, S)[a]
  BY DEF Mark

LEMMA MarkIds ==
    ASSUME NEW h \in [Table -> SUBSET Ids], NEW t \in Table, NEW S \in SUBSET Ids
    PROVE  /\ Mark(h, t, S) \in [Table -> SUBSET Ids]
           /\ Mark(h, t, S)[t] = h[t] \cup S
           /\ \A a \in Table \ {t} : Mark(h, t, S)[a] = h[a]
           /\ \A a \in Table : h[a] \subseteq Mark(h, t, S)[a]
  BY DEF Mark

LEMMA TextsOfRow ==
    ASSUME NEW row \in Row \cup {NoRow}
    PROVE  TextOf(row) \subseteq Texts
  BY DEF TextOf, Row

LEMMA TextOfRow ==
    ASSUME NEW row \in Row, NEW u
    PROVE  u \in TextOf(row) <=> u = row.u /\ u # Null
  BY SQLConstants DEF TextOf

LEMMA HeldTexts ==
    ASSUME Typed, NEW t \in Table
    PROVE  /\ Held(t) \subseteq Texts
           /\ \A u : u \in Held(t) <=> \E i \in Ids : u \in TextOf(rows[t][i])
  <1>1. \A i \in Ids : rows[t][i] \in Row \cup {NoRow}
    BY DEF Typed, Rows
  <1>. QED  BY <1>1, TextsOfRow DEF Held

LEMMA ThenOne ==
    ASSUME Typed, NEW c \in Conn, NEW next \in Call \cup {Idle}, Then(c, next)
    PROVE  /\ call' \in [Conn -> Call \cup {Idle}]
           /\ call'[c] = next
           /\ \A d \in Conn \ {c} : call'[d] = call[d]
  BY DEF Typed, Then

LEMMA AtIsCall ==
    ASSUME Typed, NEW c \in Conn, NEW step, At(c, step)
    PROVE  call[c] \in Call /\ call[c].step = step /\ call[c].table \in Table
  BY Shapes DEF Typed, At

LEMMA DidTyped ==
    ASSUME Typed, NEW S, S \subseteq Liberties, Did(S)
    PROVE  liberties' \subseteq Liberties /\ liberties' = liberties \cup S
  BY DEF Typed, Did

LEMMA SmallLiberties ==
    /\ Overlap \subseteq Liberties
    /\ \A t, S : AlikeIf(t, S) \subseteq Liberties
    /\ \A where : OddIf(where) \subseteq Liberties
    /\ \A done : Lost(done) \subseteq Liberties
  BY DEF Overlap, AlikeIf, OddIf, Lost, Liberties

LEMMA KnownTyped ==
    ASSUME Typed, NEW c \in Conn, NEW t \in Table
    PROVE  Known(c, t) \in Schema \cup {NoSchema}
  BY DEF Typed, Known

LEMMA BeginTyped ==
    ASSUME Typed, NEW c \in Conn, NEW t \in Table, NEW s \in Schema, NEW next \in Call,
           NEW lib \in SUBSET Liberties, Begin(c, t, s, next, lib)
    PROVE  /\ call' \in [Conn -> Call \cup {Idle}]
           /\ call'[c] = next
           /\ \A d \in Conn \ {c} : call'[d] = call[d]
           /\ cache' \in [Conn -> [Table -> Schema \cup {NoSchema}]]
           /\ liberties' \subseteq Liberties
           /\ liberties \cup lib \cup Overlap \subseteq liberties'
  <1>1. Then(c, next)
    BY DEF Begin
  <1>2. /\ call' \in [Conn -> Call \cup {Idle}]
        /\ call'[c] = next
        /\ \A d \in Conn \ {c} : call'[d] = call[d]
    BY <1>1, ThenOne
  <1>3. cache' \in [Conn -> [Table -> Schema \cup {NoSchema}]]
    BY CacheOne DEF Begin
  <1>4. DEFINE S == lib \cup Overlap \cup IF Known(c, t) = schema[t] THEN {} ELSE {"stale"}
  <1>5. S \subseteq Liberties
    BY SmallLiberties DEF Liberties
  <1>6. Did(S)
    BY DEF Begin
  <1>7. liberties' \subseteq Liberties /\ liberties' = liberties \cup S
    <2>. HIDE DEF S
    <2>. QED  BY <1>5, <1>6, DidTyped
  <1>. QED  BY <1>2, <1>3, <1>7

LEMMA InsertingCall ==
    ASSUME Typed, NEW c \in Conn, At(c, "check") \/ At(c, "store") \/ At(c, "index")
    PROVE  /\ call[c] \in [step : {"check", "store", "index"}, table : Table, schema : Schema,
                           row : Row, given : BOOLEAN]
           /\ call[c].table \in Table /\ call[c].row \in Row
           /\ call[c].row.id.v \in Ids /\ call[c].row.id = Num(call[c].row.id.v)
           /\ call[c].row.u \in Texts \cup {Null}
           /\ TextOf(call[c].row) \subseteq Texts
  <1>1. call[c] \in [step : {"check", "store", "index"}, table : Table, schema : Schema,
                     row : Row, given : BOOLEAN]
    BY AtIsCall, Shapes
  <1>. QED  BY <1>1, RowId, TextsOfRow

LEMMA ComingTexts ==
    ASSUME Typed, NEW t \in Table
    PROVE  /\ Coming(t) \subseteq Texts
           /\ \A u : u \in Coming(t) <=> \E d \in Conn : /\ At(d, "store") \/ At(d, "index")
                                                         /\ call[d].table = t
                                                         /\ u \in TextOf(call[d].row)
  <1>1. \A u : u \in Coming(t) <=> \E d \in Conn : /\ At(d, "store") \/ At(d, "index")
                                                   /\ call[d].table = t
                                                   /\ u \in TextOf(call[d].row)
    BY DEF Coming
  <1>2. \A d \in Conn : At(d, "store") \/ At(d, "index") => TextOf(call[d].row) \subseteq Texts
    BY InsertingCall
  <1>. QED  BY <1>1, <1>2

LEMMA NextStep ==
    ASSUME Typed, NEW c \in Conn, At(c, "check") \/ At(c, "store") \/ At(c, "index"),
           NEW s \in {"check", "store", "index"}, Then(c, [call[c] EXCEPT !.step = s])
    PROVE  /\ call' \in [Conn -> Call \cup {Idle}]
           /\ call'[c] \in Call
           /\ call'[c].step = s /\ call'[c].table = call[c].table /\ call'[c].schema = call[c].schema
           /\ call'[c].row = call[c].row /\ call'[c].given = call[c].given
           /\ \A d \in Conn \ {c} : call'[d] = call[d]
  <1>1. call[c] \in [step : {"check", "store", "index"}, table : Table, schema : Schema,
                     row : Row, given : BOOLEAN]
    BY InsertingCall
  <1>2. [call[c] EXCEPT !.step = s] \in Call
    BY <1>1 DEF Call
  <1>3. call'[c] = [call[c] EXCEPT !.step = s]
    BY DEF Typed, Then
  <1>. QED  BY <1>1, <1>2, <1>3 DEF Typed, Then

LEMMA FewerTodo ==
    ASSUME Typed, NEW c \in Conn, NEW s \in {"rows", "clear", "forget", "build"}, At(c, s), NEW e,
           Then(c, [call[c] EXCEPT !.todo = @ \ {e}])
    PROVE  /\ call' \in [Conn -> Call \cup {Idle}]
           /\ call'[c] \in Call
           /\ call'[c].step = s /\ call'[c].table = call[c].table
           /\ call'[c].todo = call[c].todo \ {e}
           /\ \A d \in Conn \ {c} : call'[d] = call[d]
  <1>. DEFINE next == [call[c] EXCEPT !.todo = @ \ {e}]
  <1>0. call[c] \in Call /\ call[c].step = s
    BY AtIsCall
  <1>1. next \in Call /\ next.step = s /\ next.table = call[c].table /\ next.todo = call[c].todo \ {e}
    <2>1. CASE s = "rows"
      <3>1. call[c] \in [step : {"rows"}, table : Table, todo : SUBSET (Ids \X (Row \cup {NoRow}))]
        BY <2>1, <1>0, Shapes
      <3>2. /\ next \in [step : {"rows"}, table : Table, todo : SUBSET (Ids \X (Row \cup {NoRow}))]
            /\ next.table = call[c].table /\ next.todo = call[c].todo \ {e}
        BY <3>1
      <3>. QED  BY <2>1, <3>2 DEF Call
    <2>2. CASE s = "clear"
      <3>1. call[c] \in [step : {"clear"}, table : Table, todo : SUBSET (Table \X Ids)]
        BY <2>2, <1>0, Shapes
      <3>2. /\ next \in [step : {"clear"}, table : Table, todo : SUBSET (Table \X Ids)]
            /\ next.table = call[c].table /\ next.todo = call[c].todo \ {e}
        BY <3>1
      <3>. QED  BY <2>2, <3>2 DEF Call
    <2>3. CASE s = "forget"
      <3>1. call[c] \in [step : {"forget"}, table : Table, todo : SUBSET (Table \X Texts)]
        BY <2>3, <1>0, Shapes
      <3>2. /\ next \in [step : {"forget"}, table : Table, todo : SUBSET (Table \X Texts)]
            /\ next.table = call[c].table /\ next.todo = call[c].todo \ {e}
        BY <3>1
      <3>. QED  BY <2>3, <3>2 DEF Call
    <2>4. CASE s = "build"
      <3>1. call[c] \in [step : {"build"}, table : Table, todo : SUBSET Texts]
        BY <2>4, <1>0, Shapes
      <3>2. /\ next \in [step : {"build"}, table : Table, todo : SUBSET Texts]
            /\ next.table = call[c].table /\ next.todo = call[c].todo \ {e}
        BY <3>1
      <3>. QED  BY <2>4, <3>2 DEF Call
    <2>. QED  BY <2>1, <2>2, <2>3, <2>4
  <1>2. Then(c, next)
    OBVIOUS
  <1>. HIDE DEF next
  <1>. QED  BY <1>1, <1>2, ThenOne DEF Typed

LEMMA ChangingCall ==
    ASSUME Typed, NEW c \in Conn, At(c, "rows"), NEW e \in call[c].todo
    PROVE  /\ call[c].table \in Table /\ e[1] \in Ids /\ e[2] \in Row \cup {NoRow}
           /\ e = <<e[1], e[2]>>
  <1>1. call[c] \in [step : {"rows"}, table : Table, todo : SUBSET (Ids \X (Row \cup {NoRow}))]
    BY AtIsCall, Shapes
  <1>2. e \in Ids \X (Row \cup {NoRow})
    BY <1>1
  <1>. QED  BY <1>1, <1>2

LEMMA ClearingCall ==
    ASSUME Typed, NEW c \in Conn, At(c, "clear"), NEW e \in call[c].todo
    PROVE  /\ call[c].table \in Table /\ e[1] \in Table /\ e[2] \in Ids /\ e = <<e[1], e[2]>>
  <1>1. call[c].table \in Table /\ call[c].todo \in SUBSET (Table \X Ids)
    BY AtIsCall, Shapes
  <1>. QED  BY <1>1

LEMMA ForgettingCall ==
    ASSUME Typed, NEW c \in Conn, At(c, "forget"), NEW e \in call[c].todo
    PROVE  /\ call[c].table \in Table /\ e[1] \in Table /\ e[2] \in Texts /\ e = <<e[1], e[2]>>
  <1>1. call[c].table \in Table /\ call[c].todo \in SUBSET (Table \X Texts)
    BY AtIsCall, Shapes
  <1>. QED  BY <1>1

LEMMA BuildingCall ==
    ASSUME Typed, NEW c \in Conn, At(c, "build")
    PROVE  call[c].table \in Table /\ call[c].todo \subseteq Texts
  <1>1. call[c] \in [step : {"build"}, table : Table, todo : SUBSET Texts]
    BY AtIsCall, Shapes
  <1>. QED  BY <1>1

LEMMA MatchingRows ==
    ASSUME Typed, NEW t \in Table, NEW where, NEW m \in Matching(t, where)
    PROVE  /\ m[1] \in Alike[t] /\ m[1] \in Table /\ m[2] \in Row /\ Match(m[2], where)
           /\ \E i \in Ids : m[2] = rows[m[1]][i]
  <1>1. PICK e \in Scanned(t) : m = <<e[1], rows[e[1]][e[2]]>>
    BY DEF Matching
  <1>2. /\ e[1] \in Table /\ e[2] \in Ids /\ e[1] \in Alike[t]
        /\ rows[e[1]][e[2]] # NoRow
    BY DEF Scanned
  <1>3. rows[e[1]][e[2]] \in Row
    BY <1>2 DEF Typed, Rows
  <1>4. Match(m[2], where)
    BY DEF Matching
  <1>. QED  BY <1>1, <1>2, <1>3, <1>4

\* A table's own rows are among those its scans find.
LEMMA OwnRowMatches ==
    ASSUME Typed, NEW t \in Table, NEW where, NEW i \in Ids, rows[t][i] # NoRow, Match(rows[t][i], where)
    PROVE  <<t, rows[t][i]>> \in Matching(t, where)
  <1>1. <<t, i>> \in Scanned(t)
    BY SQLConstants DEF Scanned
  <1>. DEFINE e == <<t, i>>
  <1>2. e \in Scanned(t) /\ <<e[1], rows[e[1]][e[2]]>> = <<t, rows[t][i]>>
    BY <1>1
  <1>. HIDE DEF e
  <1>. QED  BY <1>2 DEF Matching

LEMMA WriteOne ==
    ASSUME Typed, NEW t \in Table, NEW i \in Ids, NEW row \in Row \cup {NoRow}, Write(t, i, row)
    PROVE  /\ rows' \in [Table -> Rows]
           /\ rows'[t][i] = row
           /\ \A a \in Table, b \in Ids : (a # t \/ b # i) => rows'[a][b] = rows[a][b]
           /\ gone' \in [Table -> SUBSET Texts]
           /\ \A a \in Table : gone[a] \subseteq gone'[a]
           /\ TextOf(rows[t][i]) \subseteq TextOf(row) \cup gone'[t]
  <1>1. rows' = Set(rows, t, i, row) /\ gone' = Mark(gone, t, TextOf(rows[t][i]) \ TextOf(row))
    BY DEF Write
  <1>2. rows \in [Table -> Rows] /\ gone \in [Table -> SUBSET Texts]
    BY DEF Typed
  <1>3. rows[t][i] \in Row \cup {NoRow}
    BY <1>2 DEF Rows
  <1>4. TextOf(rows[t][i]) \ TextOf(row) \in SUBSET Texts
    BY <1>3, TextsOfRow
  <1>5. /\ Set(rows, t, i, row) \in [Table -> Rows]
        /\ Set(rows, t, i, row)[t][i] = row
        /\ \A a \in Table, b \in Ids : (a # t \/ b # i) => Set(rows, t, i, row)[a][b] = rows[a][b]
    BY <1>2, SetOne
  <1>6. PICK g, S : g = Mark(gone, t, S) /\ S = TextOf(rows[t][i]) \ TextOf(row)
    OBVIOUS
  <1>7. /\ g \in [Table -> SUBSET Texts]
        /\ g[t] = gone[t] \cup S
        /\ \A a \in Table : gone[a] \subseteq g[a]
    BY <1>2, <1>4, <1>6, MarkTexts
  <1>. QED  BY <1>1, <1>5, <1>6, <1>7

-----------------------------------------------------------------------------
(* Types *)

LEMMA CreateTyped ==
    ASSUME Typed, NEW c \in Conn, NEW t \in Table, NEW s \in Schemas, left' \in 0 .. MaxStatements,
           Create(c, t, s)
    PROVE  Typed'
  <1>1. s \in Schema
    BY SQLConstants
  <1>2. [step |-> "create", table |-> t, schema |-> s] \in Call
    BY <1>1 DEF Call
  <1>3. call' \in [Conn -> Call \cup {Idle}]
    BY <1>2 DEF Create, Then, Typed
  <1>4. liberties' \subseteq Liberties
    BY SmallLiberties, DidTyped DEF Create
  <1>. QED  BY <1>3, <1>4 DEF Create, Typed

LEMMA CreatePutTyped ==
    ASSUME Typed, NEW c \in Conn, NEW done \in BOOLEAN, CreatePut(c, done)
    PROVE  Typed'
  <1>1. call[c].table \in Table /\ call[c].schema \in Schema
    BY AtIsCall, Shapes DEF CreatePut
  <1>2. cache' \in [Conn -> [Table -> Schema \cup {NoSchema}]]
    BY <1>1, CacheOne DEF CreatePut
  <1>3. call' \in [Conn -> Call \cup {Idle}]
    BY DEF CreatePut, Typed, Then
  <1>4. schema' \in [Table -> Schema \cup {NoSchema}]
    BY <1>1 DEF CreatePut, Typed
  <1>5. liberties' \subseteq Liberties
    BY SmallLiberties, DidTyped DEF CreatePut
  <1>. QED  BY <1>2, <1>3, <1>4, <1>5 DEF CreatePut, Typed

\* How an INSERT begins.
LEMMA InsertBegins ==
    ASSUME Typed, NEW c \in Conn, NEW t \in Table, NEW id, NEW u, <<id, u>> \in Given, Insert(c, t, id, u)
    PROVE  /\ call' \in [Conn -> Call \cup {Idle}]
           /\ cache' \in [Conn -> [Table -> Schema \cup {NoSchema}]]
           /\ liberties' \subseteq Liberties
           /\ liberties \cup Overlap \subseteq liberties'
           /\ call'[c] # Idle /\ call'[c].table = t /\ call'[c].step \in {"number", "check"}
           /\ call'[c].step = "check" => id \in {Num(n) : n \in Ids} /\ call'[c].row.id = id
           /\ \A d \in Conn \ {c} : call'[d] = call[d]
           /\ doubtful' = Mark(doubtful, t, IF id = Null THEN {} ELSE {id.v})
           /\ (IF id = Null THEN {} ELSE {id.v}) \in SUBSET Ids
  <1>. DEFINE next == [step |-> IF id = Null THEN "number" ELSE "check", table |-> t,
                    schema |-> Known(c, t), row |-> [id |-> id, u |-> u], given |-> id # Null]
  <1>1. Begin(c, t, Known(c, t), next, {})
    BY DEF Insert
  <1>2. Known(c, t) \in Schema
    BY KnownTyped, <1>1 DEF Begin
  <1>3. id \in {Null} \cup {Num(n) : n \in Ids} /\ u \in Texts \cup {Null}
    BY SQLConstants
  <1>4. next \in Call /\ next.step \in {"number", "check"} /\ next.table = t
        /\ (next.step = "check" => id \in {Num(n) : n \in Ids} /\ next.row.id = id)
    <2>1. CASE id = Null
      <3>1. [id |-> id, u |-> u] \in NewRow
        BY <2>1, <1>3 DEF NewRow
      <3>2. next \in [step : {"number"}, table : Table, schema : Schema, row : NewRow, given : {FALSE}]
        BY <2>1, <3>1, <1>2
      <3>. QED  BY <2>1, <3>2 DEF Call
    <2>2. CASE id # Null
      <3>1. [id |-> id, u |-> u] \in Row
        BY <2>2, <1>3 DEF Row
      <3>2. next \in [step : {"check", "store", "index"}, table : Table, schema : Schema, row : Row, given : BOOLEAN]
        BY <2>2, <3>1, <1>2
      <3>. QED  BY <1>3, <2>2, <3>2 DEF Call
    <2>. QED  BY <2>1, <2>2
  <1>5. (IF id = Null THEN {} ELSE {id.v}) \in SUBSET Ids
    BY <1>3, Values
  <1>. HIDE DEF next
  <1>6. /\ call' \in [Conn -> Call \cup {Idle}]
        /\ call'[c] = next
        /\ \A d \in Conn \ {c} : call'[d] = call[d]
        /\ cache' \in [Conn -> [Table -> Schema \cup {NoSchema}]]
        /\ liberties' \subseteq Liberties
        /\ liberties \cup {} \cup Overlap \subseteq liberties'
    BY <1>1, <1>2, <1>4, BeginTyped
  <1>7. next # Idle
    BY <1>4, SQLConstants
  <1>. QED  BY <1>4, <1>5, <1>6, <1>7 DEF Insert

LEMMA InsertTyped ==
    ASSUME Typed, NEW c \in Conn, NEW t \in Table, NEW id, NEW u, <<id, u>> \in Given,
           left' \in 0 .. MaxStatements, Insert(c, t, id, u)
    PROVE  Typed'
  <1>1. /\ call' \in [Conn -> Call \cup {Idle}]
        /\ cache' \in [Conn -> [Table -> Schema \cup {NoSchema}]]
        /\ liberties' \subseteq Liberties
        /\ doubtful' = Mark(doubtful, t, IF id = Null THEN {} ELSE {id.v})
        /\ (IF id = Null THEN {} ELSE {id.v}) \in SUBSET Ids
    BY InsertBegins
  <1>2. doubtful' \in [Table -> SUBSET Ids]
    BY <1>1, MarkIds DEF Typed
  <1>. QED  BY <1>1, <1>2 DEF Insert, Typed

LEMMA ReadSeqDoes ==
    ASSUME Typed, NEW c \in Conn, ReadSeq(c)
    PROVE  /\ call' \in [Conn -> Call \cup {Idle}]
           /\ call'[c] # Idle /\ call'[c].step = "count"
           /\ \A d \in Conn \ {c} : call'[d] = call[d]
           /\ UNCHANGED <<schema, rows, index, seq, cache, left, histories>>
  <1>. DEFINE next == [step |-> "count", table |-> call[c].table, schema |-> call[c].schema,
                       row |-> call[c].row, given |-> FALSE, last |-> seq[call[c].table]]
  <1>1. call[c] \in [step : {"number"}, table : Table, schema : Schema, row : NewRow, given : {FALSE}]
    BY AtIsCall, Shapes DEF ReadSeq
  <1>2. seq[call[c].table] \in 0 .. MaxId - 1
    BY <1>1, SQLConstants DEF ReadSeq, Typed
  <1>3. next \in Call /\ next.step = "count"
    <2>1. next \in [step : {"count"}, table : Table, schema : Schema, row : NewRow, given : {FALSE},
                    last : 0 .. MaxId - 1]
      BY <1>1, <1>2
    <2>. QED  BY <2>1 DEF Call
  <1>4. Then(c, next)
    BY DEF ReadSeq
  <1>. HIDE DEF next
  <1>5. next # Idle
    BY <1>3, SQLConstants
  <1>. QED  BY <1>3, <1>4, <1>5, ThenOne DEF ReadSeq

LEMMA ReadSeqTyped ==
    ASSUME Typed, NEW c \in Conn, ReadSeq(c)
    PROVE  Typed'
  BY ReadSeqDoes DEF Typed, histories

\* What NextId does with the number n.
Draws(c, t, n) ==
    /\ call[c].table = t
    /\ call' \in [Conn -> Call \cup {Idle}]
    /\ call'[c] # Idle
    /\ call'[c].step = "check" /\ call'[c].table = t /\ call'[c].given = FALSE
    /\ call'[c].row.id.v = n
    /\ \A d \in Conn \ {c} : call'[d] = call[d]
    /\ seq' = [seq EXCEPT ![t] = n]
    /\ doubtful' = Mark(doubtful, t, n .. seq[t])
    /\ n .. seq[t] \in SUBSET Ids
    /\ UNCHANGED <<schema, rows, index, cache, left, wanted, gone, spoilt, liberties>>

LEMMA NextIdDoes ==
    ASSUME Typed, NEW c \in Conn, NextId(c)
    PROVE  \E t \in Table, n \in Ids : Draws(c, t, n)
  <1>. DEFINE t == call[c].table
              n == call[c].last + 1
              row == [call[c].row EXCEPT !.id = Num(n)]
              next == [step |-> "check", table |-> t, schema |-> call[c].schema, row |-> row,
                       given |-> FALSE]
  <1>1. call[c] \in [step : {"count"}, table : Table, schema : Schema, row : NewRow, given : {FALSE},
                     last : 0 .. MaxId - 1]
    BY AtIsCall, Shapes DEF NextId
  <1>2. n \in Ids
    <2>1. PICK m : m = call[c].last
      OBVIOUS
    <2>2. m \in 0 .. MaxId - 1
      BY <1>1, <2>1
    <2>. QED  BY <2>1, <2>2, SQLConstants DEF Ids
  <1>3. n .. seq[t] \in SUBSET Ids
    <2>1. seq[t] \in 0 .. MaxId
      BY <1>1 DEF Typed
    <2>. HIDE DEF n
    <2>. QED  BY <1>2, <2>1, SQLConstants DEF Ids
  <1>4. row \in Row /\ row.id.v = n
    <2>1. PICK r, m : r = call[c].row /\ m = Num(n) /\ row = [r EXCEPT !.id = m]
      OBVIOUS
    <2>2. r \in NewRow /\ m \in {Num(i) : i \in Ids} /\ m.v = n
      BY <1>1, <1>2, <2>1, Values
    <2>3. [r EXCEPT !.id = m] \in Row /\ [r EXCEPT !.id = m].id = m
      BY <2>2 DEF NewRow, Row
    <2>. QED  BY <2>1, <2>2, <2>3
  <1>5. /\ Then(c, next)
        /\ seq' = [seq EXCEPT ![t] = n]
        /\ doubtful' = Mark(doubtful, t, n .. seq[t])
    BY DEF NextId
  <1>6. t \in Table /\ call[c].schema \in Schema
    BY <1>1
  <1>. HIDE DEF n, row
  <1>7. /\ next \in Call /\ next.step = "check" /\ next.table = t /\ next.given = FALSE /\ next.row = row
        /\ next # Idle
    <2>1. next \in [step : {"check", "store", "index"}, table : Table, schema : Schema, row : Row,
                    given : BOOLEAN]
      BY <1>4, <1>6
    <2>. QED  BY <2>1, SQLConstants DEF Call
  <1>. HIDE DEF next
  <1>8. /\ call' \in [Conn -> Call \cup {Idle}]
        /\ call'[c] = next
        /\ \A d \in Conn \ {c} : call'[d] = call[d]
    BY <1>5, <1>7, ThenOne
  <1>9. UNCHANGED <<schema, rows, index, cache, left, wanted, gone, spoilt, liberties>>
    BY DEF NextId
  <1>. HIDE DEF t
  <1>10. t = call[c].table
    BY DEF t
  <1>. QED  BY <1>2, <1>3, <1>4, <1>5, <1>6, <1>7, <1>8, <1>9, <1>10 DEF Draws

LEMMA NextIdTyped ==
    ASSUME Typed, NEW c \in Conn, NextId(c)
    PROVE  Typed'
  <1>1. PICK t \in Table, n \in Ids : Draws(c, t, n)
    BY NextIdDoes
  <1>2. doubtful' \in [Table -> SUBSET Ids]
    BY <1>1, MarkIds DEF Draws, Typed
  <1>3. seq' \in [Table -> 0 .. MaxId]
    <2>1. n \in 0 .. MaxId
      BY SQLConstants DEF Ids
    <2>. QED  BY <1>1, <2>1 DEF Draws, Typed
  <1>. QED  BY <1>1, <1>2, <1>3 DEF Draws, Typed

\* What SQL makes of a table is a table.
LEMMA SQLInsertTyped ==
    ASSUME NEW T \in Rows, NEW row \in Row, NEW unique
    PROVE  SQLInsert(T, row, unique) \in Rows
  BY RowId DEF SQLInsert, Rows

LEMMA KeyedTyped ==
    ASSUME NEW S \in SUBSET Row
    PROVE  Keyed(S) \in Rows
  <1>1. ASSUME NEW i \in Ids, \E r \in S : r.id = Num(i)
        PROVE  (CHOOSE r \in S : r.id = Num(i)) \in Row
    BY <1>1
  <1>. QED  BY <1>1 DEF Keyed, Rows

LEMMA RowsOfTyped ==
    ASSUME NEW T \in Rows
    PROVE  /\ RowsOf(T) \subseteq Row
           /\ \A r : r \in RowsOf(T) <=> r # NoRow /\ \E i \in Ids : r = T[i]
  BY DEF RowsOf, Rows

LEMMA AfterTyped ==
    ASSUME NEW row \in Row, NEW where, NEW set \in Settings
    PROVE  After(row, where, set) \in Row
  BY ChangedRow DEF After

LEMMA SQLUpdateTyped ==
    ASSUME NEW T \in Rows, NEW where, NEW set \in Settings, NEW unique
    PROVE  SQLUpdate(T, where, set, unique) \in Rows
  <1>1. {After(r, where, set) : r \in RowsOf(T)} \in SUBSET Row
    BY RowsOfTyped, AfterTyped
  <1>. QED  BY <1>1, KeyedTyped DEF SQLUpdate

LEMMA SQLDeleteTyped ==
    ASSUME NEW T \in Rows, NEW where
    PROVE  SQLDelete(T, where) \in Rows
  BY DEF SQLDelete, Rows

LEMMA WantedOne ==
    ASSUME Typed, NEW t \in Table, NEW f \in Rows, wanted' = [wanted EXCEPT ![t] = f]
    PROVE  /\ wanted' \in [Table -> Rows]
           /\ wanted'[t] = f
           /\ \A a \in Table \ {t} : wanted'[a] = wanted[a]
  BY DEF Typed

LEMMA JudgeDoes ==
    ASSUME Typed, NEW c \in Conn, At(c, "check"), Judge(c, call[c].table, call[c].row)
    PROVE  /\ wanted' \in [Table -> Rows]
           /\ wanted'[call[c].table] =
                 SQLInsert(wanted[call[c].table], call[c].row, call[c].schema.unique)
           /\ \A a \in Table \ {call[c].table} : wanted'[a] = wanted[a]
           /\ liberties' \subseteq Liberties
           /\ liberties \subseteq liberties'
           /\ wanted[call[c].table][call[c].row.id.v] # NoRow => "clash" \in liberties'
           /\ Checked(c) /\ call[c].row.u \in gone[call[c].table] \cup spoilt[call[c].table]
                 => "reused" \in liberties'
  <1>. DEFINE t == call[c].table
              row == call[c].row
              S == (IF wanted[t][row.id.v] = NoRow THEN {} ELSE {"clash"})
                   \cup (IF Checked(c) /\ row.u \in gone[t] \cup spoilt[t] THEN {"reused"} ELSE {})
  <1>1. wanted' = [wanted EXCEPT ![t] = SQLInsert(@, row, call[c].schema.unique)] /\ Did(S)
    BY DEF Judge
  <1>2. t \in Table /\ row \in Row
    BY InsertingCall
  <1>3. wanted[t] \in Rows
    BY <1>2 DEF Typed
  <1>4. SQLInsert(wanted[t], row, call[c].schema.unique) \in Rows
    BY <1>2, <1>3, SQLInsertTyped
  <1>5. S \subseteq Liberties
    BY DEF Liberties
  <1>6. liberties' \subseteq Liberties /\ liberties' = liberties \cup S
    <2>. HIDE DEF S
    <2>. QED  BY <1>1, <1>5, DidTyped
  <1>7. wanted' = [wanted EXCEPT ![t] = SQLInsert(wanted[t], row, call[c].schema.unique)]
    BY <1>1
  <1>. QED  BY <1>2, <1>4, <1>6, <1>7, WantedOne

LEMMA ThenIdle ==
    ASSUME Typed, NEW c \in Conn, Then(c, Idle)
    PROVE  /\ call' \in [Conn -> Call \cup {Idle}]
           /\ call'[c] = Idle
           /\ \A d \in Conn \ {c} : call'[d] = call[d]
  BY DEF Typed, Then

LEMMA RefuseTyped ==
    ASSUME Typed, NEW c \in Conn, Refuse(c)
    PROVE  Typed'
  BY JudgeDoes, ThenIdle DEF Refuse, Typed

LEMMA CheckDoes ==
    ASSUME Typed, NEW c \in Conn, Check(c)
    PROVE  /\ call' \in [Conn -> Call \cup {Idle}]
           /\ call'[c] \in Call
           /\ call'[c].step = "store" /\ call'[c].table = call[c].table /\ call'[c].schema = call[c].schema
           /\ call'[c].row = call[c].row /\ call'[c].given = call[c].given
           /\ \A d \in Conn \ {c} : call'[d] = call[d]
           /\ spoilt' \in [Table -> SUBSET Texts]
           /\ \A a \in Table : spoilt[a] \subseteq spoilt'[a]
           /\ \A u \in TextOf(call[c].row) :
                 ~call[c].schema.unique \/ u \in Coming(call[c].table) => u \in spoilt'[call[c].table]
  <1>1. At(c, "check") /\ Then(c, [call[c] EXCEPT !.step = "store"])
    BY DEF Check
  <1>2. /\ call' \in [Conn -> Call \cup {Idle}]
        /\ call'[c] \in Call
        /\ call'[c].step = "store" /\ call'[c].table = call[c].table /\ call'[c].schema = call[c].schema
        /\ call'[c].row = call[c].row /\ call'[c].given = call[c].given
        /\ \A d \in Conn \ {c} : call'[d] = call[d]
    BY <1>1, NextStep
  <1>3. call[c].table \in Table /\ TextOf(call[c].row) \subseteq Texts
    BY <1>1, InsertingCall
  <1>4. PICK t, S : /\ t = call[c].table
                    /\ S = IF call[c].schema.unique THEN TextOf(call[c].row) \cap Coming(t)
                           ELSE TextOf(call[c].row)
    OBVIOUS
  <1>5. spoilt' = Mark(spoilt, t, S) /\ t \in Table /\ S \in SUBSET Texts
    BY <1>3, <1>4 DEF Check
  <1>6. /\ spoilt' \in [Table -> SUBSET Texts]
        /\ spoilt'[t] = spoilt[t] \cup S
        /\ \A a \in Table : spoilt[a] \subseteq spoilt'[a]
    BY <1>5, MarkTexts DEF Typed
  <1>. QED  BY <1>2, <1>4, <1>6

LEMMA CheckTyped ==
    ASSUME Typed, NEW c \in Conn, Check(c)
    PROVE  Typed'
  BY CheckDoes, JudgeDoes DEF Check, Typed

LEMMA StoreRowDoes ==
    ASSUME Typed, NEW c \in Conn, NEW done \in BOOLEAN, StoreRow(c, done)
    PROVE  /\ call' \in [Conn -> Call \cup {Idle}]
           /\ call'[c] \in Call
           /\ call'[c].step = "index" /\ call'[c].table = call[c].table /\ call'[c].schema = call[c].schema
           /\ call'[c].row = call[c].row /\ call'[c].given = call[c].given
           /\ \A d \in Conn \ {c} : call'[d] = call[d]
           /\ rows' \in [Table -> Rows]
           /\ \A a \in Table, i \in Ids :
                 (a # call[c].table \/ i # call[c].row.id.v) => rows'[a][i] = rows[a][i]
           /\ rows'[call[c].table][call[c].row.id.v] \in
                 {call[c].row, rows[call[c].table][call[c].row.id.v]}
           /\ done => rows'[call[c].table][call[c].row.id.v] = call[c].row
           /\ gone' \in [Table -> SUBSET Texts]
           /\ \A a \in Table : gone[a] \subseteq gone'[a]
           /\ TextOf(rows[call[c].table][call[c].row.id.v]) \subseteq
                 TextOf(rows'[call[c].table][call[c].row.id.v]) \cup gone'[call[c].table]
           /\ TextOf(call[c].row) \subseteq
                 TextOf(rows'[call[c].table][call[c].row.id.v]) \cup gone'[call[c].table]
           /\ liberties' \subseteq Liberties
           /\ liberties' = liberties \cup Lost(done)
  <1>1. At(c, "store") /\ Then(c, [call[c] EXCEPT !.step = "index"]) /\ Did(Lost(done))
    BY DEF StoreRow
  <1>2. /\ call' \in [Conn -> Call \cup {Idle}]
        /\ call'[c] \in Call
        /\ call'[c].step = "index" /\ call'[c].table = call[c].table /\ call'[c].schema = call[c].schema
        /\ call'[c].row = call[c].row /\ call'[c].given = call[c].given
        /\ \A d \in Conn \ {c} : call'[d] = call[d]
    BY <1>1, NextStep
  <1>3. /\ call[c].table \in Table /\ call[c].row \in Row /\ call[c].row.id.v \in Ids
        /\ TextOf(call[c].row) \in SUBSET Texts
    BY <1>1, InsertingCall
  <1>4. liberties' \subseteq Liberties /\ liberties' = liberties \cup Lost(done)
    BY <1>1, DidTyped, SmallLiberties
  <1>5. PICK t, row, i : t = call[c].table /\ row = call[c].row /\ i = row.id.v
    OBVIOUS
  <1>6. /\ rows' \in [Table -> Rows]
        /\ \A a \in Table, b \in Ids : (a # t \/ b # i) => rows'[a][b] = rows[a][b]
        /\ rows'[t][i] \in {row, rows[t][i]}
        /\ done => rows'[t][i] = row
        /\ gone' \in [Table -> SUBSET Texts]
        /\ \A a \in Table : gone[a] \subseteq gone'[a]
        /\ TextOf(rows[t][i]) \subseteq TextOf(rows'[t][i]) \cup gone'[t]
        /\ TextOf(row) \subseteq TextOf(rows'[t][i]) \cup gone'[t]
    <2>1. CASE done
      <3>1. Write(t, i, row)
        BY <1>5, <2>1 DEF StoreRow
      <3>. QED  BY <1>3, <1>5, <2>1, <3>1, WriteOne
    <2>2. CASE ~done
      <3>1. rows' = rows /\ gone' = Mark(gone, t, TextOf(row))
        BY <1>5, <2>2 DEF StoreRow
      <3>2. /\ Mark(gone, t, TextOf(row)) \in [Table -> SUBSET Texts]
            /\ Mark(gone, t, TextOf(row))[t] = gone[t] \cup TextOf(row)
            /\ \A a \in Table : gone[a] \subseteq Mark(gone, t, TextOf(row))[a]
        <4>1. PICK g, S : g = Mark(gone, t, S) /\ S = TextOf(row)
          OBVIOUS
        <4>2. S \in SUBSET Texts /\ t \in Table
          BY <1>3, <1>5, <4>1
        <4>. QED  BY <4>1, <4>2, MarkTexts DEF Typed
      <3>. QED  BY <2>2, <3>1, <3>2 DEF Typed
    <2>. QED  BY <2>1, <2>2
  <1>. QED  BY <1>2, <1>4, <1>5, <1>6

LEMMA StoreRowTyped ==
    ASSUME Typed, NEW c \in Conn, NEW done \in BOOLEAN, StoreRow(c, done)
    PROVE  Typed'
  BY StoreRowDoes DEF StoreRow, Typed

LEMMA IndexRowDoes ==
    ASSUME Typed, NEW c \in Conn, NEW done \in BOOLEAN, IndexRow(c, done)
    PROVE  /\ call' \in [Conn -> Call \cup {Idle}]
           /\ call'[c] = Idle
           /\ \A d \in Conn \ {c} : call'[d] = call[d]
           /\ index' \in [Table -> SUBSET Texts]
           /\ \A a \in Table : index[a] \subseteq index'[a]
           /\ \A a \in Table \ {call[c].table} : index'[a] = index[a]
           /\ index'[call[c].table] \subseteq index[call[c].table] \cup TextOf(call[c].row)
           /\ spoilt' \in [Table -> SUBSET Texts]
           /\ \A a \in Table : spoilt[a] \subseteq spoilt'[a]
           /\ call[c].schema.unique =>
                 TextOf(call[c].row) \subseteq index'[call[c].table] \cup spoilt'[call[c].table]
           /\ liberties' \subseteq Liberties
           /\ liberties' = liberties \cup Lost(done)
  <1>1. At(c, "index") /\ Then(c, Idle) /\ Did(Lost(done))
    BY DEF IndexRow
  <1>2. call[c].table \in Table /\ TextOf(call[c].row) \in SUBSET Texts
    BY <1>1, InsertingCall
  <1>3. liberties' \subseteq Liberties /\ liberties' = liberties \cup Lost(done)
    BY <1>1, DidTyped, SmallLiberties
  <1>4. PICK t, put, lost, u :
          /\ t = call[c].table /\ u = TextOf(call[c].row)
          /\ put = IF done /\ (call[c].schema.unique \/ call[c].schema.indexed) THEN u ELSE {}
          /\ lost = IF done THEN {} ELSE u
    OBVIOUS
  <1>5. /\ index' = Mark(index, t, put) /\ spoilt' = Mark(spoilt, t, lost)
        /\ t \in Table /\ put \in SUBSET Texts /\ lost \in SUBSET Texts
    BY <1>2, <1>4 DEF IndexRow
  <1>6. /\ index' \in [Table -> SUBSET Texts]
        /\ index'[t] = index[t] \cup put
        /\ \A a \in Table \ {t} : index'[a] = index[a]
        /\ \A a \in Table : index[a] \subseteq index'[a]
    BY <1>5, MarkTexts DEF Typed
  <1>7. /\ spoilt' \in [Table -> SUBSET Texts]
        /\ spoilt'[t] = spoilt[t] \cup lost
        /\ \A a \in Table : spoilt[a] \subseteq spoilt'[a]
    BY <1>5, MarkTexts DEF Typed
  <1>. QED  BY <1>1, <1>3, <1>4, <1>6, <1>7, ThenIdle

LEMMA IndexRowTyped ==
    ASSUME Typed, NEW c \in Conn, NEW done \in BOOLEAN, IndexRow(c, done)
    PROVE  Typed'
  BY IndexRowDoes DEF IndexRow, Typed

\* How an UPDATE begins.
Updates(c, t, where, set, unique) ==
    /\ call' \in [Conn -> Call \cup {Idle}]
    /\ cache' \in [Conn -> [Table -> Schema \cup {NoSchema}]]
    /\ call'[c] = [step |-> "update", table |-> t, where |-> where, set |-> set]
    /\ call'[c] # Idle
    /\ \A d \in Conn \ {c} : call'[d] = call[d]
    /\ liberties' \subseteq Liberties
    /\ liberties \cup Overlap \subseteq liberties'
    /\ OddIf(where) \subseteq liberties'
    /\ set.col = "id" => "setId" \in liberties'
    /\ Doubles(wanted[t], where, set, unique) => "clash" \in liberties'
    /\ wanted' = [wanted EXCEPT ![t] = SQLUpdate(wanted[t], where, set, unique)]
    /\ doubtful' \in [Table -> SUBSET Ids]
    /\ \A a \in Table : doubtful[a] \subseteq doubtful'[a]
    /\ set.col = "id" => set.val.v \in doubtful'[t]

LEMMA UpdateBegins ==
    ASSUME Typed, NEW c \in Conn, NEW t \in Table, NEW where \in Clauses, NEW set \in Settings,
           Update(c, t, where, set)
    PROVE  \E unique \in BOOLEAN : Updates(c, t, where, set, unique)
  <1>. DEFINE next == [step |-> "update", table |-> t, where |-> where, set |-> set]
              unique == Known(c, t) # NoSchema /\ Known(c, t).unique
              lib == OddIf(where) \cup (IF set.col = "id" THEN {"setId"} ELSE {})
                     \cup (IF Doubles(wanted[t], where, set, unique) THEN {"clash"} ELSE {})
  <1>1. /\ Begin(c, t, Known(c, t), next, lib)
        /\ wanted' = [wanted EXCEPT ![t] = SQLUpdate(@, where, set, unique)]
    BY DEF Update
  <1>2. Known(c, t) \in Schema
    BY KnownTyped, <1>1 DEF Begin
  <1>3. next \in Call /\ next # Idle
    <2>1. next \in Call
      BY DEF Call
    <2>. HIDE DEF next
    <2>. QED  BY <2>1, SQLConstants
  <1>4. lib \in SUBSET Liberties
    BY SmallLiberties DEF Liberties
  <1>5. unique \in BOOLEAN
    BY <1>2 DEF Schema
  <1>6. (IF set.col = "id" THEN {set.val.v} ELSE {}) \in SUBSET Ids
    <2>1. set.col = "id" => set.val \in {Num(n) : n \in Ids}
      BY SQLConstants
    <2>. QED  BY <2>1, Values
  <1>. HIDE DEF next, lib
  <1>7. /\ call' \in [Conn -> Call \cup {Idle}]
        /\ call'[c] = next
        /\ \A d \in Conn \ {c} : call'[d] = call[d]
        /\ cache' \in [Conn -> [Table -> Schema \cup {NoSchema}]]
        /\ liberties' \subseteq Liberties
        /\ liberties \cup lib \cup Overlap \subseteq liberties'
    BY <1>1, <1>2, <1>3, <1>4, BeginTyped
  <1>8. /\ OddIf(where) \subseteq liberties'
        /\ set.col = "id" => "setId" \in liberties'
        /\ Doubles(wanted[t], where, set, unique) => "clash" \in liberties'
    BY <1>7 DEF lib
  <1>9. wanted' = [wanted EXCEPT ![t] = SQLUpdate(wanted[t], where, set, unique)]
    BY <1>1
  <1>10. /\ doubtful' \in [Table -> SUBSET Ids]
         /\ \A a \in Table : doubtful[a] \subseteq doubtful'[a]
         /\ set.col = "id" => set.val.v \in doubtful'[t]
    <2>1. PICK S, h : h = Mark(doubtful, t, S) /\ S = IF set.col = "id" THEN {set.val.v} ELSE {}
      OBVIOUS
    <2>2. doubtful' = h /\ S \in SUBSET Ids /\ (set.col = "id" => set.val.v \in S)
      BY <1>6, <2>1 DEF Update
    <2>3. /\ h \in [Table -> SUBSET Ids]
          /\ h[t] = doubtful[t] \cup S
          /\ \A a \in Table : doubtful[a] \subseteq h[a]
      <3>1. doubtful \in [Table -> SUBSET Ids]
        BY DEF Typed
      <3>. QED  BY <2>1, <2>2, <3>1, MarkIds
    <2>. QED  BY <2>2, <2>3
  <1>11. next = [step |-> "update", table |-> t, where |-> where, set |-> set]
    BY DEF next
  <1>. HIDE DEF unique
  <1>. QED  BY <1>3, <1>5, <1>7, <1>8, <1>9, <1>10, <1>11 DEF Updates

LEMMA UpdateTyped ==
    ASSUME Typed, NEW c \in Conn, NEW t \in Table, NEW where \in Clauses, NEW set \in Settings,
           left' \in 0 .. MaxStatements, Update(c, t, where, set)
    PROVE  Typed'
  <1>1. PICK unique \in BOOLEAN : Updates(c, t, where, set, unique)
    BY UpdateBegins
  <1>2. SQLUpdate(wanted[t], where, set, unique) \in Rows
    BY SQLUpdateTyped DEF Typed
  <1>3. wanted' \in [Table -> Rows]
    BY <1>1, <1>2, WantedOne DEF Updates
  <1>. QED  BY <1>1, <1>3 DEF Updates, Update, Typed

LEMMA DeleteBegins ==
    ASSUME Typed, NEW c \in Conn, NEW t \in Table, NEW where \in Clauses, Delete(c, t, where)
    PROVE  /\ call' \in [Conn -> Call \cup {Idle}]
           /\ cache' \in [Conn -> [Table -> Schema \cup {NoSchema}]]
           /\ call'[c] = [step |-> "delete", table |-> t, where |-> where]
           /\ call'[c] # Idle
           /\ \A d \in Conn \ {c} : call'[d] = call[d]
           /\ liberties' \subseteq Liberties
           /\ liberties \cup OddIf(where) \cup Overlap \subseteq liberties'
  <1>. DEFINE next == [step |-> "delete", table |-> t, where |-> where]
  <1>1. Begin(c, t, Known(c, t), next, OddIf(where))
    BY DEF Delete
  <1>2. Known(c, t) \in Schema
    BY KnownTyped, <1>1 DEF Begin
  <1>3. next \in Call /\ next # Idle
    <2>1. next \in Call
      BY DEF Call
    <2>. HIDE DEF next
    <2>. QED  BY <2>1, SQLConstants
  <1>. HIDE DEF next
  <1>4. /\ call' \in [Conn -> Call \cup {Idle}]
        /\ call'[c] = next
        /\ \A d \in Conn \ {c} : call'[d] = call[d]
        /\ cache' \in [Conn -> [Table -> Schema \cup {NoSchema}]]
        /\ liberties' \subseteq Liberties
        /\ liberties \cup OddIf(where) \cup Overlap \subseteq liberties'
    BY <1>1, <1>2, <1>3, BeginTyped, SmallLiberties
  <1>. QED  BY <1>3, <1>4 DEF next

LEMMA DeleteTyped ==
    ASSUME Typed, NEW c \in Conn, NEW t \in Table, NEW where \in Clauses, left' \in 0 .. MaxStatements,
           Delete(c, t, where)
    PROVE  Typed'
  <1>1. /\ call' \in [Conn -> Call \cup {Idle}]
        /\ cache' \in [Conn -> [Table -> Schema \cup {NoSchema}]]
        /\ liberties' \subseteq Liberties
    BY DeleteBegins
  <1>2. wanted' \in [Table -> Rows]
    <2>1. wanted' = [wanted EXCEPT ![t] = SQLDelete(wanted[t], where)]
      BY DEF Delete
    <2>2. SQLDelete(wanted[t], where) \in Rows
      BY SQLDeleteTyped DEF Typed
    <2>. QED  BY <2>1, <2>2, WantedOne
  <1>. QED  BY <1>1, <1>2 DEF Delete, Typed

LEMMA ChangeRowsDoes ==
    ASSUME Typed, NEW c \in Conn, call[c].table \in Table,
           NEW todo \in SUBSET (Ids \X (Row \cup {NoRow})), ChangeRows(c, todo)
    PROVE  /\ call' \in [Conn -> Call \cup {Idle}]
           /\ \/ call'[c] = Idle /\ todo = {}
              \/ /\ call'[c] = [step |-> "rows", table |-> call[c].table, todo |-> todo]
                 /\ call'[c] # Idle
           /\ \A d \in Conn \ {c} : call'[d] = call[d]
  <1>. DEFINE next == [step |-> "rows", table |-> call[c].table, todo |-> todo]
  <1>1. next \in Call /\ next # Idle
    <2>1. next \in Call
      BY DEF Call
    <2>. HIDE DEF next
    <2>. QED  BY <2>1, SQLConstants
  <1>2. CASE todo = {}
    <2>1. Then(c, Idle)
      BY <1>2 DEF ChangeRows
    <2>. QED  BY <1>2, <2>1, ThenIdle
  <1>3. CASE todo # {}
    <2>1. Then(c, next)
      BY <1>3 DEF ChangeRows
    <2>. HIDE DEF next
    <2>2. call' \in [Conn -> Call \cup {Idle}] /\ call'[c] = next /\ \A d \in Conn \ {c} : call'[d] = call[d]
      BY <1>1, <2>1, ThenOne
    <2>. QED  BY <1>1, <2>2 DEF next
  <1>. QED  BY <1>2, <1>3

\* What UpdateScan finds to change, and what the call then has to do.
UpdateScans(c, t, where, set, todo, S) ==
    /\ call[c] = [step |-> "update", table |-> t, where |-> where, set |-> set]
    /\ todo = {<<m[2].id.v, Change(m[2], set)>> : m \in Matching(t, where)}
    /\ call' \in [Conn -> Call \cup {Idle}]
    /\ \/ call'[c] = Idle /\ todo = {}
       \/ call'[c] = [step |-> "rows", table |-> t, todo |-> todo] /\ call'[c] # Idle
    /\ \A d \in Conn \ {c} : call'[d] = call[d]
    /\ doubtful' = Mark(doubtful, t, S)
    /\ S = {m[2].id.v : m \in {m \in Matching(t, where) : m[1] # t}}
    /\ liberties' \subseteq Liberties
    /\ liberties' = liberties \cup AlikeIf(t, Matching(t, where))

LEMMA UpdateScanDoes ==
    ASSUME Typed, NEW c \in Conn, UpdateScan(c)
    PROVE  \E t \in Table, where \in Clauses, set \in Settings,
              todo \in SUBSET (Ids \X (Row \cup {NoRow})), S \in SUBSET Ids :
              UpdateScans(c, t, where, set, todo, S)
  <1>1. call[c] \in [step : {"update"}, table : Table, where : Clauses, set : Settings]
    BY AtIsCall, Shapes DEF UpdateScan
  <1>2. PICK t \in Table, where \in Clauses, set \in Settings :
          call[c] = [step |-> "update", table |-> t, where |-> where, set |-> set]
    BY <1>1
  <1>3. PICK todo : todo = {<<m[2].id.v, Change(m[2], set)>> : m \in Matching(t, where)}
    OBVIOUS
  <1>4. PICK S : S = {m[2].id.v : m \in {m \in Matching(t, where) : m[1] # t}}
    OBVIOUS
  <1>5. /\ ChangeRows(c, todo)
        /\ doubtful' = Mark(doubtful, t, S)
        /\ Did(AlikeIf(t, Matching(t, where)))
    BY <1>2, <1>3, <1>4 DEF UpdateScan
  <1>6. \A m \in Matching(t, where) : m[2].id.v \in Ids /\ Change(m[2], set) \in Row
    BY MatchingRows, RowId, ChangedRow
  <1>7. todo \in SUBSET (Ids \X (Row \cup {NoRow})) /\ S \in SUBSET Ids
    BY <1>3, <1>4, <1>6
  <1>8. call[c].table = t
    BY <1>2
  <1>9. /\ call' \in [Conn -> Call \cup {Idle}]
        /\ \/ call'[c] = Idle /\ todo = {}
           \/ call'[c] = [step |-> "rows", table |-> t, todo |-> todo] /\ call'[c] # Idle
        /\ \A d \in Conn \ {c} : call'[d] = call[d]
    BY <1>5, <1>7, <1>8, ChangeRowsDoes
  <1>10. liberties' \subseteq Liberties /\ liberties' = liberties \cup AlikeIf(t, Matching(t, where))
    BY <1>5, DidTyped, SmallLiberties
  <1>. QED  BY <1>2, <1>3, <1>4, <1>5, <1>7, <1>9, <1>10 DEF UpdateScans

LEMMA UpdateScanTyped ==
    ASSUME Typed, NEW c \in Conn, UpdateScan(c)
    PROVE  Typed'
  <1>1. PICK t \in Table, where \in Clauses, set \in Settings,
             todo \in SUBSET (Ids \X (Row \cup {NoRow})), S \in SUBSET Ids :
          UpdateScans(c, t, where, set, todo, S)
    BY UpdateScanDoes
  <1>2. doubtful' \in [Table -> SUBSET Ids]
    BY <1>1, MarkIds DEF UpdateScans, Typed
  <1>. QED  BY <1>1, <1>2 DEF UpdateScans, UpdateScan, Typed

\* And DeleteScan.
DeleteScans(c, t, where, todo) ==
    /\ call[c] = [step |-> "delete", table |-> t, where |-> where]
    /\ todo = {<<m[2].id.v, NoRow>> : m \in Matching(t, where)}
    /\ call' \in [Conn -> Call \cup {Idle}]
    /\ \/ call'[c] = Idle /\ todo = {}
       \/ call'[c] = [step |-> "rows", table |-> t, todo |-> todo] /\ call'[c] # Idle
    /\ \A d \in Conn \ {c} : call'[d] = call[d]
    /\ liberties' \subseteq Liberties
    /\ liberties' = liberties \cup AlikeIf(t, Matching(t, where))

LEMMA DeleteScanDoes ==
    ASSUME Typed, NEW c \in Conn, DeleteScan(c)
    PROVE  \E t \in Table, where \in Clauses, todo \in SUBSET (Ids \X (Row \cup {NoRow})) :
              DeleteScans(c, t, where, todo)
  <1>1. call[c] \in [step : {"delete"}, table : Table, where : Clauses]
    BY AtIsCall, Shapes DEF DeleteScan
  <1>2. PICK t \in Table, where \in Clauses : call[c] = [step |-> "delete", table |-> t, where |-> where]
    BY <1>1
  <1>3. PICK todo : todo = {<<m[2].id.v, NoRow>> : m \in Matching(t, where)}
    OBVIOUS
  <1>4. ChangeRows(c, todo) /\ Did(AlikeIf(t, Matching(t, where)))
    BY <1>2, <1>3 DEF DeleteScan
  <1>5. \A m \in Matching(t, where) : m[2].id.v \in Ids
    BY MatchingRows, RowId
  <1>6. todo \in SUBSET (Ids \X (Row \cup {NoRow}))
    BY <1>3, <1>5
  <1>7. call[c].table = t
    BY <1>2
  <1>8. /\ call' \in [Conn -> Call \cup {Idle}]
        /\ \/ call'[c] = Idle /\ todo = {}
           \/ call'[c] = [step |-> "rows", table |-> t, todo |-> todo] /\ call'[c] # Idle
        /\ \A d \in Conn \ {c} : call'[d] = call[d]
    BY <1>4, <1>6, <1>7, ChangeRowsDoes
  <1>9. liberties' \subseteq Liberties /\ liberties' = liberties \cup AlikeIf(t, Matching(t, where))
    BY <1>4, DidTyped, SmallLiberties
  <1>. QED  BY <1>2, <1>3, <1>6, <1>8, <1>9 DEF DeleteScans

LEMMA DeleteScanTyped ==
    ASSUME Typed, NEW c \in Conn, DeleteScan(c)
    PROVE  Typed'
  BY DeleteScanDoes DEF DeleteScans, DeleteScan, Typed

\* A call with a row less to do.
LEMMA OneDone ==
    ASSUME Typed, NEW c \in Conn, NEW s \in {"rows", "build"}, At(c, s), NEW e,
           Then(c, IF call[c].todo = {e} THEN Idle ELSE [call[c] EXCEPT !.todo = @ \ {e}])
    PROVE  /\ call' \in [Conn -> Call \cup {Idle}]
           /\ \/ call'[c] = Idle /\ call[c].todo = {e}
              \/ /\ call'[c] \in Call /\ call'[c] # Idle
                 /\ call'[c].step = s /\ call'[c].table = call[c].table
                 /\ call'[c].todo = call[c].todo \ {e}
           /\ \A d \in Conn \ {c} : call'[d] = call[d]
  <1>1. CASE call[c].todo = {e}
    <2>1. Then(c, Idle)
      BY <1>1
    <2>. QED  BY <1>1, <2>1, ThenIdle
  <1>2. CASE call[c].todo # {e}
    <2>1. Then(c, [call[c] EXCEPT !.todo = @ \ {e}])
      BY <1>2
    <2>. QED  BY <2>1, FewerTodo, SQLConstants
  <1>. QED  BY <1>1, <1>2

\* What ChangeRow makes of an element e of its todo.
Changes(c, t, e, done) ==
    /\ At(c, "rows") /\ call[c].table = t /\ e \in call[c].todo
    /\ e[1] \in Ids /\ e[2] \in Row \cup {NoRow}
    /\ call' \in [Conn -> Call \cup {Idle}]
    /\ \/ call'[c] = Idle /\ call[c].todo = {e}
       \/ /\ call'[c] \in Call /\ call'[c] # Idle
          /\ call'[c].step = "rows" /\ call'[c].table = t
          /\ call'[c].todo = call[c].todo \ {e}
    /\ \A d \in Conn \ {c} : call'[d] = call[d]
    /\ rows' \in [Table -> Rows]
    /\ rows'[t][e[1]] = IF done THEN e[2] ELSE rows[t][e[1]]
    /\ \A a \in Table, b \in Ids : (a # t \/ b # e[1]) => rows'[a][b] = rows[a][b]
    /\ gone' \in [Table -> SUBSET Texts]
    /\ \A a \in Table : gone[a] \subseteq gone'[a]
    /\ TextOf(rows[t][e[1]]) \subseteq TextOf(rows'[t][e[1]]) \cup gone'[t]
    /\ spoilt' \in [Table -> SUBSET Texts]
    /\ \A a \in Table : spoilt[a] \subseteq spoilt'[a]
    /\ TextOf(rows'[t][e[1]]) \subseteq TextOf(rows[t][e[1]]) \cup spoilt'[t]
    /\ liberties' \subseteq Liberties
    /\ liberties' = liberties \cup Lost(done)
    /\ UNCHANGED <<schema, index, seq, cache, left, wanted, doubtful>>

LEMMA ChangeRowDoes ==
    ASSUME Typed, NEW c \in Conn, NEW done \in BOOLEAN, ChangeRow(c, done)
    PROVE  \E t \in Table : \E e : Changes(c, t, e, done)
  <1>1. PICK t : t = call[c].table
    OBVIOUS
  <1>2. PICK e \in call[c].todo :
          /\ IF done THEN /\ Write(t, e[1], e[2])
                          /\ spoilt' = Mark(spoilt, t, TextOf(e[2]) \ TextOf(rows[t][e[1]]))
             ELSE UNCHANGED <<rows, gone, spoilt>>
          /\ Then(c, IF call[c].todo = {e} THEN Idle ELSE [call[c] EXCEPT !.todo = @ \ {e}])
    BY <1>1, Zenon DEF ChangeRow
  <1>3. At(c, "rows") /\ Did(Lost(done))
    BY DEF ChangeRow
  <1>4. t \in Table /\ e[1] \in Ids /\ e[2] \in Row \cup {NoRow}
    BY <1>1, <1>3, ChangingCall
  <1>5. /\ call' \in [Conn -> Call \cup {Idle}]
        /\ \/ call'[c] = Idle /\ call[c].todo = {e}
           \/ /\ call'[c] \in Call /\ call'[c] # Idle
              /\ call'[c].step = "rows" /\ call'[c].table = t
              /\ call'[c].todo = call[c].todo \ {e}
        /\ \A d \in Conn \ {c} : call'[d] = call[d]
    BY <1>1, <1>2, <1>3, OneDone
  <1>6. liberties' \subseteq Liberties /\ liberties' = liberties \cup Lost(done)
    BY <1>3, DidTyped, SmallLiberties
  <1>7. UNCHANGED <<schema, index, seq, cache, left, wanted, doubtful>>
    BY DEF ChangeRow
  <1>8. /\ rows' \in [Table -> Rows]
        /\ rows'[t][e[1]] = IF done THEN e[2] ELSE rows[t][e[1]]
        /\ \A a \in Table, b \in Ids : (a # t \/ b # e[1]) => rows'[a][b] = rows[a][b]
        /\ gone' \in [Table -> SUBSET Texts]
        /\ \A a \in Table : gone[a] \subseteq gone'[a]
        /\ TextOf(rows[t][e[1]]) \subseteq TextOf(rows'[t][e[1]]) \cup gone'[t]
    <2>1. CASE done
      <3>1. Write(t, e[1], e[2])
        BY <1>2, <2>1
      <3>. QED  BY <1>4, <2>1, <3>1, WriteOne
    <2>2. CASE ~done
      BY <1>2, <2>2 DEF Typed
    <2>. QED  BY <2>1, <2>2
  <1>9. /\ spoilt' \in [Table -> SUBSET Texts]
        /\ \A a \in Table : spoilt[a] \subseteq spoilt'[a]
        /\ TextOf(rows'[t][e[1]]) \subseteq TextOf(rows[t][e[1]]) \cup spoilt'[t]
    <2>1. CASE done
      <3>1. PICK h, S : h = Mark(spoilt, t, S) /\ S = TextOf(e[2]) \ TextOf(rows[t][e[1]])
        OBVIOUS
      <3>2. S \in SUBSET Texts
        BY <1>4, <3>1, TextsOfRow
      <3>3. /\ h \in [Table -> SUBSET Texts]
            /\ h[t] = spoilt[t] \cup S
            /\ \A a \in Table : spoilt[a] \subseteq h[a]
        <4>1. spoilt \in [Table -> SUBSET Texts]
          BY DEF Typed
        <4>. QED  BY <1>4, <3>1, <3>2, <4>1, MarkTexts
      <3>4. spoilt' = h
        BY <1>2, <2>1, <3>1
      <3>. QED  BY <1>8, <2>1, <3>1, <3>3, <3>4
    <2>2. CASE ~done
      BY <1>2, <2>2 DEF Typed
    <2>. QED  BY <2>1, <2>2
  <1>. QED  BY <1>1, <1>3, <1>4, <1>5, <1>6, <1>7, <1>8, <1>9 DEF Changes

LEMMA ChangeRowTyped ==
    ASSUME Typed, NEW c \in Conn, NEW done \in BOOLEAN, ChangeRow(c, done)
    PROVE  Typed'
  BY ChangeRowDoes DEF Changes, Typed

LEMMA DropBegins ==
    ASSUME Typed, NEW c \in Conn, NEW t \in Table, Drop(c, t)
    PROVE  /\ call' \in [Conn -> Call \cup {Idle}]
           /\ cache' \in [Conn -> [Table -> Schema \cup {NoSchema}]]
           /\ call'[c] = [step |-> "drop", table |-> t] /\ call'[c] # Idle
           /\ \A d \in Conn \ {c} : call'[d] = call[d]
           /\ liberties' \subseteq Liberties
           /\ liberties \cup Overlap \subseteq liberties'
           /\ wanted' \in [Table -> Rows]
           /\ \A i \in Ids : wanted'[t][i] = NoRow
           /\ \A a \in Table \ {t} : wanted'[a] = wanted[a]
  <1>. DEFINE next == [step |-> "drop", table |-> t]
              empty == [i \in Ids |-> NoRow]
  <1>1. Begin(c, t, Known(c, t), next, {}) /\ wanted' = [wanted EXCEPT ![t] = empty]
    BY DEF Drop
  <1>2. Known(c, t) \in Schema
    BY KnownTyped, <1>1 DEF Begin
  <1>3. next \in Call /\ next # Idle
    <2>1. next \in Call
      BY DEF Call
    <2>. HIDE DEF next
    <2>. QED  BY <2>1, SQLConstants
  <1>4. empty \in Rows /\ \A i \in Ids : empty[i] = NoRow
    BY DEF Rows
  <1>. HIDE DEF next, empty
  <1>5. /\ call' \in [Conn -> Call \cup {Idle}]
        /\ call'[c] = next
        /\ \A d \in Conn \ {c} : call'[d] = call[d]
        /\ cache' \in [Conn -> [Table -> Schema \cup {NoSchema}]]
        /\ liberties' \subseteq Liberties
        /\ liberties \cup {} \cup Overlap \subseteq liberties'
    BY <1>1, <1>2, <1>3, BeginTyped
  <1>6. /\ wanted' \in [Table -> Rows]
        /\ wanted'[t] = empty
        /\ \A a \in Table \ {t} : wanted'[a] = wanted[a]
    BY <1>1, <1>4, WantedOne
  <1>. QED  BY <1>3, <1>4, <1>5, <1>6 DEF next

LEMMA DropTyped ==
    ASSUME Typed, NEW c \in Conn, NEW t \in Table, left' \in 0 .. MaxStatements, Drop(c, t)
    PROVE  Typed'
  BY DropBegins DEF Drop, Typed

LEMMA DropScanDoes ==
    ASSUME Typed, NEW c \in Conn, DropScan(c)
    PROVE  /\ call[c].table \in Table
           /\ call' \in [Conn -> Call \cup {Idle}]
           /\ call'[c] = [step |-> "clear", table |-> call[c].table, todo |-> Scanned(call[c].table)]
           /\ call'[c] # Idle
           /\ \A d \in Conn \ {c} : call'[d] = call[d]
           /\ liberties' \subseteq Liberties
           /\ liberties' = liberties \cup AlikeIf(call[c].table, Scanned(call[c].table))
  <1>. DEFINE next == [step |-> "clear", table |-> call[c].table, todo |-> Scanned(call[c].table)]
  <1>1. call[c].table \in Table
    BY AtIsCall DEF DropScan
  <1>2. Scanned(call[c].table) \in SUBSET (Table \X Ids)
    BY DEF Scanned
  <1>3. next \in Call
    BY <1>1, <1>2 DEF Call
  <1>4. Then(c, next) /\ Did(AlikeIf(call[c].table, Scanned(call[c].table)))
    BY DEF DropScan
  <1>. HIDE DEF next
  <1>5. /\ call' \in [Conn -> Call \cup {Idle}] /\ call'[c] = next /\ next # Idle
        /\ \A d \in Conn \ {c} : call'[d] = call[d]
    BY <1>3, <1>4, ThenOne, SQLConstants
  <1>6. /\ liberties' \subseteq Liberties
        /\ liberties' = liberties \cup AlikeIf(call[c].table, Scanned(call[c].table))
    BY <1>4, DidTyped, SmallLiberties
  <1>. QED  BY <1>1, <1>5, <1>6 DEF next

LEMMA DropScanTyped ==
    ASSUME Typed, NEW c \in Conn, DropScan(c)
    PROVE  Typed'
  BY DropScanDoes DEF DropScan, Typed

\* What ClearRow makes of an element e of its todo.
Clears(c, e) ==
    /\ At(c, "clear") /\ e \in call[c].todo
    /\ e[1] \in Table /\ e[2] \in Ids /\ e = <<e[1], e[2]>>
    /\ call' \in [Conn -> Call \cup {Idle}]
    /\ call'[c] \in Call /\ call'[c] # Idle
    /\ call'[c].step = "clear" /\ call'[c].table = call[c].table
    /\ call'[c].todo = call[c].todo \ {e}
    /\ \A d \in Conn \ {c} : call'[d] = call[d]
    /\ rows' \in [Table -> Rows]
    /\ rows'[e[1]][e[2]] = NoRow
    /\ \A a \in Table, b \in Ids : (a # e[1] \/ b # e[2]) => rows'[a][b] = rows[a][b]
    /\ gone' \in [Table -> SUBSET Texts]
    /\ \A a \in Table : gone[a] \subseteq gone'[a]
    /\ TextOf(rows[e[1]][e[2]]) \subseteq gone'[e[1]]
    /\ UNCHANGED <<schema, index, seq, cache, left, wanted, spoilt, doubtful, liberties>>

LEMMA ClearRowDoes ==
    ASSUME Typed, NEW c \in Conn, ClearRow(c)
    PROVE  \E e : Clears(c, e)
  <1>1. PICK e \in call[c].todo :
          /\ Write(e[1], e[2], NoRow)
          /\ Then(c, [call[c] EXCEPT !.todo = @ \ {e}])
    BY DEF ClearRow
  <1>2. At(c, "clear")
    BY DEF ClearRow
  <1>3. e[1] \in Table /\ e[2] \in Ids /\ e = <<e[1], e[2]>>
    BY <1>2, ClearingCall
  <1>4. /\ call' \in [Conn -> Call \cup {Idle}]
        /\ call'[c] \in Call
        /\ call'[c].step = "clear" /\ call'[c].table = call[c].table
        /\ call'[c].todo = call[c].todo \ {e}
        /\ \A d \in Conn \ {c} : call'[d] = call[d]
    BY <1>1, <1>2, FewerTodo
  <1>5. /\ rows' \in [Table -> Rows]
        /\ rows'[e[1]][e[2]] = NoRow
        /\ \A a \in Table, b \in Ids : (a # e[1] \/ b # e[2]) => rows'[a][b] = rows[a][b]
        /\ gone' \in [Table -> SUBSET Texts]
        /\ \A a \in Table : gone[a] \subseteq gone'[a]
        /\ TextOf(rows[e[1]][e[2]]) \subseteq TextOf(NoRow) \cup gone'[e[1]]
    BY <1>1, <1>3, WriteOne
  <1>6. TextOf(NoRow) = {} /\ call'[c] # Idle
    BY <1>4, SQLConstants DEF TextOf
  <1>. QED  BY <1>1, <1>2, <1>3, <1>4, <1>5, <1>6 DEF Clears, ClearRow

LEMMA ClearRowTyped ==
    ASSUME Typed, NEW c \in Conn, ClearRow(c)
    PROVE  Typed'
  BY ClearRowDoes DEF Clears, Typed

LEMMA DropSchemaDoes ==
    ASSUME Typed, NEW c \in Conn, DropSchema(c)
    PROVE  /\ call[c].table \in Table /\ call[c] # Idle
           /\ call[c].step = "clear" /\ call[c].todo = {}
           /\ call' \in [Conn -> Call \cup {Idle}]
           /\ call'[c] = [step |-> "unindex", table |-> call[c].table] /\ call'[c] # Idle
           /\ \A d \in Conn \ {c} : call'[d] = call[d]
           /\ schema' \in [Table -> Schema \cup {NoSchema}]
  <1>. DEFINE next == [step |-> "unindex", table |-> call[c].table]
  <1>1. /\ call[c].table \in Table /\ call[c] # Idle
        /\ call[c].step = "clear" /\ call[c].todo = {}
    BY AtIsCall DEF DropSchema, At
  <1>2. next \in Call
    BY <1>1 DEF Call
  <1>3. Then(c, next)
    BY DEF DropSchema
  <1>. HIDE DEF next
  <1>4. /\ call' \in [Conn -> Call \cup {Idle}] /\ call'[c] = next /\ next # Idle
        /\ \A d \in Conn \ {c} : call'[d] = call[d]
    BY <1>2, <1>3, ThenOne, SQLConstants
  <1>5. schema' \in [Table -> Schema \cup {NoSchema}]
    BY <1>1 DEF DropSchema, Typed
  <1>. QED  BY <1>1, <1>4, <1>5 DEF next

LEMMA DropSchemaTyped ==
    ASSUME Typed, NEW c \in Conn, DropSchema(c)
    PROVE  Typed'
  BY DropSchemaDoes DEF DropSchema, Typed, histories

LEMMA ScanIndexDoes ==
    ASSUME Typed, NEW c \in Conn, ScanIndex(c)
    PROVE  /\ call[c].table \in Table
           /\ call' \in [Conn -> Call \cup {Idle}]
           /\ call'[c] \in Call /\ call'[c] # Idle
           /\ call'[c].step = "forget" /\ call'[c].table = call[c].table
           /\ \A u \in index[call[c].table] : <<call[c].table, u>> \in call'[c].todo
           /\ \A d \in Conn \ {c} : call'[d] = call[d]
  <1>. DEFINE t == call[c].table
              todo == UNION {{a} \X index[a] : a \in Alike[t]}
              next == [step |-> "forget", table |-> t, todo |-> todo]
  <1>1. t \in Table
    BY AtIsCall DEF ScanIndex
  <1>2. todo \in SUBSET (Table \X Texts) /\ \A u \in index[t] : <<t, u>> \in todo
    BY <1>1, SQLConstants DEF Typed
  <1>. HIDE DEF todo
  <1>3. next \in Call /\ next.step = "forget" /\ next.table = t /\ next.todo = todo
    BY <1>1, <1>2 DEF Call
  <1>4. Then(c, next)
    BY DEF ScanIndex, todo
  <1>. HIDE DEF next
  <1>5. /\ call' \in [Conn -> Call \cup {Idle}] /\ call'[c] = next /\ next # Idle
        /\ \A d \in Conn \ {c} : call'[d] = call[d]
    BY <1>3, <1>4, ThenOne, SQLConstants
  <1>. QED  BY <1>1, <1>2, <1>3, <1>5

LEMMA ScanIndexTyped ==
    ASSUME Typed, NEW c \in Conn, ScanIndex(c)
    PROVE  Typed'
  BY ScanIndexDoes DEF ScanIndex, Typed, histories

\* What UnindexRow makes of an element e of its todo.
Unindexes(c, e) ==
    /\ At(c, "forget") /\ e \in call[c].todo
    /\ e[1] \in Table /\ e[2] \in Texts /\ e = <<e[1], e[2]>>
    /\ call' \in [Conn -> Call \cup {Idle}]
    /\ call'[c] \in Call /\ call'[c] # Idle
    /\ call'[c].step = "forget" /\ call'[c].table = call[c].table
    /\ call'[c].todo = call[c].todo \ {e}
    /\ \A d \in Conn \ {c} : call'[d] = call[d]
    /\ index' \in [Table -> SUBSET Texts]
    /\ index'[e[1]] = index[e[1]] \ {e[2]}
    /\ \A a \in Table \ {e[1]} : index'[a] = index[a]
    /\ spoilt' \in [Table -> SUBSET Texts]
    /\ \A a \in Table : spoilt[a] \subseteq spoilt'[a]
    /\ e[2] \in Held(e[1]) => e[2] \in spoilt'[e[1]]
    /\ UNCHANGED <<schema, rows, seq, cache, left, wanted, gone, doubtful, liberties>>

LEMMA UnindexRowDoes ==
    ASSUME Typed, NEW c \in Conn, UnindexRow(c)
    PROVE  \E e : Unindexes(c, e)
  <1>1. PICK e \in call[c].todo :
          /\ index' = [index EXCEPT ![e[1]] = @ \ {e[2]}]
          /\ spoilt' = Mark(spoilt, e[1], {e[2]} \cap Held(e[1]))
          /\ Then(c, [call[c] EXCEPT !.todo = @ \ {e}])
    BY DEF UnindexRow
  <1>2. At(c, "forget")
    BY DEF UnindexRow
  <1>3. e[1] \in Table /\ e[2] \in Texts /\ e = <<e[1], e[2]>>
    BY <1>2, ForgettingCall
  <1>4. /\ call' \in [Conn -> Call \cup {Idle}]
        /\ call'[c] \in Call /\ call'[c] # Idle
        /\ call'[c].step = "forget" /\ call'[c].table = call[c].table
        /\ call'[c].todo = call[c].todo \ {e}
        /\ \A d \in Conn \ {c} : call'[d] = call[d]
    BY <1>1, <1>2, FewerTodo, SQLConstants
  <1>5. /\ index' \in [Table -> SUBSET Texts]
        /\ index'[e[1]] = index[e[1]] \ {e[2]}
        /\ \A a \in Table \ {e[1]} : index'[a] = index[a]
    BY <1>1, <1>3 DEF Typed
  <1>6. PICK t, S : t = e[1] /\ S = {e[2]} \cap Held(e[1])
    OBVIOUS
  <1>7. S \in SUBSET Texts /\ t \in Table /\ spoilt' = Mark(spoilt, t, S)
    BY <1>1, <1>3, <1>6
  <1>8. /\ spoilt' \in [Table -> SUBSET Texts]
        /\ spoilt'[t] = spoilt[t] \cup S
        /\ \A a \in Table : spoilt[a] \subseteq spoilt'[a]
    BY <1>7, MarkTexts DEF Typed
  <1>. QED  BY <1>1, <1>2, <1>3, <1>4, <1>5, <1>6, <1>8 DEF Unindexes, UnindexRow

LEMMA UnindexRowTyped ==
    ASSUME Typed, NEW c \in Conn, UnindexRow(c)
    PROVE  Typed'
  BY UnindexRowDoes DEF Unindexes, Typed

LEMMA ForgetSchemaDoes ==
    ASSUME Typed, NEW c \in Conn, ForgetSchema(c)
    PROVE  /\ At(c, "forget") /\ call[c].table \in Table /\ call[c].todo = {}
           /\ cache' \in [Conn -> [Table -> Schema \cup {NoSchema}]]
           /\ call' \in [Conn -> Call \cup {Idle}]
           /\ call'[c] = Idle
           /\ \A d \in Conn \ {c} : call'[d] = call[d]
           /\ gone' \in [Table -> SUBSET Texts]
           /\ \A a \in Table \ {call[c].table} : gone'[a] = gone[a]
           /\ spoilt' \in [Table -> SUBSET Texts]
           /\ \A a \in Table : \A u \in spoilt[a] : u \in Held(a) \/ u \in Coming(a) => u \in spoilt'[a]
  <1>1. At(c, "forget") /\ call[c].table \in Table /\ call[c].todo = {}
    BY AtIsCall DEF ForgetSchema
  <1>2. cache' \in [Conn -> [Table -> Schema \cup {NoSchema}]]
    BY <1>1, CacheOne DEF ForgetSchema
  <1>3. /\ call' \in [Conn -> Call \cup {Idle}]
        /\ call'[c] = Idle
        /\ \A d \in Conn \ {c} : call'[d] = call[d]
    BY ThenIdle DEF ForgetSchema
  <1>4. PICK t, S : t = call[c].table /\ S = Held(t) \cup Coming(t)
    OBVIOUS
  <1>5. gone' = [gone EXCEPT ![t] = {}] /\ spoilt' = [spoilt EXCEPT ![t] = @ \cap S]
    BY <1>4 DEF ForgetSchema
  <1>6. /\ gone' \in [Table -> SUBSET Texts]
        /\ \A a \in Table \ {t} : gone'[a] = gone[a]
        /\ spoilt' \in [Table -> SUBSET Texts]
        /\ spoilt'[t] = spoilt[t] \cap S
        /\ \A a \in Table \ {t} : spoilt'[a] = spoilt[a]
    BY <1>1, <1>4, <1>5 DEF Typed
  <1>. QED  BY <1>1, <1>2, <1>3, <1>4, <1>6

LEMMA ForgetSchemaTyped ==
    ASSUME Typed, NEW c \in Conn, ForgetSchema(c)
    PROVE  Typed'
  BY ForgetSchemaDoes DEF ForgetSchema, Typed

LEMMA CreateIndexTyped ==
    ASSUME Typed, NEW c \in Conn, NEW t \in Table, left' \in 0 .. MaxStatements, CreateIndex(c, t)
    PROVE  /\ Typed'
           /\ call'[c] # Idle /\ call'[c].step = "alter" /\ call'[c].table = t
           /\ \A d \in Conn \ {c} : call'[d] = call[d]
           /\ liberties \cup Overlap \subseteq liberties'
  <1>. DEFINE s == [Known(c, t) EXCEPT !.indexed = TRUE]
              next == [step |-> "alter", table |-> t, schema |-> s]
  <1>1. Begin(c, t, s, next, {})
    BY DEF CreateIndex
  <1>2. Known(c, t) \in Schema
    BY KnownTyped, <1>1 DEF Begin
  <1>3. s \in Schema
    BY <1>2 DEF Schema
  <1>. HIDE DEF s
  <1>4. next \in Call /\ next.step = "alter" /\ next.table = t
    BY <1>3 DEF Call
  <1>. HIDE DEF next
  <1>5. /\ call' \in [Conn -> Call \cup {Idle}]
        /\ call'[c] = next /\ next # Idle
        /\ \A d \in Conn \ {c} : call'[d] = call[d]
        /\ cache' \in [Conn -> [Table -> Schema \cup {NoSchema}]]
        /\ liberties' \subseteq Liberties
        /\ liberties \cup {} \cup Overlap \subseteq liberties'
    BY <1>1, <1>3, <1>4, BeginTyped, SQLConstants
  <1>6. Typed'
    BY <1>5 DEF CreateIndex, Typed
  <1>. QED  BY <1>4, <1>5, <1>6

LEMMA AlterSchemaTyped ==
    ASSUME Typed, NEW c \in Conn, NEW done \in BOOLEAN, AlterSchema(c, done)
    PROVE  /\ Typed'
           /\ call'[c] = [step |-> "survey", table |-> call[c].table] /\ call'[c] # Idle
           /\ \A d \in Conn \ {c} : call'[d] = call[d]
           /\ liberties' = liberties \cup Lost(done)
  <1>. DEFINE next == [step |-> "survey", table |-> call[c].table]
  <1>1. call[c].table \in Table /\ call[c].schema \in Schema
    BY AtIsCall, Shapes DEF AlterSchema
  <1>2. next \in Call
    BY <1>1 DEF Call
  <1>3. Then(c, next) /\ Did(Lost(done))
    BY DEF AlterSchema
  <1>. HIDE DEF next
  <1>4. /\ call' \in [Conn -> Call \cup {Idle}] /\ call'[c] = next /\ next # Idle
        /\ \A d \in Conn \ {c} : call'[d] = call[d]
    BY <1>2, <1>3, ThenOne, SQLConstants
  <1>5. schema' \in [Table -> Schema \cup {NoSchema}]
    BY <1>1 DEF AlterSchema, Typed
  <1>6. liberties' \subseteq Liberties /\ liberties' = liberties \cup Lost(done)
    BY <1>3, DidTyped, SmallLiberties
  <1>7. Typed'
    BY <1>4, <1>5, <1>6 DEF AlterSchema, Typed
  <1>. QED  BY <1>4, <1>6, <1>7 DEF next

\* What BuildScan finds to index.
BuildScans(c, t, todo) ==
    /\ call[c].table = t
    /\ call' \in [Conn -> Call \cup {Idle}]
    /\ \/ call'[c] = Idle
       \/ call'[c] = [step |-> "build", table |-> t, todo |-> todo] /\ call'[c] # Idle
    /\ \A d \in Conn \ {c} : call'[d] = call[d]
    /\ gone' \in [Table -> SUBSET Texts]
    /\ \A a \in Table : gone[a] \subseteq gone'[a]
    /\ todo \subseteq Held(t) \cup gone'[t]

LEMMA BuildScanDoes ==
    ASSUME Typed, NEW c \in Conn, BuildScan(c)
    PROVE  \E t \in Table, todo \in SUBSET Texts : BuildScans(c, t, todo)
  <1>1. PICK t : t = call[c].table
    OBVIOUS
  <1>2. t \in Table
    BY <1>1, AtIsCall DEF BuildScan
  <1>3. PICK todo, S :
          /\ todo = UNION {TextOf(m[2]) : m \in Matching(t, Everything)}
          /\ S = UNION {TextOf(m[2]) : m \in {m \in Matching(t, Everything) : m[1] # t}}
    OBVIOUS
  <1>4. \A m \in Matching(t, Everything) : TextOf(m[2]) \subseteq Texts
    BY <1>2, MatchingRows, TextsOfRow
  <1>5. todo \in SUBSET Texts /\ S \in SUBSET Texts
    BY <1>3, <1>4
  <1>6. todo \subseteq Held(t) \cup S
    <2>1. ASSUME NEW u \in todo
          PROVE  u \in Held(t) \cup S
      <3>1. PICK m \in Matching(t, Everything) : u \in TextOf(m[2])
        BY <1>3, <2>1
      <3>2. CASE m[1] # t
        BY <1>3, <3>1, <3>2
      <3>3. CASE m[1] = t
        <4>1. PICK i \in Ids : m[2] = rows[t][i]
          BY <1>2, <3>3, MatchingRows
        <4>. QED  BY <1>2, <3>1, <4>1, HeldTexts
      <3>. QED  BY <3>2, <3>3
    <2>. QED  BY <2>1
  <1>. DEFINE next == [step |-> "build", table |-> t, todo |-> todo]
  <1>7. (Then(c, Idle) \/ Then(c, next)) /\ gone' = Mark(gone, t, S)
    <2>1. Then(c, IF todo = {} THEN Idle ELSE next)
      BY <1>1, <1>3 DEF BuildScan
    <2>2. gone' = Mark(gone, t, S)
      BY <1>1, <1>3 DEF BuildScan
    <2>. HIDE DEF next
    <2>. QED  BY <2>1, <2>2
  <1>8. next \in Call
    BY <1>2, <1>5 DEF Call
  <1>. HIDE DEF next
  <1>9. /\ call' \in [Conn -> Call \cup {Idle}]
        /\ call'[c] = Idle \/ (call'[c] = next /\ next # Idle)
        /\ \A d \in Conn \ {c} : call'[d] = call[d]
    BY <1>7, <1>8, ThenOne, SQLConstants
  <1>10. /\ gone' \in [Table -> SUBSET Texts]
         /\ gone'[t] = gone[t] \cup S
         /\ \A a \in Table : gone[a] \subseteq gone'[a]
    BY <1>2, <1>5, <1>7, MarkTexts DEF Typed
  <1>. QED  BY <1>1, <1>2, <1>5, <1>6, <1>9, <1>10 DEF next, BuildScans

LEMMA BuildScanTyped ==
    ASSUME Typed, NEW c \in Conn, BuildScan(c)
    PROVE  Typed'
  BY BuildScanDoes DEF BuildScans, BuildScan, Typed

LEMMA BuildRowDoes ==
    ASSUME Typed, NEW c \in Conn, NEW done \in BOOLEAN, BuildRow(c, done)
    PROVE  \E u \in Texts :
           /\ At(c, "build") /\ u \in call[c].todo /\ call[c].table \in Table
           /\ call' \in [Conn -> Call \cup {Idle}]
           /\ \/ call'[c] = Idle
              \/ /\ call'[c] \in Call /\ call'[c] # Idle
                 /\ call'[c].step = "build" /\ call'[c].table = call[c].table
                 /\ call'[c].todo = call[c].todo \ {u}
           /\ \A d \in Conn \ {c} : call'[d] = call[d]
           /\ index' \in [Table -> SUBSET Texts]
           /\ \A a \in Table : index[a] \subseteq index'[a]
           /\ \A a \in Table \ {call[c].table} : index'[a] = index[a]
           /\ index'[call[c].table] \subseteq index[call[c].table] \cup {u}
           /\ liberties' \subseteq Liberties
           /\ liberties' = liberties \cup Lost(done)
  <1>1. PICK u \in call[c].todo :
          /\ index' = Mark(index, call[c].table, IF done THEN {u} ELSE {})
          /\ Then(c, IF call[c].todo = {u} THEN Idle ELSE [call[c] EXCEPT !.todo = @ \ {u}])
    BY DEF BuildRow
  <1>2. At(c, "build") /\ Did(Lost(done))
    BY DEF BuildRow
  <1>3. call[c].table \in Table /\ u \in Texts
    BY <1>2, BuildingCall
  <1>4. /\ call' \in [Conn -> Call \cup {Idle}]
        /\ \/ call'[c] = Idle
           \/ /\ call'[c] \in Call /\ call'[c] # Idle
              /\ call'[c].step = "build" /\ call'[c].table = call[c].table
              /\ call'[c].todo = call[c].todo \ {u}
        /\ \A d \in Conn \ {c} : call'[d] = call[d]
    BY <1>1, <1>2, OneDone
  <1>5. PICK t, S : t = call[c].table /\ S = IF done THEN {u} ELSE {}
    OBVIOUS
  <1>6. index' = Mark(index, t, S) /\ t \in Table /\ S \in SUBSET Texts
    BY <1>1, <1>3, <1>5
  <1>7. /\ index' \in [Table -> SUBSET Texts]
        /\ index'[t] = index[t] \cup S
        /\ \A a \in Table \ {t} : index'[a] = index[a]
        /\ \A a \in Table : index[a] \subseteq index'[a]
    BY <1>6, MarkTexts DEF Typed
  <1>8. liberties' \subseteq Liberties /\ liberties' = liberties \cup Lost(done)
    BY <1>2, DidTyped, SmallLiberties
  <1>. QED  BY <1>1, <1>2, <1>3, <1>4, <1>5, <1>7, <1>8

LEMMA BuildRowTyped ==
    ASSUME Typed, NEW c \in Conn, NEW done \in BOOLEAN, BuildRow(c, done)
    PROVE  Typed'
  BY BuildRowDoes DEF BuildRow, Typed

LEMMA FailTyped ==
    ASSUME Typed, NEW c \in Conn, Fail(c)
    PROVE  /\ Typed'
           /\ call'[c] = Idle
           /\ \A d \in Conn \ {c} : call'[d] = call[d]
           /\ liberties' = liberties \cup {"failure"}
  <1>1. /\ call' \in [Conn -> Call \cup {Idle}] /\ call'[c] = Idle
        /\ \A d \in Conn \ {c} : call'[d] = call[d]
    BY ThenIdle DEF Fail
  <1>2. liberties' \subseteq Liberties /\ liberties' = liberties \cup {"failure"}
    BY DidTyped DEF Fail, Liberties
  <1>. QED  BY <1>1, <1>2 DEF Fail, Typed

LEMMA CrashDoes ==
    ASSUME Typed, NEW c \in Conn, Crash(c)
    PROVE  /\ Typed'
           /\ call'[c] = Idle
           /\ \A d \in Conn \ {c} : call'[d] = call[d]
           /\ \A a \in Table : spoilt[a] \subseteq spoilt'[a]
           /\ At(c, "index") => TextOf(call[c].row) \subseteq spoilt'[call[c].table]
           /\ liberties \subseteq liberties'
           /\ call[c] # Idle => "crash" \in liberties'
           /\ UNCHANGED <<schema, rows, index, seq, left, wanted, gone, doubtful>>
  <1>1. /\ call' \in [Conn -> Call \cup {Idle}] /\ call'[c] = Idle
        /\ \A d \in Conn \ {c} : call'[d] = call[d]
    BY ThenIdle DEF Crash
  <1>2. cache' \in [Conn -> [Table -> Schema \cup {NoSchema}]]
    BY DEF Crash, Typed
  <1>3. PICK S : S = IF call[c] = Idle THEN {} ELSE {"crash"}
    OBVIOUS
  <1>4. liberties' \subseteq Liberties /\ liberties' = liberties \cup S
    BY <1>3, DidTyped DEF Crash, Liberties
  <1>5. /\ spoilt' \in [Table -> SUBSET Texts]
        /\ \A a \in Table : spoilt[a] \subseteq spoilt'[a]
        /\ At(c, "index") => TextOf(call[c].row) \subseteq spoilt'[call[c].table]
    <2>1. CASE At(c, "index")
      <3>1. PICK t, u : t = call[c].table /\ u = TextOf(call[c].row)
        OBVIOUS
      <3>2. t \in Table /\ u \in SUBSET Texts
        BY <2>1, <3>1, InsertingCall
      <3>3. spoilt' = Mark(spoilt, t, u)
        BY <2>1, <3>1 DEF Crash
      <3>4. /\ spoilt' \in [Table -> SUBSET Texts]
            /\ spoilt'[t] = spoilt[t] \cup u
            /\ \A a \in Table : spoilt[a] \subseteq spoilt'[a]
        BY <3>2, <3>3, MarkTexts DEF Typed
      <3>. QED  BY <3>1, <3>4
    <2>2. CASE ~At(c, "index")
      BY <2>2 DEF Crash, Typed
    <2>. QED  BY <2>1, <2>2
  <1>6. UNCHANGED <<schema, rows, index, seq, left, wanted, gone, doubtful>>
    BY DEF Crash
  <1>7. Typed'
    BY <1>1, <1>2, <1>4, <1>5, <1>6 DEF Typed
  <1>. QED  BY <1>1, <1>3, <1>4, <1>5, <1>6, <1>7

LEMMA LeftTyped ==
    ASSUME Typed, NEW c \in Conn, Statement(c)
    PROVE  left' \in 0 .. MaxStatements
  BY SQLConstants DEF Typed, Statement

LEMMA NextTyped ==
    ASSUME Typed, [Next]_vars
    PROVE  Typed'
  <1>1. ASSUME NEW c \in Conn, Statement(c)
        PROVE  Typed'
    <2>1. ASSUME NEW t \in Table, NEW g \in Given, Insert(c, t, g[1], g[2])
          PROVE  Typed'
      <3>1. <<g[1], g[2]>> \in Given
        BY SQLConstants
      <3>. QED  BY <1>1, <2>1, <3>1, LeftTyped, InsertTyped
    <2>. QED  BY <1>1, <2>1, LeftTyped, CreateTyped, DeleteTyped, UpdateTyped, DropTyped, CreateIndexTyped
              DEF Statement
  <1>2. ASSUME NEW c \in Conn, Step(c)
        PROVE  Typed'
    BY <1>2, CreatePutTyped, ReadSeqTyped, NextIdTyped, RefuseTyped, CheckTyped, StoreRowTyped, IndexRowTyped,
       UpdateScanTyped, DeleteScanTyped, ChangeRowTyped, DropScanTyped, ClearRowTyped, DropSchemaTyped,
       ScanIndexTyped, UnindexRowTyped, ForgetSchemaTyped, AlterSchemaTyped, BuildScanTyped, BuildRowTyped
       DEF Step
  <1>3. CASE UNCHANGED vars
    BY <1>3 DEF vars, Typed
  <1>. QED  BY <1>1, <1>2, <1>3, CrashDoes, FailTyped DEF Next

LEMMA AlwaysTyped == Spec => []Typed
  BY InitTyped, NextTyped, PTL DEF Spec

\* Every row holds an id and a text or no value, a connection's call is one the
\* engine makes, and the counters stay within their bounds
\* (sql_engine.py, PneumaSQLStore).
THEOREM TypeCorrect == Spec => []TypeOK
  BY AlwaysTyped, TypedIsTypeOK, PTL

-----------------------------------------------------------------------------
(* UNIQUE *)

\* An INSERT of u into t has passed its check.
Putting(c, t, u) ==
    /\ At(c, "store") \/ At(c, "index")
    /\ call[c].table = t
    /\ u \in TextOf(call[c].row)

\* At most one row of t has u and at most one INSERT is putting it; each is there
\* for the checks to come: the INSERT of a row will put its index row, too.
Single(t, u) ==
    /\ \A i, j \in Ids : u \in TextOf(rows[t][i]) /\ u \in TextOf(rows[t][j]) => i = j
    /\ \A c, d \in Conn : Putting(c, t, u) /\ Putting(d, t, u) => c = d
    /\ \A c \in Conn : Putting(c, t, u) => /\ call[c].schema.unique
                                           /\ At(c, "store") => u \notin Held(t)
    /\ u \in Held(t) => u \in index[t] \/ \E c \in Conn : At(c, "index") /\ Putting(c, t, u)

Uniqueness == \A t \in Table : \A u \in Texts \ spoilt[t] : Single(t, u)

LEMMA UniquenessIsUniqueHeld == Typed /\ Uniqueness => UniqueHeld
  <1>1. ASSUME Typed, Uniqueness, NEW t \in Table, NEW i \in Ids, NEW j \in Ids, i # j,
               NEW u \in TextOf(rows[t][i]) \cap TextOf(rows[t][j])
        PROVE  u \in spoilt[t]
    <2>1. rows[t][i] \in Row \cup {NoRow}
      BY <1>1 DEF Typed, Rows
    <2>2. u \in Texts
      BY <1>1, <2>1, TextsOfRow
    <2>3. ~Single(t, u)
      BY <1>1 DEF Single
    <2>. QED  BY <1>1, <2>2, <2>3 DEF Uniqueness
  <1>. QED  BY <1>1 DEF UniqueHeld

LEMMA InitUniqueness == Init => Uniqueness
  <1>1. ASSUME Init, NEW t \in Table, NEW u \in Texts
        PROVE  Single(t, u)
    <2>1. \A i \in Ids : TextOf(rows[t][i]) = {}
      BY <1>1 DEF Init, TextOf
    <2>2. Held(t) = {} /\ \A c \in Conn : ~Putting(c, t, u)
      BY <1>1, <2>1 DEF Init, Held, Putting, At
    <2>. QED  BY <2>1, <2>2 DEF Single
  <1>. QED  BY <1>1 DEF Uniqueness

LEMMA SingleStays ==
    ASSUME Typed, Typed', NEW c \in Conn, NEW t \in Table, NEW u, Single(t, u),
           \A d \in Conn \ {c} : call'[d] = call[d],
           ~Putting(c, t, u)',
           ~(At(c, "index") /\ Putting(c, t, u)),
           \A i \in Ids : u \in TextOf(rows'[t][i]) => u \in TextOf(rows[t][i]),
           u \in index[t] /\ u \in Held(t) => u \in index'[t]
    PROVE  Single(t, u)'
  <1>1. \A d \in Conn : Putting(d, t, u)' => Putting(d, t, u) /\ call'[d] = call[d] /\ d # c
    BY DEF Putting, At
  <1>2. \A d \in Conn : At(d, "index") /\ Putting(d, t, u) => At(d, "index")' /\ Putting(d, t, u)'
    BY DEF Putting, At
  <1>3. /\ u \in Held(t) <=> \E i \in Ids : u \in TextOf(rows[t][i])
        /\ u \in Held(t)' <=> \E i \in Ids : u \in TextOf(rows'[t][i])
    BY HeldTexts DEF Held
  <1>4. u \in Held(t)' => u \in Held(t)
    BY <1>3
  <1>5. \A i, j \in Ids : u \in TextOf(rows'[t][i]) /\ u \in TextOf(rows'[t][j]) => i = j
    BY DEF Single
  <1>6. \A d, e \in Conn : Putting(d, t, u)' /\ Putting(e, t, u)' => d = e
    BY <1>1 DEF Single
  <1>7. \A d \in Conn : Putting(d, t, u)' => /\ call'[d].schema.unique
                                             /\ At(d, "store")' => u \notin Held(t)'
    BY <1>1, <1>4 DEF Single, At
  <1>8. u \in Held(t)' => u \in index'[t] \/ \E d \in Conn : At(d, "index")' /\ Putting(d, t, u)'
    BY <1>2, <1>4 DEF Single
  <1>. QED  BY <1>5, <1>6, <1>7, <1>8 DEF Single

\* A step that has nothing to do with it.
LEMMA AsideUniqueness ==
    ASSUME Typed, Typed', Uniqueness, NEW c \in Conn,
           \A d \in Conn \ {c} : call'[d] = call[d],
           call'[c] = Idle \/ call'[c].step \notin {"store", "index"},
           call[c] = Idle \/ call[c].step # "index",
           rows' = rows,
           \A a \in Table : index[a] \subseteq index'[a],
           \A a \in Table : spoilt[a] \subseteq spoilt'[a]
    PROVE  Uniqueness'
  <1>1. ASSUME NEW t \in Table, NEW u \in Texts, u \notin spoilt'[t]
        PROVE  Single(t, u)'
    <2>1. Single(t, u)
      BY <1>1 DEF Uniqueness
    <2>2. ~Putting(c, t, u)' /\ ~(At(c, "index") /\ Putting(c, t, u))
      BY DEF Putting, At
    <2>3. \A i \in Ids : u \in TextOf(rows'[t][i]) => u \in TextOf(rows[t][i])
      OBVIOUS
    <2>4. u \in index[t] /\ u \in Held(t) => u \in index'[t]
      OBVIOUS
    <2>. QED  BY <2>1, <2>2, <2>3, <2>4, SingleStays
  <1>. QED  BY <1>1 DEF Uniqueness

LEMMA StatementUniqueness ==
    ASSUME Typed, Typed', Uniqueness, NEW c \in Conn, Statement(c)
    PROVE  Uniqueness'
  <1>0. call[c] = Idle
    BY DEF Statement
  <1>1. ASSUME NEW t \in Table, NEW s \in Schemas, Create(c, t, s)
        PROVE  Uniqueness'
    <2>1. /\ call'[c].step = "create"
          /\ \A d \in Conn \ {c} : call'[d] = call[d]
      BY <1>1 DEF Create, Then, Typed
    <2>2. rows' = rows /\ index' = index /\ spoilt' = spoilt
      BY <1>1 DEF Create
    <2>. QED  BY <1>0, <2>1, <2>2, AsideUniqueness
  <1>2. ASSUME NEW t \in Table, NEW g \in Given, Insert(c, t, g[1], g[2])
        PROVE  Uniqueness'
    <2>1. <<g[1], g[2]>> \in Given
      BY SQLConstants
    <2>2. /\ call'[c].step \in {"number", "check"}
          /\ \A d \in Conn \ {c} : call'[d] = call[d]
      BY <1>2, <2>1, InsertBegins
    <2>3. rows' = rows /\ index' = index /\ spoilt' = spoilt
      BY <1>2 DEF Insert
    <2>. QED  BY <1>0, <2>2, <2>3, AsideUniqueness
  <1>3. ASSUME NEW t \in Table, NEW where \in Clauses, Delete(c, t, where)
        PROVE  Uniqueness'
    <2>1. /\ call'[c] = [step |-> "delete", table |-> t, where |-> where]
          /\ \A d \in Conn \ {c} : call'[d] = call[d]
      BY <1>3, DeleteBegins
    <2>3. call'[c].step = "delete"
      BY <2>1
    <2>2. rows' = rows /\ index' = index /\ spoilt' = spoilt
      BY <1>3 DEF Delete
    <2>. QED  BY <1>0, <2>1, <2>2, <2>3, AsideUniqueness
  <1>4. ASSUME NEW t \in Table, NEW where \in Clauses, NEW set \in Settings, Update(c, t, where, set)
        PROVE  Uniqueness'
    <2>1. /\ call'[c] = [step |-> "update", table |-> t, where |-> where, set |-> set]
          /\ \A d \in Conn \ {c} : call'[d] = call[d]
      BY <1>4, UpdateBegins DEF Updates
    <2>3. call'[c].step = "update"
      BY <2>1
    <2>2. rows' = rows /\ index' = index /\ spoilt' = spoilt
      BY <1>4 DEF Update
    <2>. QED  BY <1>0, <2>1, <2>2, <2>3, AsideUniqueness
  <1>5. ASSUME NEW t \in Table, Drop(c, t)
        PROVE  Uniqueness'
    <2>1. /\ call'[c] = [step |-> "drop", table |-> t]
          /\ \A d \in Conn \ {c} : call'[d] = call[d]
      BY <1>5, DropBegins
    <2>3. call'[c].step = "drop"
      BY <2>1
    <2>2. rows' = rows /\ index' = index /\ spoilt' = spoilt
      BY <1>5 DEF Drop
    <2>. QED  BY <1>0, <2>1, <2>2, <2>3, AsideUniqueness
  <1>6. ASSUME NEW t \in Table, CreateIndex(c, t)
        PROVE  Uniqueness'
    <2>1. /\ call'[c].step = "alter"
          /\ \A d \in Conn \ {c} : call'[d] = call[d]
      BY <1>6, LeftTyped, CreateIndexTyped
    <2>2. rows' = rows /\ index' = index /\ spoilt' = spoilt
      BY <1>6 DEF CreateIndex
    <2>. QED  BY <1>0, <2>1, <2>2, AsideUniqueness
  <1>. QED  BY <1>1, <1>2, <1>3, <1>4, <1>5, <1>6 DEF Statement

LEMMA CheckUniqueness ==
    ASSUME Typed, Typed', Uniqueness, NEW c \in Conn, Check(c)
    PROVE  Uniqueness'
  <1>. DEFINE k == call[c]
  <1>1. At(c, "check") /\ (Checked(c) => k.row.u \notin index[k.table]) /\ rows' = rows /\ index' = index
    BY DEF Check
  <1>2. /\ k.row \in Row /\ k.table \in Table
        /\ call'[c] \in Call
        /\ call'[c].step = "store" /\ call'[c].table = k.table /\ call'[c].schema = k.schema
        /\ call'[c].row = k.row
        /\ \A d \in Conn \ {c} : call'[d] = call[d]
        /\ \A a \in Table : spoilt[a] \subseteq spoilt'[a]
        /\ \A u \in TextOf(k.row) : ~k.schema.unique \/ u \in Coming(k.table) => u \in spoilt'[k.table]
    BY <1>1, InsertingCall, CheckDoes
  <1>3. ASSUME NEW t \in Table, NEW u \in Texts, u \notin spoilt'[t]
        PROVE  Single(t, u)'
    <2>1. Single(t, u)
      BY <1>2, <1>3 DEF Uniqueness
    <2>2. CASE t = k.table /\ u \in TextOf(k.row)
      <3>1. k.schema.unique /\ \A d \in Conn : ~Putting(d, t, u)
        BY <1>2, <1>3, <2>2, ComingTexts DEF Putting
      <3>2. u \notin index[t]
        BY <1>1, <1>2, <2>2, <3>1, TextOfRow DEF Checked
      <3>3. u \notin Held(t)
        BY <2>1, <3>1, <3>2 DEF Single
      <3>4. Held(t)' = Held(t)
        BY <1>1 DEF Held
      <3>5. \A d \in Conn : Putting(d, t, u)' => d = c
        BY <1>2, <3>1 DEF Putting, At
      <3>6. \A i, j \in Ids : u \in TextOf(rows'[t][i]) /\ u \in TextOf(rows'[t][j]) => i = j
        BY <1>1, <2>1 DEF Single
      <3>. QED  BY <1>2, <3>1, <3>3, <3>4, <3>5, <3>6 DEF Single
    <2>3. CASE ~(t = k.table /\ u \in TextOf(k.row))
      <3>1. ~Putting(c, t, u)' /\ ~(At(c, "index") /\ Putting(c, t, u))
        BY <1>1, <1>2, <2>3 DEF Putting, At
      <3>2. \A i \in Ids : u \in TextOf(rows'[t][i]) => u \in TextOf(rows[t][i])
        BY <1>1
      <3>3. u \in index[t] /\ u \in Held(t) => u \in index'[t]
        BY <1>1
      <3>. QED  BY <1>2, <2>1, <3>1, <3>2, <3>3, SingleStays
    <2>. QED  BY <2>2, <2>3
  <1>. QED  BY <1>3 DEF Uniqueness

LEMMA StoreRowUniqueness ==
    ASSUME Typed, Typed', Uniqueness, NEW c \in Conn, NEW done \in BOOLEAN, StoreRow(c, done)
    PROVE  Uniqueness'
  <1>1. PICK k, i : k = call[c] /\ i = k.row.id.v
    OBVIOUS
  <1>2. /\ At(c, "store") /\ spoilt' = spoilt /\ index' = index
        /\ k.table \in Table /\ i \in Ids /\ k.row \in Row
    BY <1>1, InsertingCall DEF StoreRow
  <1>3. /\ call'[c] \in Call
        /\ call'[c].step = "index" /\ call'[c].table = k.table /\ call'[c].schema = k.schema
        /\ call'[c].row = k.row
        /\ \A d \in Conn \ {c} : call'[d] = call[d]
        /\ \A a \in Table, b \in Ids : (a # k.table \/ b # i) => rows'[a][b] = rows[a][b]
        /\ rows'[k.table][i] \in {k.row, rows[k.table][i]}
    BY <1>1, StoreRowDoes
  <1>4. ASSUME NEW t \in Table, NEW u \in Texts, u \notin spoilt'[t]
        PROVE  Single(t, u)'
    <2>1. Single(t, u)
      BY <1>2, <1>4 DEF Uniqueness
    <2>2. CASE t = k.table /\ u \in TextOf(k.row)
      <3>1. Putting(c, t, u)
        BY <1>1, <1>2, <2>2 DEF Putting
      <3>2. /\ k.schema.unique /\ \A d \in Conn : Putting(d, t, u) => d = c
            /\ \A b \in Ids : u \notin TextOf(rows[t][b])
        BY <1>1, <1>2, <2>1, <3>1, HeldTexts DEF Single
      <3>3. \A b \in Ids : u \in TextOf(rows'[t][b]) => b = i
        BY <1>3, <2>2, <3>2
      <3>4. Putting(c, t, u)' /\ At(c, "index")' /\ call'[c].schema.unique
        BY <1>3, <2>2, <3>2, SQLConstants DEF Putting, At
      <3>5. \A d \in Conn : Putting(d, t, u)' => d = c
        BY <1>3, <3>2 DEF Putting, At
      <3>6. ~At(c, "store")'
        BY <1>3 DEF At
      <3>. QED  BY <3>3, <3>4, <3>5, <3>6 DEF Single
    <2>3. CASE ~(t = k.table /\ u \in TextOf(k.row))
      <3>1. ~Putting(c, t, u)' /\ ~(At(c, "index") /\ Putting(c, t, u))
        BY <1>1, <1>2, <1>3, <2>3 DEF Putting, At
      <3>2. \A b \in Ids : u \in TextOf(rows'[t][b]) => u \in TextOf(rows[t][b])
        BY <1>3, <2>3
      <3>3. u \in index[t] /\ u \in Held(t) => u \in index'[t]
        BY <1>2
      <3>. QED  BY <1>3, <2>1, <3>1, <3>2, <3>3, SingleStays
    <2>. QED  BY <2>2, <2>3
  <1>. QED  BY <1>4 DEF Uniqueness

LEMMA IndexRowUniqueness ==
    ASSUME Typed, Typed', Uniqueness, NEW c \in Conn, NEW done \in BOOLEAN, IndexRow(c, done)
    PROVE  Uniqueness'
  <1>1. PICK k : k = call[c]
    OBVIOUS
  <1>2. At(c, "index") /\ rows' = rows
    BY DEF IndexRow
  <1>3. /\ call'[c] = Idle
        /\ \A d \in Conn \ {c} : call'[d] = call[d]
        /\ \A a \in Table : index[a] \subseteq index'[a]
        /\ \A a \in Table : spoilt[a] \subseteq spoilt'[a]
        /\ k.schema.unique => TextOf(k.row) \subseteq index'[k.table] \cup spoilt'[k.table]
    BY <1>1, IndexRowDoes
  <1>4. ASSUME NEW t \in Table, NEW u \in Texts, u \notin spoilt'[t]
        PROVE  Single(t, u)'
    <2>1. Single(t, u)
      BY <1>3, <1>4 DEF Uniqueness
    <2>2. CASE Putting(c, t, u)
      <3>1. k.schema.unique /\ \A d \in Conn : Putting(d, t, u) => d = c
        BY <1>1, <2>1, <2>2 DEF Single
      <3>2. u \in index'[t]
        BY <1>1, <1>3, <1>4, <2>2, <3>1 DEF Putting
      <3>3. \A d \in Conn : ~Putting(d, t, u)'
        BY <1>3, <3>1 DEF Putting, At
      <3>4. \A i, j \in Ids : u \in TextOf(rows'[t][i]) /\ u \in TextOf(rows'[t][j]) => i = j
        BY <1>2, <2>1 DEF Single
      <3>. QED  BY <3>2, <3>3, <3>4 DEF Single
    <2>3. CASE ~Putting(c, t, u)
      <3>1. ~Putting(c, t, u)'
        BY <1>3 DEF Putting, At
      <3>2. \A b \in Ids : u \in TextOf(rows'[t][b]) => u \in TextOf(rows[t][b])
        BY <1>2
      <3>3. u \in index[t] /\ u \in Held(t) => u \in index'[t]
        BY <1>3
      <3>. QED  BY <1>3, <2>1, <2>3, <3>1, <3>2, <3>3, SingleStays
    <2>. QED  BY <2>2, <2>3
  <1>. QED  BY <1>4 DEF Uniqueness

LEMMA ChangeRowUniqueness ==
    ASSUME Typed, Typed', Uniqueness, NEW c \in Conn, NEW done \in BOOLEAN, ChangeRow(c, done)
    PROVE  Uniqueness'
  <1>0. PICK t \in Table : \E e : Changes(c, t, e, done)
    BY ChangeRowDoes
  <1>1. PICK e : Changes(c, t, e, done)
    BY <1>0
  <1>2. ASSUME NEW a \in Table, NEW u \in Texts, u \notin spoilt'[a]
        PROVE  Single(a, u)'
    <2>1. Single(a, u)
      BY <1>1, <1>2 DEF Uniqueness, Changes
    <2>2. \A b \in Ids : u \in TextOf(rows'[a][b]) => u \in TextOf(rows[a][b])
      <3>1. (a = t /\ u \in TextOf(rows'[t][e[1]])) => u \in TextOf(rows[t][e[1]])
        BY <1>1, <1>2 DEF Changes
      <3>. QED  BY <1>1, <3>1 DEF Changes
    <2>3. ~Putting(c, a, u)' /\ ~(At(c, "index") /\ Putting(c, a, u))
      BY <1>1 DEF Changes, Putting, At
    <2>4. index' = index /\ \A d \in Conn \ {c} : call'[d] = call[d]
      BY <1>1 DEF Changes
    <2>. QED  BY <2>1, <2>2, <2>3, <2>4, SingleStays
  <1>. QED  BY <1>2 DEF Uniqueness

LEMMA ClearRowUniqueness ==
    ASSUME Typed, Typed', Uniqueness, NEW c \in Conn, ClearRow(c)
    PROVE  Uniqueness'
  <1>1. PICK e : Clears(c, e)
    BY ClearRowDoes
  <1>2. ASSUME NEW a \in Table, NEW u \in Texts, u \notin spoilt'[a]
        PROVE  Single(a, u)'
    <2>1. Single(a, u)
      BY <1>1, <1>2 DEF Uniqueness, Clears
    <2>2. \A b \in Ids : u \in TextOf(rows'[a][b]) => u \in TextOf(rows[a][b])
      <3>1. TextOf(NoRow) = {}
        BY DEF TextOf
      <3>. QED  BY <1>1, <3>1 DEF Clears
    <2>3. ~Putting(c, a, u)' /\ ~(At(c, "index") /\ Putting(c, a, u))
      BY <1>1 DEF Clears, Putting, At
    <2>4. index' = index /\ \A d \in Conn \ {c} : call'[d] = call[d]
      BY <1>1 DEF Clears
    <2>. QED  BY <2>1, <2>2, <2>3, <2>4, SingleStays
  <1>. QED  BY <1>2 DEF Uniqueness

LEMMA UnindexRowUniqueness ==
    ASSUME Typed, Typed', Uniqueness, NEW c \in Conn, UnindexRow(c)
    PROVE  Uniqueness'
  <1>1. PICK e : Unindexes(c, e)
    BY UnindexRowDoes
  <1>2. ASSUME NEW a \in Table, NEW u \in Texts, u \notin spoilt'[a]
        PROVE  Single(a, u)'
    <2>1. Single(a, u)
      BY <1>1, <1>2 DEF Uniqueness, Unindexes
    <2>2. \A b \in Ids : u \in TextOf(rows'[a][b]) => u \in TextOf(rows[a][b])
      BY <1>1 DEF Unindexes
    <2>3. ~Putting(c, a, u)' /\ ~(At(c, "index") /\ Putting(c, a, u))
      BY <1>1 DEF Unindexes, Putting, At
    <2>4. \A d \in Conn \ {c} : call'[d] = call[d]
      BY <1>1 DEF Unindexes
    <2>5. u \in index[a] /\ u \in Held(a) => u \in index'[a]
      BY <1>1, <1>2 DEF Unindexes
    <2>. QED  BY <2>1, <2>2, <2>3, <2>4, <2>5, SingleStays
  <1>. QED  BY <1>2 DEF Uniqueness

\* A text that no row has and no INSERT is putting may be forgotten.
LEMMA ForgetSchemaUniqueness ==
    ASSUME Typed, Typed', Uniqueness, NEW c \in Conn, ForgetSchema(c)
    PROVE  Uniqueness'
  <1>1. /\ At(c, "forget") /\ call'[c] = Idle
        /\ \A d \in Conn \ {c} : call'[d] = call[d]
        /\ \A a \in Table : \A u \in spoilt[a] : u \in Held(a) \/ u \in Coming(a) => u \in spoilt'[a]
    BY ForgetSchemaDoes
  <1>2. rows' = rows /\ index' = index
    BY DEF ForgetSchema
  <1>3. ASSUME NEW a \in Table, NEW u \in Texts, u \notin spoilt'[a]
        PROVE  Single(a, u)'
    <2>1. Single(a, u)
      <3>1. CASE u \in spoilt[a]
        <4>1. u \notin Held(a) /\ u \notin Coming(a)
          BY <1>1, <1>3, <3>1
        <4>2. \A i \in Ids : u \notin TextOf(rows[a][i])
          BY <4>1, HeldTexts
        <4>3. \A d \in Conn : ~Putting(d, a, u)
          BY <4>1, ComingTexts DEF Putting
        <4>. QED  BY <4>1, <4>2, <4>3 DEF Single
      <3>2. CASE u \notin spoilt[a]
        BY <3>2 DEF Uniqueness
      <3>. QED  BY <3>1, <3>2
    <2>2. \A b \in Ids : u \in TextOf(rows'[a][b]) => u \in TextOf(rows[a][b])
      BY <1>2
    <2>3. ~Putting(c, a, u)' /\ ~(At(c, "index") /\ Putting(c, a, u))
      BY <1>1 DEF Putting, At
    <2>4. u \in index[a] /\ u \in Held(a) => u \in index'[a]
      BY <1>2
    <2>. QED  BY <1>1, <2>1, <2>2, <2>3, <2>4, SingleStays
  <1>. QED  BY <1>3 DEF Uniqueness

LEMMA CrashUniqueness ==
    ASSUME Typed, Typed', Uniqueness, NEW c \in Conn, Crash(c)
    PROVE  Uniqueness'
  <1>1. /\ call'[c] = Idle
        /\ \A d \in Conn \ {c} : call'[d] = call[d]
        /\ \A a \in Table : spoilt[a] \subseteq spoilt'[a]
        /\ At(c, "index") => TextOf(call[c].row) \subseteq spoilt'[call[c].table]
        /\ UNCHANGED <<schema, rows, index, seq, left, wanted, gone, doubtful>>
    BY CrashDoes
  <1>2. ASSUME NEW a \in Table, NEW u \in Texts, u \notin spoilt'[a]
        PROVE  Single(a, u)'
    <2>1. Single(a, u)
      BY <1>1, <1>2 DEF Uniqueness
    <2>2. \A b \in Ids : u \in TextOf(rows'[a][b]) => u \in TextOf(rows[a][b])
      BY <1>1
    <2>3. ~Putting(c, a, u)' /\ ~(At(c, "index") /\ Putting(c, a, u))
      BY <1>1, <1>2 DEF Putting, At
    <2>4. u \in index[a] /\ u \in Held(a) => u \in index'[a]
      BY <1>1
    <2>. QED  BY <1>1, <2>1, <2>2, <2>3, <2>4, SingleStays
  <1>. QED  BY <1>2 DEF Uniqueness

\* The other steps.
LEMMA OtherUniqueness ==
    ASSUME Typed, Typed', Uniqueness, NEW c \in Conn, NEW done \in BOOLEAN,
           \/ CreatePut(c, done) \/ ReadSeq(c) \/ NextId(c) \/ Refuse(c)
           \/ UpdateScan(c) \/ DeleteScan(c) \/ DropScan(c) \/ DropSchema(c) \/ ScanIndex(c)
           \/ AlterSchema(c, done) \/ BuildScan(c) \/ BuildRow(c, done) \/ Fail(c)
    PROVE  Uniqueness'
  <1>1. /\ rows' = rows /\ spoilt' = spoilt
        /\ call[c] = Idle \/ call[c].step # "index"
    <2>1. CASE Fail(c)
      BY <2>1 DEF Fail, Raises, At
    <2>2. CASE NextId(c)
      BY <2>2 DEF NextId, At
    <2>. QED  BY <2>1, <2>2 DEF CreatePut, ReadSeq, Refuse, UpdateScan, DeleteScan, DropScan, DropSchema,
                 ScanIndex, AlterSchema, BuildScan, BuildRow, At, histories
  <1>2. \A a \in Table : index[a] \subseteq index'[a]
    <2>1. CASE BuildRow(c, done)
      BY <2>1, BuildRowDoes
    <2>2. CASE NextId(c)
      BY <2>2 DEF NextId
    <2>. QED  BY <2>1, <2>2 DEF CreatePut, ReadSeq, Refuse, UpdateScan, DeleteScan, DropScan, DropSchema,
                 ScanIndex, AlterSchema, BuildScan, Fail
  <1>3. /\ call'[c] = Idle \/ call'[c].step \notin {"store", "index"}
        /\ \A d \in Conn \ {c} : call'[d] = call[d]
    <2>1. CASE CreatePut(c, done) \/ Refuse(c) \/ Fail(c)
      <3>1. Then(c, Idle)
        BY <2>1 DEF CreatePut, Refuse, Fail
      <3>. QED  BY <3>1, ThenIdle
    <2>2. CASE ReadSeq(c)
      BY <2>2, ReadSeqDoes
    <2>3. CASE NextId(c)
      BY <2>3, NextIdDoes DEF Draws
    <2>4. CASE UpdateScan(c)
      <3>1. PICK t, where, set, todo, S : UpdateScans(c, t, where, set, todo, S)
        BY <2>4, UpdateScanDoes
      <3>. QED  BY <3>1 DEF UpdateScans
    <2>5. CASE DeleteScan(c)
      <3>1. PICK t, where, todo : DeleteScans(c, t, where, todo)
        BY <2>5, DeleteScanDoes
      <3>. QED  BY <3>1 DEF DeleteScans
    <2>6. CASE DropScan(c)
      <3>1. /\ call'[c] = [step |-> "clear", table |-> call[c].table, todo |-> Scanned(call[c].table)]
            /\ \A d \in Conn \ {c} : call'[d] = call[d]
        BY <2>6, DropScanDoes
      <3>. QED  BY <3>1
    <2>7. CASE DropSchema(c)
      <3>1. /\ call'[c] = [step |-> "unindex", table |-> call[c].table]
            /\ \A d \in Conn \ {c} : call'[d] = call[d]
        BY <2>7, DropSchemaDoes
      <3>. QED  BY <3>1
    <2>8. CASE ScanIndex(c)
      BY <2>8, ScanIndexDoes
    <2>9. CASE AlterSchema(c, done)
      <3>1. /\ call'[c] = [step |-> "survey", table |-> call[c].table]
            /\ \A d \in Conn \ {c} : call'[d] = call[d]
        BY <2>9, AlterSchemaTyped
      <3>. QED  BY <3>1
    <2>10. CASE BuildScan(c)
      <3>1. PICK t, todo : BuildScans(c, t, todo)
        BY <2>10, BuildScanDoes
      <3>. QED  BY <3>1 DEF BuildScans
    <2>11. CASE BuildRow(c, done)
      BY <2>11, BuildRowDoes
    <2>. QED  BY <2>1, <2>2, <2>3, <2>4, <2>5, <2>6, <2>7, <2>8, <2>9, <2>10, <2>11
  <1>. QED  BY <1>1, <1>2, <1>3, AsideUniqueness

LEMMA NextUniqueness ==
    ASSUME Typed, Typed', Uniqueness, [Next]_vars
    PROVE  Uniqueness'
  <1>1. ASSUME NEW c \in Conn, Step(c)
        PROVE  Uniqueness'
    <2>1. TRUE \in BOOLEAN
      OBVIOUS
    <2>. QED  BY <1>1, <2>1, CheckUniqueness, StoreRowUniqueness, IndexRowUniqueness, ChangeRowUniqueness,
              ClearRowUniqueness, UnindexRowUniqueness, ForgetSchemaUniqueness, OtherUniqueness DEF Step
  <1>2. CASE UNCHANGED vars
    BY <1>2 DEF vars, Uniqueness, Single, Putting, Held, At
  <1>3. ASSUME NEW c \in Conn, Fail(c)
        PROVE  Uniqueness'
    <2>1. TRUE \in BOOLEAN
      OBVIOUS
    <2>. QED  BY <1>3, <2>1, OtherUniqueness
  <1>. QED  BY <1>1, <1>2, <1>3, StatementUniqueness, CrashUniqueness DEF Next

LEMMA AlwaysUniqueness == Spec => [](Typed /\ Uniqueness)
  <1>1. Init => Typed /\ Uniqueness
    BY InitTyped, InitUniqueness
  <1>2. Typed /\ Uniqueness /\ [Next]_vars => (Typed /\ Uniqueness)'
    BY NextTyped, NextUniqueness
  <1>. QED  BY <1>1, <1>2, PTL DEF Spec

\* No text is in two rows of a table unless one of the causes that spoil it is
\* there, whatever statements overlap, fail or die (sql_engine.py:602-628).
THEOREM UniqueColumns == Spec => []UniqueHeld
  BY AlwaysUniqueness, UniquenessIsUniqueHeld, PTL

-----------------------------------------------------------------------------
(* What UNIQUE refuses *)

LEMMA LibertiesGrow ==
    ASSUME Typed, Next
    PROVE  liberties \subseteq liberties'
  <1>1. ASSUME NEW S, Did(S)
        PROVE  liberties \subseteq liberties'
    BY <1>1 DEF Did
  <1>2. ASSUME NEW c \in Conn, Statement(c)
        PROVE  liberties \subseteq liberties'
    <2>1. ASSUME NEW t, NEW s, NEW next, NEW lib, Begin(c, t, s, next, lib)
          PROVE  liberties \subseteq liberties'
      BY <1>1, <2>1 DEF Begin
    <2>2. ASSUME NEW t, NEW s, Create(c, t, s)
          PROVE  liberties \subseteq liberties'
      BY <1>1, <2>2 DEF Create
    <2>3. ASSUME NEW t, NEW g, Insert(c, t, g[1], g[2])
          PROVE  liberties \subseteq liberties'
      BY <2>1, <2>3 DEF Insert
    <2>4. ASSUME NEW t, NEW where, NEW set, Delete(c, t, where) \/ Update(c, t, where, set)
          PROVE  liberties \subseteq liberties'
      <3>1. CASE Delete(c, t, where)
        BY <2>1, <3>1 DEF Delete
      <3>2. CASE Update(c, t, where, set)
        BY <2>1, <3>2 DEF Update
      <3>. QED  BY <2>4, <3>1, <3>2
    <2>5. ASSUME NEW t, Drop(c, t) \/ CreateIndex(c, t)
          PROVE  liberties \subseteq liberties'
      BY <2>1, <2>5 DEF Drop, CreateIndex
    <2>6. ASSUME NEW t, NEW where, Delete(c, t, where)
          PROVE  liberties \subseteq liberties'
      BY <2>1, <2>6 DEF Delete
    <2>. QED  BY <1>2, <2>2, <2>3, <2>4, <2>5, <2>6 DEF Statement
  <1>3. ASSUME NEW c \in Conn, Step(c)
        PROVE  liberties \subseteq liberties'
    <2>1. CASE \E done \in BOOLEAN : \/ CreatePut(c, done) \/ StoreRow(c, done) \/ IndexRow(c, done)
                                     \/ ChangeRow(c, done) \/ AlterSchema(c, done) \/ BuildRow(c, done)
      BY <1>1, <2>1 DEF CreatePut, StoreRow, IndexRow, ChangeRow, AlterSchema, BuildRow
    <2>2. CASE Refuse(c) \/ Check(c) \/ UpdateScan(c) \/ DeleteScan(c) \/ DropScan(c)
      BY <1>1, <2>2 DEF Refuse, Check, Judge, UpdateScan, DeleteScan, DropScan
    <2>3. CASE \/ ReadSeq(c) \/ NextId(c) \/ ClearRow(c) \/ DropSchema(c) \/ ScanIndex(c) \/ UnindexRow(c)
               \/ ForgetSchema(c) \/ BuildScan(c)
      <3>1. liberties' = liberties
        BY <2>3 DEF ReadSeq, NextId, ClearRow, DropSchema, ScanIndex, UnindexRow, ForgetSchema, BuildScan,
                    histories
      <3>. QED  BY <3>1
    <2>. QED  BY <1>3, <2>1, <2>2, <2>3 DEF Step
  <1>4. ASSUME NEW c \in Conn, Fail(c) \/ Crash(c)
        PROVE  liberties \subseteq liberties'
    BY <1>1, <1>4 DEF Fail, Crash
  <1>. QED  BY <1>2, <1>3, <1>4 DEF Next

\* One statement runs at a time.
Alone == \A c, d \in Conn : call[c] # Idle /\ call[d] # Idle => c = d

\* The texts that may have an index row in t.
Accounted(t) == Held(t) \cup gone[t]

\* The index rows a call is about to write are accounted for, and when it drops
\* the table those it has not found by now are not there.
Excused(c) ==
    /\ At(c, "index") => TextOf(call[c].row) \subseteq Accounted(call[c].table)
    /\ At(c, "build") => call[c].todo \subseteq Accounted(call[c].table)
    /\ At(c, "forget") => \A u \in index[call[c].table] : <<call[c].table, u>> \in call[c].todo

Causes ==
    /\ Alone
    /\ \A t \in Table : index[t] \subseteq Accounted(t)
    /\ \A c \in Conn : Excused(c)

Accounting == Without({"overlap"}) => Causes

LEMMA AccountingIsRefusedForCause == Accounting => RefusedForCause
  BY DEF Accounting, Causes, Accounted, RefusedForCause

LEMMA InitAccounting == Init => Accounting
  BY DEF Init, Accounting, Causes, Alone, Excused, At

\* What is accounted for stays so.
LEMMA AccountedStays ==
    ASSUME Typed, NEW t \in Table,
           gone[t] \subseteq gone'[t],
           \A i \in Ids : TextOf(rows[t][i]) \subseteq TextOf(rows'[t][i]) \cup gone'[t]
    PROVE  Accounted(t) \subseteq Accounted(t)'
  <1>1. ASSUME NEW u \in Held(t)
        PROVE  u \in Accounted(t)'
    <2>1. PICK i \in Ids : u \in TextOf(rows[t][i])
      BY <1>1, HeldTexts
    <2>. QED  BY <2>1 DEF Accounted, Held
  <1>. QED  BY <1>1 DEF Accounted

\* The step of the one call under way.
LEMMA CausesAfter ==
    ASSUME Causes, NEW c \in Conn, call[c] # Idle \/ Quiet,
           \A d \in Conn \ {c} : call'[d] = call[d],
           \A t \in Table : index'[t] \subseteq Accounted(t)',
           Excused(c)'
    PROVE  Causes'
  <1>1. \A d \in Conn \ {c} : call'[d] = Idle
    BY DEF Causes, Alone, Quiet
  <1>2. Alone'
    BY <1>1 DEF Alone
  <1>3. \A d \in Conn : Excused(d)'
    BY <1>1 DEF Excused, At
  <1>. QED  BY <1>2, <1>3 DEF Causes

\* One that writes neither rows nor index rows.
LEMMA AsideCauses ==
    ASSUME Typed, Causes, NEW c \in Conn, call[c] # Idle \/ Quiet,
           \A d \in Conn \ {c} : call'[d] = call[d],
           call'[c] = Idle \/ call'[c].step \notin {"index", "build", "forget"},
           rows' = rows, index' = index, \A t \in Table : gone[t] \subseteq gone'[t]
    PROVE  Causes'
  <1>1. \A t \in Table : Accounted(t) \subseteq Accounted(t)'
    BY DEF Accounted, Held
  <1>2. \A t \in Table : index'[t] \subseteq Accounted(t)'
    BY <1>1 DEF Causes
  <1>3. Excused(c)'
    BY DEF Excused, At
  <1>. QED  BY <1>2, <1>3, CausesAfter

LEMMA StatementCauses ==
    ASSUME Typed, Causes, NEW c \in Conn, Statement(c), Without({"overlap"})'
    PROVE  Causes'
  <1>0. ASSUME Overlap \subseteq liberties'
        PROVE  Quiet
    BY <1>0 DEF Overlap, Without
  <1>1. ASSUME NEW t \in Table, NEW s \in Schemas, Create(c, t, s)
        PROVE  Causes'
    <2>1. /\ call'[c].step = "create"
          /\ \A d \in Conn \ {c} : call'[d] = call[d]
      BY <1>1 DEF Create, Then, Typed
    <2>2. rows' = rows /\ index' = index /\ gone' = gone
      BY <1>1 DEF Create
    <2>3. Quiet
      BY <1>0, <1>1 DEF Create, Did
    <2>. QED  BY <2>1, <2>2, <2>3, AsideCauses
  <1>2. ASSUME NEW t \in Table, NEW g \in Given, Insert(c, t, g[1], g[2])
        PROVE  Causes'
    <2>1. <<g[1], g[2]>> \in Given
      BY SQLConstants
    <2>2. /\ call'[c].step \in {"number", "check"}
          /\ \A d \in Conn \ {c} : call'[d] = call[d]
          /\ Quiet
      BY <1>0, <1>2, <2>1, InsertBegins
    <2>3. rows' = rows /\ index' = index /\ gone' = gone
      BY <1>2 DEF Insert
    <2>. QED  BY <2>2, <2>3, AsideCauses
  <1>3. ASSUME NEW t \in Table, NEW where \in Clauses, Delete(c, t, where)
        PROVE  Causes'
    <2>1. /\ call'[c] = [step |-> "delete", table |-> t, where |-> where]
          /\ \A d \in Conn \ {c} : call'[d] = call[d]
          /\ Quiet
      BY <1>0, <1>3, DeleteBegins
    <2>2. rows' = rows /\ index' = index /\ gone' = gone
      BY <1>3 DEF Delete
    <2>3. call'[c].step = "delete"
      BY <2>1
    <2>. QED  BY <2>1, <2>2, <2>3, AsideCauses
  <1>4. ASSUME NEW t \in Table, NEW where \in Clauses, NEW set \in Settings, Update(c, t, where, set)
        PROVE  Causes'
    <2>1. /\ call'[c] = [step |-> "update", table |-> t, where |-> where, set |-> set]
          /\ \A d \in Conn \ {c} : call'[d] = call[d]
          /\ Quiet
      BY <1>0, <1>4, UpdateBegins DEF Updates
    <2>2. rows' = rows /\ index' = index /\ gone' = gone
      BY <1>4 DEF Update
    <2>3. call'[c].step = "update"
      BY <2>1
    <2>. QED  BY <2>1, <2>2, <2>3, AsideCauses
  <1>5. ASSUME NEW t \in Table, Drop(c, t)
        PROVE  Causes'
    <2>1. /\ call'[c] = [step |-> "drop", table |-> t]
          /\ \A d \in Conn \ {c} : call'[d] = call[d]
          /\ Quiet
      BY <1>0, <1>5, DropBegins
    <2>2. rows' = rows /\ index' = index /\ gone' = gone
      BY <1>5 DEF Drop
    <2>3. call'[c].step = "drop"
      BY <2>1
    <2>. QED  BY <2>1, <2>2, <2>3, AsideCauses
  <1>6. ASSUME NEW t \in Table, CreateIndex(c, t)
        PROVE  Causes'
    <2>1. /\ call'[c].step = "alter"
          /\ \A d \in Conn \ {c} : call'[d] = call[d]
          /\ Quiet
      BY <1>0, <1>6, LeftTyped, CreateIndexTyped
    <2>2. rows' = rows /\ index' = index /\ gone' = gone
      BY <1>6 DEF CreateIndex
    <2>. QED  BY <2>1, <2>2, AsideCauses
  <1>. QED  BY <1>1, <1>2, <1>3, <1>4, <1>5, <1>6 DEF Statement

LEMMA StoreRowCauses ==
    ASSUME Typed, Causes, NEW c \in Conn, NEW done \in BOOLEAN, StoreRow(c, done)
    PROVE  Causes'
  <1>1. PICK k, i : k = call[c] /\ i = k.row.id.v
    OBVIOUS
  <1>2. /\ At(c, "store") /\ index' = index
        /\ k.table \in Table /\ i \in Ids
    BY <1>1, InsertingCall DEF StoreRow
  <1>3. /\ call'[c].step = "index" /\ call'[c].table = k.table /\ call'[c].row = k.row
        /\ \A d \in Conn \ {c} : call'[d] = call[d]
        /\ rows' \in [Table -> Rows]
        /\ \A a \in Table, b \in Ids : (a # k.table \/ b # i) => rows'[a][b] = rows[a][b]
        /\ \A a \in Table : gone[a] \subseteq gone'[a]
        /\ TextOf(rows[k.table][i]) \subseteq TextOf(rows'[k.table][i]) \cup gone'[k.table]
        /\ TextOf(k.row) \subseteq TextOf(rows'[k.table][i]) \cup gone'[k.table]
    BY <1>1, StoreRowDoes
  <1>4. \A t \in Table : Accounted(t) \subseteq Accounted(t)'
    <2>1. ASSUME NEW t \in Table, NEW b \in Ids
          PROVE  TextOf(rows[t][b]) \subseteq TextOf(rows'[t][b]) \cup gone'[t]
      BY <1>3
    <2>. QED  BY <1>3, <2>1, AccountedStays
  <1>5. \A t \in Table : index'[t] \subseteq Accounted(t)'
    BY <1>2, <1>4 DEF Causes
  <1>6. Excused(c)'
    <2>1. TextOf(k.row) \subseteq Accounted(k.table)'
      BY <1>2, <1>3 DEF Accounted, Held
    <2>2. ~At(c, "build")' /\ ~At(c, "forget")'
      BY <1>3 DEF At
    <2>. QED  BY <1>3, <2>1, <2>2 DEF Excused
  <1>. QED  BY <1>2, <1>3, <1>5, <1>6, CausesAfter DEF At

LEMMA IndexRowCauses ==
    ASSUME Typed, Causes, NEW c \in Conn, NEW done \in BOOLEAN, IndexRow(c, done)
    PROVE  Causes'
  <1>1. At(c, "index") /\ rows' = rows /\ gone' = gone
    BY DEF IndexRow
  <1>2. /\ call'[c] = Idle
        /\ \A d \in Conn \ {c} : call'[d] = call[d]
        /\ \A a \in Table \ {call[c].table} : index'[a] = index[a]
        /\ index'[call[c].table] \subseteq index[call[c].table] \cup TextOf(call[c].row)
    BY IndexRowDoes
  <1>3. \A t \in Table : Accounted(t)' = Accounted(t)
    BY <1>1 DEF Accounted, Held
  <1>4. \A t \in Table : index'[t] \subseteq Accounted(t)'
    BY <1>1, <1>2, <1>3 DEF Causes, Excused
  <1>5. Excused(c)'
    BY <1>2 DEF Excused, At
  <1>. QED  BY <1>1, <1>2, <1>4, <1>5, CausesAfter DEF At

LEMMA ChangeRowCauses ==
    ASSUME Typed, Causes, NEW c \in Conn, NEW done \in BOOLEAN, ChangeRow(c, done)
    PROVE  Causes'
  <1>0. PICK t \in Table : \E e : Changes(c, t, e, done)
    BY ChangeRowDoes
  <1>1. PICK e : Changes(c, t, e, done)
    BY <1>0
  <1>2. ASSUME NEW a \in Table
        PROVE  Accounted(a) \subseteq Accounted(a)'
    <2>1. ASSUME NEW b \in Ids
          PROVE  TextOf(rows[a][b]) \subseteq TextOf(rows'[a][b]) \cup gone'[a]
      BY <1>1 DEF Changes
    <2>. QED  BY <1>1, <2>1, AccountedStays DEF Changes
  <1>3. \A a \in Table : index'[a] \subseteq Accounted(a)'
    BY <1>1, <1>2 DEF Causes, Changes
  <1>4. Excused(c)'
    BY <1>1 DEF Excused, At, Changes
  <1>5. call[c] # Idle /\ \A d \in Conn \ {c} : call'[d] = call[d]
    BY <1>1 DEF Changes, At
  <1>. QED  BY <1>3, <1>4, <1>5, CausesAfter

LEMMA ClearRowCauses ==
    ASSUME Typed, Causes, NEW c \in Conn, ClearRow(c)
    PROVE  Causes'
  <1>1. PICK e : Clears(c, e)
    BY ClearRowDoes
  <1>2. ASSUME NEW a \in Table
        PROVE  Accounted(a) \subseteq Accounted(a)'
    <2>1. ASSUME NEW b \in Ids
          PROVE  TextOf(rows[a][b]) \subseteq TextOf(rows'[a][b]) \cup gone'[a]
      BY <1>1 DEF Clears
    <2>. QED  BY <1>1, <2>1, AccountedStays DEF Clears
  <1>3. \A a \in Table : index'[a] \subseteq Accounted(a)'
    BY <1>1, <1>2 DEF Causes, Clears
  <1>4. Excused(c)'
    BY <1>1 DEF Excused, At, Clears
  <1>5. call[c] # Idle /\ \A d \in Conn \ {c} : call'[d] = call[d]
    BY <1>1 DEF Clears, At
  <1>. QED  BY <1>3, <1>4, <1>5, CausesAfter

LEMMA ScanIndexCauses ==
    ASSUME Typed, Causes, NEW c \in Conn, ScanIndex(c)
    PROVE  Causes'
  <1>1. rows' = rows /\ index' = index /\ gone' = gone /\ call[c] # Idle
    BY DEF ScanIndex, histories, At
  <1>2. /\ call'[c].step = "forget" /\ call'[c].table = call[c].table
        /\ \A u \in index[call[c].table] : <<call[c].table, u>> \in call'[c].todo
        /\ \A d \in Conn \ {c} : call'[d] = call[d]
    BY ScanIndexDoes
  <1>3. \A a \in Table : index'[a] \subseteq Accounted(a)'
    BY <1>1 DEF Causes, Accounted, Held
  <1>4. Excused(c)'
    BY <1>1, <1>2 DEF Excused, At
  <1>. QED  BY <1>1, <1>2, <1>3, <1>4, CausesAfter

LEMMA UnindexRowCauses ==
    ASSUME Typed, Causes, NEW c \in Conn, UnindexRow(c)
    PROVE  Causes'
  <1>1. PICK e : Unindexes(c, e)
    BY UnindexRowDoes
  <1>2. \A a \in Table : index'[a] \subseteq index[a]
    BY <1>1 DEF Unindexes
  <1>3. \A a \in Table : index'[a] \subseteq Accounted(a)'
    BY <1>1, <1>2 DEF Unindexes, Causes, Accounted, Held
  <1>4. Excused(c)'
    <2>1. ~At(c, "index")' /\ ~At(c, "build")'
      BY <1>1 DEF Unindexes, At
    <2>2. ASSUME NEW u \in index'[call'[c].table]
          PROVE  <<call'[c].table, u>> \in call'[c].todo
      <3>1. PICK t : t = call[c].table
        OBVIOUS
      <3>2. call'[c].table = t /\ At(c, "forget")
        BY <1>1, <3>1 DEF Unindexes
      <3>3. t \in Table
        BY <3>1, <3>2, AtIsCall
      <3>4. <<t, u>> \in call[c].todo
        BY <1>2, <2>2, <3>1, <3>2, <3>3 DEF Causes, Excused
      <3>5. <<t, u>> # e
        <4>1. CASE t = e[1]
          <5>1. u # e[2]
            BY <1>1, <2>2, <3>2, <4>1 DEF Unindexes
          <5>. QED  BY <5>1
        <4>. QED  BY <4>1
      <3>. QED  BY <1>1, <3>2, <3>4, <3>5 DEF Unindexes
    <2>. QED  BY <2>1, <2>2 DEF Excused
  <1>5. call[c] # Idle /\ \A d \in Conn \ {c} : call'[d] = call[d]
    BY <1>1 DEF Unindexes, At
  <1>. QED  BY <1>3, <1>4, <1>5, CausesAfter

LEMMA ForgetSchemaCauses ==
    ASSUME Typed, Causes, NEW c \in Conn, ForgetSchema(c)
    PROVE  Causes'
  <1>1. /\ At(c, "forget") /\ call[c].table \in Table /\ call[c].todo = {}
        /\ call'[c] = Idle
        /\ \A d \in Conn \ {c} : call'[d] = call[d]
        /\ \A a \in Table \ {call[c].table} : gone'[a] = gone[a]
    BY ForgetSchemaDoes
  <1>2. rows' = rows /\ index' = index
    BY DEF ForgetSchema
  <1>3. \A u : u \notin index[call[c].table]
    BY <1>1 DEF Causes, Excused
  <1>4. ASSUME NEW a \in Table
        PROVE  index'[a] \subseteq Accounted(a)'
    BY <1>1, <1>2, <1>3 DEF Causes, Accounted, Held
  <1>5. Excused(c)'
    BY <1>1 DEF Excused, At
  <1>. QED  BY <1>1, <1>4, <1>5, CausesAfter DEF At

LEMMA BuildScanCauses ==
    ASSUME Typed, Causes, NEW c \in Conn, BuildScan(c)
    PROVE  Causes'
  <1>1. PICK t \in Table, todo \in SUBSET Texts : BuildScans(c, t, todo)
    BY BuildScanDoes
  <1>2. rows' = rows /\ index' = index /\ call[c] # Idle
    BY DEF BuildScan, At
  <1>3. \A a \in Table : index'[a] \subseteq Accounted(a)'
    BY <1>1, <1>2 DEF Causes, Accounted, Held, BuildScans
  <1>4. Excused(c)'
    <2>1. todo \subseteq Accounted(t)'
      BY <1>1, <1>2 DEF BuildScans, Accounted, Held
    <2>2. CASE call'[c] = Idle
      BY <2>2 DEF Excused, At
    <2>3. CASE call'[c] = [step |-> "build", table |-> t, todo |-> todo]
      <3>1. call'[c].step = "build" /\ call'[c].table = t /\ call'[c].todo = todo
        BY <2>3
      <3>. QED  BY <2>1, <3>1 DEF Excused, At
    <2>. QED  BY <1>1, <2>2, <2>3 DEF BuildScans
  <1>. QED  BY <1>1, <1>2, <1>3, <1>4, CausesAfter DEF BuildScans

LEMMA BuildRowCauses ==
    ASSUME Typed, Causes, NEW c \in Conn, NEW done \in BOOLEAN, BuildRow(c, done)
    PROVE  Causes'
  <1>1. PICK u \in Texts :
           /\ At(c, "build") /\ u \in call[c].todo /\ call[c].table \in Table
           /\ \/ call'[c] = Idle
              \/ /\ call'[c] # Idle
                 /\ call'[c].step = "build" /\ call'[c].table = call[c].table
                 /\ call'[c].todo = call[c].todo \ {u}
           /\ \A d \in Conn \ {c} : call'[d] = call[d]
           /\ \A a \in Table \ {call[c].table} : index'[a] = index[a]
           /\ index'[call[c].table] \subseteq index[call[c].table] \cup {u}
    BY BuildRowDoes
  <1>2. rows' = rows /\ gone' = gone
    BY DEF BuildRow
  <1>3. \A a \in Table : Accounted(a)' = Accounted(a)
    BY <1>2 DEF Accounted, Held
  <1>4. call[c].todo \subseteq Accounted(call[c].table)
    BY <1>1 DEF Causes, Excused
  <1>5. \A a \in Table : index'[a] \subseteq Accounted(a)'
    BY <1>1, <1>3, <1>4 DEF Causes
  <1>6. Excused(c)'
    BY <1>1, <1>3, <1>4 DEF Excused, At
  <1>. QED  BY <1>1, <1>5, <1>6, CausesAfter DEF At

\* A call that ends with nothing done.
LEMMA CutCauses ==
    ASSUME Causes, NEW c \in Conn, call'[c] = Idle,
           \A d \in Conn \ {c} : call'[d] = call[d],
           UNCHANGED <<rows, index, gone>>
    PROVE  Causes'
  <1>1. Alone'
    BY DEF Causes, Alone
  <1>2. \A t \in Table : Accounted(t)' = Accounted(t)
    BY DEF Accounted, Held
  <1>3. \A d \in Conn : Excused(d)'
    <2>1. Excused(c)'
      BY DEF Excused, At
    <2>2. ASSUME NEW d \in Conn \ {c}
          PROVE  Excused(d)'
      <3>1. Excused(d)
        BY DEF Causes
      <3>. QED  BY <3>1 DEF Excused, At, Accounted, Held
    <2>. QED  BY <2>1, <2>2
  <1>. QED  BY <1>1, <1>2, <1>3 DEF Causes

LEMMA OtherCauses ==
    ASSUME Typed, Causes, NEW c \in Conn, NEW done \in BOOLEAN,
           \/ CreatePut(c, done) \/ ReadSeq(c) \/ NextId(c) \/ Refuse(c) \/ Check(c)
           \/ UpdateScan(c) \/ DeleteScan(c) \/ DropScan(c) \/ DropSchema(c)
           \/ AlterSchema(c, done)
    PROVE  Causes'
  <1>1. rows' = rows /\ gone' = gone /\ index' = index /\ call[c] # Idle
    <2>1. CASE NextId(c)
      BY <2>1 DEF NextId, At
    <2>. QED  BY <2>1 DEF CreatePut, ReadSeq, Refuse, Check, UpdateScan, DeleteScan, DropScan, DropSchema,
                 AlterSchema, At, histories
  <1>3. /\ call'[c] = Idle \/ call'[c].step \notin {"index", "build", "forget"}
        /\ \A d \in Conn \ {c} : call'[d] = call[d]
    <2>1. CASE CreatePut(c, done) \/ Refuse(c)
      <3>1. Then(c, Idle)
        BY <2>1 DEF CreatePut, Refuse
      <3>. QED  BY <3>1, ThenIdle
    <2>2. CASE ReadSeq(c)
      BY <2>2, ReadSeqDoes
    <2>3. CASE NextId(c)
      BY <2>3, NextIdDoes DEF Draws
    <2>4. CASE UpdateScan(c)
      <3>1. PICK t, where, set, todo, S : UpdateScans(c, t, where, set, todo, S)
        BY <2>4, UpdateScanDoes
      <3>. QED  BY <3>1 DEF UpdateScans
    <2>5. CASE DeleteScan(c)
      <3>1. PICK t, where, todo : DeleteScans(c, t, where, todo)
        BY <2>5, DeleteScanDoes
      <3>. QED  BY <3>1 DEF DeleteScans
    <2>6. CASE DropScan(c)
      <3>1. /\ call'[c] = [step |-> "clear", table |-> call[c].table, todo |-> Scanned(call[c].table)]
            /\ \A d \in Conn \ {c} : call'[d] = call[d]
        BY <2>6, DropScanDoes
      <3>. QED  BY <3>1
    <2>7. CASE DropSchema(c)
      <3>1. /\ call'[c] = [step |-> "unindex", table |-> call[c].table]
            /\ \A d \in Conn \ {c} : call'[d] = call[d]
        BY <2>7, DropSchemaDoes
      <3>. QED  BY <3>1
    <2>8. CASE Check(c)
      BY <2>8, CheckDoes
    <2>9. CASE AlterSchema(c, done)
      <3>1. /\ call'[c] = [step |-> "survey", table |-> call[c].table]
            /\ \A d \in Conn \ {c} : call'[d] = call[d]
        BY <2>9, AlterSchemaTyped
      <3>. QED  BY <3>1
    <2>. QED  BY <2>1, <2>2, <2>3, <2>4, <2>5, <2>6, <2>7, <2>8, <2>9
  <1>. QED  BY <1>1, <1>3, AsideCauses

LEMMA NextAccounting ==
    ASSUME Typed, Accounting, [Next]_vars
    PROVE  Accounting'
  <1>1. CASE UNCHANGED vars
    BY <1>1 DEF vars, Accounting, Causes, Alone, Excused, At, Accounted, Held, Without
  <1>2. CASE Next
    <2>1. ASSUME Without({"overlap"})'
          PROVE  Causes'
      <3>0. Causes
        BY <1>2, <2>1, LibertiesGrow DEF Accounting, Without
      <3>1. ASSUME NEW c \in Conn, Step(c)
            PROVE  Causes'
        <4>1. TRUE \in BOOLEAN
          OBVIOUS
        <4>. QED  BY <3>0, <3>1, <4>1, StoreRowCauses, IndexRowCauses, ChangeRowCauses, ClearRowCauses,
                  ScanIndexCauses, UnindexRowCauses, ForgetSchemaCauses, BuildScanCauses, BuildRowCauses,
                  OtherCauses DEF Step
      <3>2. ASSUME NEW c \in Conn, Fail(c)
            PROVE  Causes'
        <4>1. UNCHANGED <<rows, index, gone>>
          BY <3>2 DEF Fail
        <4>. QED  BY <3>0, <3>2, <4>1, FailTyped, CutCauses
      <3>3. ASSUME NEW c \in Conn, Crash(c)
            PROVE  Causes'
        <4>1. UNCHANGED <<rows, index, gone>>
          BY <3>3 DEF Crash
        <4>. QED  BY <3>0, <3>3, <4>1, CrashDoes, CutCauses
      <3>. QED  BY <1>2, <2>1, <3>0, <3>1, <3>2, <3>3, StatementCauses DEF Next
    <2>. QED  BY <2>1 DEF Accounting
  <1>. QED  BY <1>1, <1>2

LEMMA AlwaysAccounting == Spec => [](Typed /\ Accounting)
  <1>1. Init => Typed /\ Accounting
    BY InitTyped, InitAccounting
  <1>2. Typed /\ Accounting /\ [Next]_vars => (Typed /\ Accounting)'
    BY NextTyped, NextAccounting
  <1>. QED  BY <1>1, <1>2, PTL DEF Spec

\* As long as statements do not overlap, every index row is of a text that a row
\* has or had, or was to have, since the table was last dropped, whatever calls
\* fail and processes die (sql_engine.py:539-572, 602-628).
THEOREM RefusalsHaveCause == Spec => []RefusedForCause
  BY AlwaysAccounting, AccountingIsRefusedForCause, PTL

-----------------------------------------------------------------------------
(* Numbers *)

\* The INSERT of c is to write, or the UPDATE of c to write back, the row i of t.
Draw(c, t, i) ==
    /\ At(c, "check") \/ At(c, "store")
    /\ call[c].table = t /\ call[c].row.id.v = i

Rewrites(c, t, i) ==
    /\ At(c, "rows") /\ call[c].table = t
    /\ \E e \in call[c].todo : e[1] = i /\ e[2] # NoRow

\* What is said of an id that is not doubtful: rows have it, and are written
\* back under it, only when it has been drawn, and an INSERT has it alone.
Fresh(t, i) ==
    /\ rows[t][i] # NoRow => i <= seq[t]
    /\ \A c \in Conn : Rewrites(c, t, i) => i <= seq[t]
    /\ \A c \in Conn : Draw(c, t, i) =>
          /\ i <= seq[t] /\ rows[t][i] = NoRow
          /\ \A d \in Conn : (Draw(d, t, i) => d = c) /\ ~Rewrites(d, t, i)

\* A row under another key than its id has an id that is doubtful.
Placed(row, t, i) == row # NoRow => row.id.v = i \/ row.id.v \in doubtful[t]

Ruled(c) ==
    /\ At(c, "rows") => \A e \in call[c].todo : Placed(e[2], call[c].table, e[1])
    /\ At(c, "update") => (call[c].set.col = "id" => call[c].set.val.v \in doubtful[call[c].table])

Numbering ==
    /\ \A t \in Table : \A i \in Ids \ doubtful[t] : Fresh(t, i)
    /\ \A t \in Table, i \in Ids : Placed(rows[t][i], t, i)
    /\ \A c \in Conn : Ruled(c)

LEMMA NumberingIsNumbersAreFresh == Typed /\ Numbering => NumbersAreFresh
  <1>. DEFINE numbered == {c \in Conn : (At(c, "check") \/ At(c, "store")) /\ ~call[c].given}
  <1>1. ASSUME Typed, Numbering, NEW c \in numbered,
               call[c].row.id.v \notin doubtful[call[c].table]
        PROVE  /\ rows[call[c].table][call[c].row.id.v] = NoRow
               /\ \A d \in numbered \ {c} :
                     call[d].table = call[c].table => call[d].row.id.v # call[c].row.id.v
    <2>1. PICK t, i : t = call[c].table /\ i = call[c].row.id.v
      OBVIOUS
    <2>2. t \in Table /\ i \in Ids /\ Draw(c, t, i)
      BY <1>1, <2>1, InsertingCall DEF Draw
    <2>3. Fresh(t, i)
      BY <1>1, <2>1, <2>2 DEF Numbering
    <2>4. rows[t][i] = NoRow /\ \A d \in Conn : Draw(d, t, i) => d = c
      BY <2>2, <2>3 DEF Fresh
    <2>5. \A d \in numbered : call[d].table = t /\ call[d].row.id.v = i => Draw(d, t, i)
      BY DEF Draw
    <2>. QED  BY <2>1, <2>4, <2>5
  <1>. QED  BY <1>1 DEF NumbersAreFresh

LEMMA InitNumbering == Init => Numbering
  <1>1. ASSUME Init
        PROVE  Numbering
    <2>1. \A t \in Table, i \in Ids : rows[t][i] = NoRow
      BY <1>1 DEF Init
    <2>2. \A c \in Conn : call[c] = Idle
      BY <1>1 DEF Init
    <2>3. \A t \in Table, i \in Ids : Fresh(t, i)
      BY <2>1, <2>2 DEF Fresh, Draw, Rewrites, At
    <2>4. \A c \in Conn : Ruled(c)
      BY <2>2 DEF Ruled, At
    <2>. QED  BY <2>1, <2>3, <2>4 DEF Numbering, Placed
  <1>. QED  BY <1>1

LEMMA FreshStays ==
    ASSUME Typed, NEW c \in Conn, NEW t \in Table, NEW i \in Ids, Fresh(t, i),
           \A d \in Conn \ {c} : call'[d] = call[d],
           Draw(c, t, i)' => Draw(c, t, i),
           Rewrites(c, t, i)' => Rewrites(c, t, i),
           rows'[t][i] # NoRow => rows[t][i] # NoRow,
           i <= seq[t] => i <= seq'[t]
    PROVE  Fresh(t, i)'
  <1>1. \A d \in Conn : (Draw(d, t, i)' => Draw(d, t, i)) /\ (Rewrites(d, t, i)' => Rewrites(d, t, i))
    BY DEF Draw, Rewrites, At
  <1>. QED  BY <1>1 DEF Fresh

LEMMA PlacedStays ==
    ASSUME NEW t \in Table, doubtful[t] \subseteq doubtful'[t], NEW row, NEW i, Placed(row, t, i)
    PROVE  row # NoRow => row.id.v = i \/ row.id.v \in doubtful'[t]
  BY DEF Placed

LEMMA RuledStays ==
    ASSUME Typed, NEW c \in Conn, Ruled(c), \A t \in Table : doubtful[t] \subseteq doubtful'[t],
           call'[c] = call[c]
    PROVE  Ruled(c)'
  <1>1. call[c] = Idle \/ call[c].table \in Table
    BY Shapes DEF Typed
  <1>. QED  BY <1>1 DEF Ruled, At, Placed

\* A step that writes no row and takes up no INSERT or UPDATE.
LEMMA AsideNumbering ==
    ASSUME Typed, Numbering, NEW c \in Conn,
           \A d \in Conn \ {c} : call'[d] = call[d],
           call'[c] = Idle \/ call'[c].step \notin {"check", "store", "rows", "update"},
           rows' = rows, seq' = seq,
           \A t \in Table : doubtful[t] \subseteq doubtful'[t]
    PROVE  Numbering'
  <1>1. ASSUME NEW t \in Table, NEW i \in Ids, i \notin doubtful'[t]
        PROVE  Fresh(t, i)'
    <2>1. Fresh(t, i)
      BY <1>1 DEF Numbering
    <2>2. ~Draw(c, t, i)' /\ ~Rewrites(c, t, i)'
      BY DEF Draw, Rewrites, At
    <2>. QED  BY <2>1, <2>2, FreshStays
  <1>2. \A t \in Table, i \in Ids : Placed(rows[t][i], t, i)'
    BY DEF Numbering, Placed
  <1>3. ASSUME NEW d \in Conn
        PROVE  Ruled(d)'
    <2>1. CASE d = c
      BY <2>1 DEF Ruled, At
    <2>2. CASE d # c
      BY <2>2, RuledStays DEF Numbering
    <2>. QED  BY <2>1, <2>2
  <1>. QED  BY <1>1, <1>2, <1>3 DEF Numbering

LEMMA InsertNumbering ==
    ASSUME Typed, Numbering, NEW c \in Conn, NEW t \in Table, NEW id, NEW u, <<id, u>> \in Given,
           Insert(c, t, id, u)
    PROVE  Numbering'
  <1>1. /\ call'[c].table = t /\ call'[c].step \in {"number", "check"}
        /\ call'[c].step = "check" => id \in {Num(n) : n \in Ids} /\ call'[c].row.id = id
        /\ \A d \in Conn \ {c} : call'[d] = call[d]
        /\ doubtful' = Mark(doubtful, t, IF id = Null THEN {} ELSE {id.v})
        /\ (IF id = Null THEN {} ELSE {id.v}) \in SUBSET Ids
    BY InsertBegins
  <1>2. rows' = rows /\ seq' = seq
    BY DEF Insert
  <1>3. /\ \A a \in Table : doubtful[a] \subseteq doubtful'[a]
        /\ call'[c].step = "check" => call'[c].row.id.v \in doubtful'[t]
    <2>1. PICK S, h : S = (IF id = Null THEN {} ELSE {id.v}) /\ h = Mark(doubtful, t, S)
      OBVIOUS
    <2>2. doubtful \in [Table -> SUBSET Ids] /\ S \in SUBSET Ids /\ doubtful' = h
      BY <1>1, <2>1 DEF Typed
    <2>3. h[t] = doubtful[t] \cup S /\ \A a \in Table : doubtful[a] \subseteq h[a]
      BY <2>1, <2>2, MarkIds
    <2>4. id \in {Num(n) : n \in Ids} => id.v \in S
      BY <2>1, Values
    <2>. QED  BY <1>1, <2>2, <2>3, <2>4
  <1>4. ASSUME NEW a \in Table, NEW i \in Ids, i \notin doubtful'[a]
        PROVE  Fresh(a, i)'
    <2>1. Fresh(a, i)
      BY <1>3, <1>4 DEF Numbering
    <2>2. ~Draw(c, a, i)' /\ ~Rewrites(c, a, i)'
      BY <1>1, <1>3, <1>4 DEF Draw, Rewrites, At
    <2>. QED  BY <1>1, <1>2, <2>1, <2>2, FreshStays
  <1>5. \A a \in Table, i \in Ids : Placed(rows[a][i], a, i)'
    BY <1>2, <1>3 DEF Numbering, Placed
  <1>6. ASSUME NEW d \in Conn
        PROVE  Ruled(d)'
    <2>1. CASE d = c
      BY <1>1, <2>1 DEF Ruled, At
    <2>2. CASE d # c
      BY <1>1, <1>3, <2>2, RuledStays DEF Numbering
    <2>. QED  BY <2>1, <2>2
  <1>. QED  BY <1>4, <1>5, <1>6 DEF Numbering

LEMMA UpdateNumbering ==
    ASSUME Typed, Numbering, NEW c \in Conn, NEW t \in Table, NEW where \in Clauses, NEW set \in Settings,
           Update(c, t, where, set)
    PROVE  Numbering'
  <1>1. PICK unique \in BOOLEAN : Updates(c, t, where, set, unique)
    BY UpdateBegins
  <1>2. /\ call'[c] = [step |-> "update", table |-> t, where |-> where, set |-> set]
        /\ \A d \in Conn \ {c} : call'[d] = call[d]
        /\ \A a \in Table : doubtful[a] \subseteq doubtful'[a]
        /\ set.col = "id" => set.val.v \in doubtful'[t]
    BY <1>1 DEF Updates
  <1>3. call'[c].step = "update" /\ call'[c].table = t /\ call'[c].set = set
    BY <1>2
  <1>4. rows' = rows /\ seq' = seq
    BY DEF Update
  <1>5. ASSUME NEW a \in Table, NEW i \in Ids, i \notin doubtful'[a]
        PROVE  Fresh(a, i)'
    <2>1. Fresh(a, i)
      BY <1>2, <1>5 DEF Numbering
    <2>2. ~Draw(c, a, i)' /\ ~Rewrites(c, a, i)'
      BY <1>3 DEF Draw, Rewrites, At
    <2>. QED  BY <1>2, <1>4, <2>1, <2>2, FreshStays
  <1>6. \A a \in Table, i \in Ids : Placed(rows[a][i], a, i)'
    BY <1>2, <1>4 DEF Numbering, Placed
  <1>7. ASSUME NEW d \in Conn
        PROVE  Ruled(d)'
    <2>1. CASE d = c
      BY <1>2, <1>3, <2>1 DEF Ruled, At
    <2>2. CASE d # c
      BY <1>2, <2>2, RuledStays DEF Numbering
    <2>. QED  BY <2>1, <2>2
  <1>. QED  BY <1>5, <1>6, <1>7 DEF Numbering

LEMMA StatementNumbering ==
    ASSUME Typed, Numbering, NEW c \in Conn, Statement(c)
    PROVE  Numbering'
  <1>1. ASSUME NEW t \in Table, NEW s \in Schemas, Create(c, t, s)
        PROVE  Numbering'
    <2>1. /\ call'[c].step = "create"
          /\ \A d \in Conn \ {c} : call'[d] = call[d]
      BY <1>1 DEF Create, Then, Typed
    <2>2. rows' = rows /\ seq' = seq /\ doubtful' = doubtful
      BY <1>1 DEF Create
    <2>. QED  BY <2>1, <2>2, AsideNumbering
  <1>2. ASSUME NEW t \in Table, NEW g \in Given, Insert(c, t, g[1], g[2])
        PROVE  Numbering'
    <2>1. <<g[1], g[2]>> \in Given
      BY SQLConstants
    <2>. QED  BY <1>2, <2>1, InsertNumbering
  <1>3. ASSUME NEW t \in Table, NEW where \in Clauses, Delete(c, t, where)
        PROVE  Numbering'
    <2>1. /\ call'[c] = [step |-> "delete", table |-> t, where |-> where]
          /\ \A d \in Conn \ {c} : call'[d] = call[d]
      BY <1>3, DeleteBegins
    <2>2. rows' = rows /\ seq' = seq /\ doubtful' = doubtful
      BY <1>3 DEF Delete
    <2>3. call'[c].step = "delete"
      BY <2>1
    <2>. QED  BY <2>1, <2>2, <2>3, AsideNumbering
  <1>4. ASSUME NEW t \in Table, Drop(c, t)
        PROVE  Numbering'
    <2>1. /\ call'[c] = [step |-> "drop", table |-> t]
          /\ \A d \in Conn \ {c} : call'[d] = call[d]
      BY <1>4, DropBegins
    <2>2. rows' = rows /\ seq' = seq /\ doubtful' = doubtful
      BY <1>4 DEF Drop
    <2>3. call'[c].step = "drop"
      BY <2>1
    <2>. QED  BY <2>1, <2>2, <2>3, AsideNumbering
  <1>5. ASSUME NEW t \in Table, CreateIndex(c, t)
        PROVE  Numbering'
    <2>1. /\ call'[c].step = "alter"
          /\ \A d \in Conn \ {c} : call'[d] = call[d]
      BY <1>5, LeftTyped, CreateIndexTyped
    <2>2. rows' = rows /\ seq' = seq /\ doubtful' = doubtful
      BY <1>5 DEF CreateIndex
    <2>. QED  BY <2>1, <2>2, AsideNumbering
  <1>. QED  BY <1>1, <1>2, <1>3, <1>4, <1>5, UpdateNumbering DEF Statement

LEMMA NextIdNumbering ==
    ASSUME Typed, Numbering, NEW c \in Conn, NextId(c)
    PROVE  Numbering'
  <1>1. PICK t \in Table, n \in Ids : Draws(c, t, n)
    BY NextIdDoes
  <1>2. /\ call'[c].step = "check" /\ call'[c].table = t /\ call'[c].row.id.v = n
        /\ \A d \in Conn \ {c} : call'[d] = call[d]
        /\ rows' = rows
    BY <1>1 DEF Draws
  <1>3. /\ doubtful'[t] = doubtful[t] \cup (n .. seq[t])
        /\ \A a \in Table : doubtful[a] \subseteq doubtful'[a]
    <2>1. PICK S, h : S = n .. seq[t] /\ h = Mark(doubtful, t, S)
      OBVIOUS
    <2>2. doubtful \in [Table -> SUBSET Ids] /\ S \in SUBSET Ids /\ doubtful' = h
      BY <1>1, <2>1 DEF Typed, Draws
    <2>3. h[t] = doubtful[t] \cup S /\ \A a \in Table : doubtful[a] \subseteq h[a]
      BY <2>1, <2>2, MarkIds
    <2>. QED  BY <2>1, <2>2, <2>3
  <1>4. /\ seq'[t] = n /\ \A a \in Table \ {t} : seq'[a] = seq[a]
        /\ seq[t] \in Nat /\ n \in Nat
    BY <1>1, SQLConstants DEF Typed, Draws, Ids
  <1>5. ASSUME NEW a \in Table, NEW i \in Ids, i \notin doubtful'[a]
        PROVE  Fresh(a, i)'
    <2>1. Fresh(a, i)
      BY <1>3, <1>5 DEF Numbering
    <2>2. i \in Nat
      BY SQLConstants DEF Ids
    <2>3. ~Rewrites(c, a, i)'
      BY <1>2 DEF Rewrites, At
    <2>4. CASE a = t /\ i = n
      <3>1. ~(i <= seq[t])
        BY <1>3, <1>4, <1>5, <2>2, <2>4
      <3>2. /\ rows[a][i] = NoRow
            /\ \A d \in Conn : ~Draw(d, a, i) /\ ~Rewrites(d, a, i)
        BY <2>1, <2>4, <3>1 DEF Fresh
      <3>3. \A d \in Conn \ {c} : ~Draw(d, a, i)' /\ ~Rewrites(d, a, i)'
        BY <1>2, <3>2 DEF Draw, Rewrites, At
      <3>4. rows'[a][i] = NoRow /\ i <= seq'[a]
        BY <1>2, <1>4, <2>4, <3>2
      <3>. QED  BY <2>3, <3>3, <3>4 DEF Fresh
    <2>5. CASE ~(a = t /\ i = n)
      <3>1. ~Draw(c, a, i)'
        BY <1>2, <2>5 DEF Draw
      <3>2. i <= seq[a] => i <= seq'[a]
        <4>1. CASE a = t
          BY <1>3, <1>4, <1>5, <2>2, <4>1
        <4>2. CASE a # t
          BY <1>4, <4>2
        <4>. QED  BY <4>1, <4>2
      <3>. QED  BY <1>2, <2>1, <2>3, <3>1, <3>2, FreshStays
    <2>. QED  BY <2>4, <2>5
  <1>6. \A a \in Table, i \in Ids : Placed(rows[a][i], a, i)'
    BY <1>2, <1>3 DEF Numbering, Placed
  <1>7. ASSUME NEW d \in Conn
        PROVE  Ruled(d)'
    <2>1. CASE d = c
      BY <1>2, <2>1 DEF Ruled, At
    <2>2. CASE d # c
      BY <1>2, <1>3, <2>2, RuledStays DEF Numbering
    <2>. QED  BY <2>1, <2>2
  <1>. QED  BY <1>5, <1>6, <1>7 DEF Numbering

LEMMA CheckNumbering ==
    ASSUME Typed, Numbering, NEW c \in Conn, Check(c)
    PROVE  Numbering'
  <1>1. /\ call'[c].step = "store" /\ call'[c].table = call[c].table /\ call'[c].row = call[c].row
        /\ \A d \in Conn \ {c} : call'[d] = call[d]
    BY CheckDoes
  <1>2. At(c, "check") /\ rows' = rows /\ seq' = seq /\ doubtful' = doubtful
    BY DEF Check
  <1>3. ASSUME NEW a \in Table, NEW i \in Ids, i \notin doubtful'[a]
        PROVE  Fresh(a, i)'
    <2>1. Fresh(a, i)
      BY <1>2, <1>3 DEF Numbering
    <2>2. (Draw(c, a, i)' => Draw(c, a, i)) /\ ~Rewrites(c, a, i)'
      BY <1>1, <1>2 DEF Draw, Rewrites, At
    <2>. QED  BY <1>1, <1>2, <2>1, <2>2, FreshStays
  <1>4. \A a \in Table, i \in Ids : Placed(rows[a][i], a, i)'
    BY <1>2 DEF Numbering, Placed
  <1>5. ASSUME NEW d \in Conn
        PROVE  Ruled(d)'
    <2>1. CASE d = c
      BY <1>1, <2>1 DEF Ruled, At
    <2>2. CASE d # c
      BY <1>1, <1>2, <2>2, RuledStays DEF Numbering
    <2>. QED  BY <2>1, <2>2
  <1>. QED  BY <1>3, <1>4, <1>5 DEF Numbering

LEMMA StoreRowNumbering ==
    ASSUME Typed, Numbering, NEW c \in Conn, NEW done \in BOOLEAN, StoreRow(c, done)
    PROVE  Numbering'
  <1>1. PICK t, row, n : t = call[c].table /\ row = call[c].row /\ n = row.id.v
    OBVIOUS
  <1>2. /\ At(c, "store") /\ seq' = seq /\ doubtful' = doubtful
        /\ t \in Table /\ n \in Ids
    BY <1>1, InsertingCall DEF StoreRow
  <1>3. /\ call'[c].step = "index"
        /\ \A d \in Conn \ {c} : call'[d] = call[d]
        /\ \A a \in Table, i \in Ids : (a # t \/ i # n) => rows'[a][i] = rows[a][i]
        /\ rows'[t][n] \in {row, rows[t][n]}
    BY <1>1, StoreRowDoes
  <1>4. Draw(c, t, n)
    BY <1>1, <1>2 DEF Draw
  <1>5. ASSUME NEW a \in Table, NEW i \in Ids, i \notin doubtful'[a]
        PROVE  Fresh(a, i)'
    <2>1. Fresh(a, i)
      BY <1>2, <1>5 DEF Numbering
    <2>2. ~Draw(c, a, i)' /\ ~Rewrites(c, a, i)'
      BY <1>3 DEF Draw, Rewrites, At
    <2>3. CASE a = t /\ i = n
      <3>1. i <= seq[a] /\ \A d \in Conn : (Draw(d, a, i) => d = c) /\ ~Rewrites(d, a, i)
        BY <1>4, <2>1, <2>3 DEF Fresh
      <3>2. \A d \in Conn : ~Draw(d, a, i)' /\ ~Rewrites(d, a, i)'
        BY <1>3, <2>2, <3>1 DEF Draw, Rewrites, At
      <3>. QED  BY <1>2, <3>1, <3>2 DEF Fresh
    <2>4. CASE ~(a = t /\ i = n)
      BY <1>2, <1>3, <2>1, <2>2, <2>4, FreshStays
    <2>. QED  BY <2>3, <2>4
  <1>6. ASSUME NEW a \in Table, NEW i \in Ids
        PROVE  Placed(rows[a][i], a, i)'
    <2>1. Placed(rows[a][i], a, i)
      BY DEF Numbering
    <2>2. CASE a = t /\ i = n /\ rows'[t][n] = row
      BY <1>1, <2>2 DEF Placed
    <2>3. CASE rows'[a][i] = rows[a][i]
      BY <1>2, <2>1, <2>3 DEF Placed
    <2>. QED  BY <1>3, <2>2, <2>3
  <1>7. ASSUME NEW d \in Conn
        PROVE  Ruled(d)'
    <2>1. CASE d = c
      BY <1>3, <2>1 DEF Ruled, At
    <2>2. CASE d # c
      BY <1>2, <1>3, <2>2, RuledStays DEF Numbering
    <2>. QED  BY <2>1, <2>2
  <1>. QED  BY <1>5, <1>6, <1>7 DEF Numbering

LEMMA UpdateScanNumbering ==
    ASSUME Typed, Numbering, NEW c \in Conn, UpdateScan(c)
    PROVE  Numbering'
  <1>1. PICK t \in Table, where \in Clauses, set \in Settings,
             todo \in SUBSET (Ids \X (Row \cup {NoRow})), S \in SUBSET Ids :
          UpdateScans(c, t, where, set, todo, S)
    BY UpdateScanDoes
  <1>2. /\ call[c] = [step |-> "update", table |-> t, where |-> where, set |-> set]
        /\ todo = {<<m[2].id.v, Change(m[2], set)>> : m \in Matching(t, where)}
        /\ S = {m[2].id.v : m \in {m \in Matching(t, where) : m[1] # t}}
        /\ \A d \in Conn \ {c} : call'[d] = call[d]
        /\ call'[c] = Idle \/ (/\ call'[c].step = "rows" /\ call'[c].table = t
                               /\ call'[c].todo = todo)
    BY <1>1 DEF UpdateScans
  <1>3. /\ doubtful'[t] = doubtful[t] \cup S
        /\ \A a \in Table : doubtful[a] \subseteq doubtful'[a]
    BY <1>1, MarkIds DEF UpdateScans, Typed
  <1>4. rows' = rows /\ seq' = seq
    BY DEF UpdateScan
  <1>5. set.col = "id" => set.val.v \in doubtful[t]
    <2>1. Ruled(c) /\ call[c].step = "update" /\ call[c].set = set /\ call[c].table = t /\ At(c, "update")
      BY <1>2 DEF Numbering, UpdateScan
    <2>. QED  BY <2>1 DEF Ruled
  <1>6. ASSUME NEW e \in todo
        PROVE  /\ e[1] \notin doubtful'[t] => rows[t][e[1]] # NoRow
               /\ e[2].id.v = e[1] \/ e[2].id.v \in doubtful'[t]
    <2>1. PICK m \in Matching(t, where) : e = <<m[2].id.v, Change(m[2], set)>>
      BY <1>2
    <2>2. m[1] \in Table /\ m[2] \in Row /\ \E i \in Ids : m[2] = rows[m[1]][i]
      BY MatchingRows
    <2>3. e[1] \notin doubtful'[t] => rows[t][e[1]] # NoRow
      <3>1. ASSUME e[1] \notin doubtful'[t]
            PROVE  rows[t][e[1]] # NoRow
        <4>1. m[1] = t
          BY <1>2, <1>3, <2>1, <3>1
        <4>2. PICK i \in Ids : m[2] = rows[t][i]
          BY <2>2, <4>1
        <4>3. rows[t][i] # NoRow
          BY <2>2, <4>2, SQLConstants
        <4>4. rows[t][i].id.v = i \/ rows[t][i].id.v \in doubtful[t]
          BY <4>3 DEF Numbering, Placed
        <4>. QED  BY <1>3, <2>1, <3>1, <4>2, <4>3, <4>4
      <3>. QED  BY <3>1
    <2>4. e[2].id.v = e[1] \/ e[2].id.v \in doubtful'[t]
      <3>1. CASE set.col = "id"
        <4>1. Change(m[2], set).id = set.val
          BY <2>2, <3>1 DEF Change, Row
        <4>. QED  BY <1>3, <1>5, <2>1, <3>1, <4>1
      <3>2. CASE set.col # "id"
        <4>1. Change(m[2], set).id = m[2].id
          BY <2>2, <3>2, ChangedRow
        <4>. QED  BY <2>1, <4>1
      <3>. QED  BY <3>1, <3>2
    <2>. QED  BY <2>3, <2>4
  <1>7. ASSUME NEW a \in Table, NEW i \in Ids, i \notin doubtful'[a]
        PROVE  Fresh(a, i)'
    <2>1. Fresh(a, i)
      BY <1>3, <1>7 DEF Numbering
    <2>2. ~Draw(c, a, i)'
      BY <1>2 DEF Draw, At
    <2>3. CASE Rewrites(c, a, i)'
      <3>1. a = t /\ \E e \in todo : e[1] = i
        BY <1>2, <2>3 DEF Rewrites, At
      <3>2. rows[a][i] # NoRow
        BY <1>6, <1>7, <3>1
      <3>3. i <= seq[a] /\ \A d \in Conn : ~Draw(d, a, i)
        BY <2>1, <3>2 DEF Fresh
      <3>4. \A d \in Conn : ~Draw(d, a, i)'
        BY <1>2, <2>2, <3>3 DEF Draw, At
      <3>. QED  BY <1>4, <3>3, <3>4 DEF Fresh
    <2>4. CASE ~Rewrites(c, a, i)'
      BY <1>2, <1>4, <2>1, <2>2, <2>4, FreshStays
    <2>. QED  BY <2>3, <2>4
  <1>8. \A a \in Table, i \in Ids : Placed(rows[a][i], a, i)'
    BY <1>3, <1>4 DEF Numbering, Placed
  <1>9. ASSUME NEW d \in Conn
        PROVE  Ruled(d)'
    <2>1. CASE d = c
      BY <1>2, <1>6, <2>1 DEF Ruled, At, Placed
    <2>2. CASE d # c
      BY <1>2, <1>3, <2>2, RuledStays DEF Numbering
    <2>. QED  BY <2>1, <2>2
  <1>. QED  BY <1>7, <1>8, <1>9 DEF Numbering

LEMMA DeleteScanNumbering ==
    ASSUME Typed, Numbering, NEW c \in Conn, DeleteScan(c)
    PROVE  Numbering'
  <1>1. PICK t \in Table, where \in Clauses, todo \in SUBSET (Ids \X (Row \cup {NoRow})) :
          DeleteScans(c, t, where, todo)
    BY DeleteScanDoes
  <1>2. /\ \A d \in Conn \ {c} : call'[d] = call[d]
        /\ call'[c] = Idle \/ (/\ call'[c].step = "rows" /\ call'[c].table = t
                               /\ call'[c].todo = todo)
        /\ \A e \in todo : e[2] = NoRow
    BY <1>1 DEF DeleteScans
  <1>3. rows' = rows /\ seq' = seq /\ doubtful' = doubtful
    BY DEF DeleteScan
  <1>4. ASSUME NEW a \in Table, NEW i \in Ids, i \notin doubtful'[a]
        PROVE  Fresh(a, i)'
    <2>1. Fresh(a, i)
      BY <1>3, <1>4 DEF Numbering
    <2>2. ~Draw(c, a, i)' /\ ~Rewrites(c, a, i)'
      BY <1>2 DEF Draw, Rewrites, At
    <2>. QED  BY <1>2, <1>3, <2>1, <2>2, FreshStays
  <1>5. \A a \in Table, i \in Ids : Placed(rows[a][i], a, i)'
    BY <1>3 DEF Numbering, Placed
  <1>6. ASSUME NEW d \in Conn
        PROVE  Ruled(d)'
    <2>1. CASE d = c
      BY <1>2, <2>1 DEF Ruled, At, Placed
    <2>2. CASE d # c
      BY <1>2, <1>3, <2>2, RuledStays DEF Numbering
    <2>. QED  BY <2>1, <2>2
  <1>. QED  BY <1>4, <1>5, <1>6 DEF Numbering

LEMMA ChangeRowNumbering ==
    ASSUME Typed, Numbering, NEW c \in Conn, NEW done \in BOOLEAN, ChangeRow(c, done)
    PROVE  Numbering'
  <1>0. PICK t \in Table : \E e : Changes(c, t, e, done)
    BY ChangeRowDoes
  <1>1. PICK e : Changes(c, t, e, done)
    BY <1>0
  <1>2. /\ At(c, "rows") /\ call[c].table = t /\ e \in call[c].todo /\ e[1] \in Ids
        /\ call'[c] = Idle \/ (/\ call'[c].step = "rows" /\ call'[c].table = t
                               /\ call'[c].todo = call[c].todo \ {e})
        /\ \A d \in Conn \ {c} : call'[d] = call[d]
        /\ rows'[t][e[1]] \in {e[2], rows[t][e[1]]}
        /\ \A a \in Table, b \in Ids : (a # t \/ b # e[1]) => rows'[a][b] = rows[a][b]
        /\ seq' = seq /\ doubtful' = doubtful
    BY <1>1 DEF Changes
  <1>3. Placed(e[2], t, e[1])
    BY <1>2 DEF Numbering, Ruled
  <1>4. ASSUME NEW a \in Table, NEW i \in Ids, i \notin doubtful'[a]
        PROVE  Fresh(a, i)'
    <2>1. Fresh(a, i)
      BY <1>2, <1>4 DEF Numbering
    <2>2. ~Draw(c, a, i)' /\ (Rewrites(c, a, i)' => Rewrites(c, a, i))
      BY <1>2 DEF Draw, Rewrites, At
    <2>3. CASE rows'[a][i] # NoRow => rows[a][i] # NoRow
      BY <1>2, <2>1, <2>2, <2>3, FreshStays
    <2>4. CASE rows'[a][i] # NoRow /\ rows[a][i] = NoRow
      <3>1. a = t /\ i = e[1] /\ e[2] # NoRow
        BY <1>2, <2>4
      <3>2. Rewrites(c, a, i)
        BY <1>2, <3>1 DEF Rewrites
      <3>3. i <= seq[a] /\ \A d \in Conn : ~Draw(d, a, i)
        BY <2>1, <3>2 DEF Fresh
      <3>4. \A d \in Conn : ~Draw(d, a, i)'
        BY <1>2, <2>2, <3>3 DEF Draw, At
      <3>. QED  BY <1>2, <3>3, <3>4 DEF Fresh
    <2>. QED  BY <2>3, <2>4
  <1>5. ASSUME NEW a \in Table, NEW i \in Ids
        PROVE  Placed(rows[a][i], a, i)'
    <2>1. Placed(rows[a][i], a, i)
      BY DEF Numbering
    <2>2. CASE a = t /\ i = e[1] /\ rows'[t][e[1]] = e[2]
      BY <1>2, <1>3, <2>2 DEF Placed
    <2>3. CASE rows'[a][i] = rows[a][i]
      BY <1>2, <2>1, <2>3 DEF Placed
    <2>. QED  BY <1>2, <2>2, <2>3
  <1>6. ASSUME NEW d \in Conn
        PROVE  Ruled(d)'
    <2>1. CASE d = c
      BY <1>2, <2>1 DEF Numbering, Ruled, At, Placed
    <2>2. CASE d # c
      BY <1>2, <2>2, RuledStays DEF Numbering
    <2>. QED  BY <2>1, <2>2
  <1>. QED  BY <1>4, <1>5, <1>6 DEF Numbering

LEMMA ClearRowNumbering ==
    ASSUME Typed, Numbering, NEW c \in Conn, ClearRow(c)
    PROVE  Numbering'
  <1>1. PICK e : Clears(c, e)
    BY ClearRowDoes
  <1>2. /\ call'[c].step = "clear"
        /\ \A d \in Conn \ {c} : call'[d] = call[d]
        /\ \A a \in Table, i \in Ids : rows'[a][i] \in {NoRow, rows[a][i]}
        /\ seq' = seq /\ doubtful' = doubtful
    BY <1>1 DEF Clears
  <1>3. ASSUME NEW a \in Table, NEW i \in Ids, i \notin doubtful'[a]
        PROVE  Fresh(a, i)'
    <2>1. Fresh(a, i)
      BY <1>2, <1>3 DEF Numbering
    <2>2. ~Draw(c, a, i)' /\ ~Rewrites(c, a, i)'
      BY <1>2 DEF Draw, Rewrites, At
    <2>3. rows'[a][i] # NoRow => rows[a][i] # NoRow
      BY <1>2
    <2>. QED  BY <1>2, <2>1, <2>2, <2>3, FreshStays
  <1>4. \A a \in Table, i \in Ids : Placed(rows[a][i], a, i)'
    BY <1>2 DEF Numbering, Placed
  <1>5. ASSUME NEW d \in Conn
        PROVE  Ruled(d)'
    <2>1. CASE d = c
      BY <1>2, <2>1 DEF Ruled, At
    <2>2. CASE d # c
      BY <1>2, <2>2, RuledStays DEF Numbering
    <2>. QED  BY <2>1, <2>2
  <1>. QED  BY <1>3, <1>4, <1>5 DEF Numbering

LEMMA OtherNumbering ==
    ASSUME Typed, Numbering, NEW c \in Conn, NEW done \in BOOLEAN,
           \/ CreatePut(c, done) \/ ReadSeq(c) \/ Refuse(c) \/ IndexRow(c, done)
           \/ DropScan(c) \/ DropSchema(c) \/ ScanIndex(c) \/ UnindexRow(c) \/ ForgetSchema(c)
           \/ AlterSchema(c, done) \/ BuildScan(c) \/ BuildRow(c, done)
    PROVE  Numbering'
  <1>1. rows' = rows /\ seq' = seq /\ doubtful' = doubtful
    BY DEF CreatePut, ReadSeq, Refuse, IndexRow, DropScan, DropSchema, ScanIndex, UnindexRow, ForgetSchema,
           AlterSchema, BuildScan, BuildRow, histories
  <1>2. /\ call'[c] = Idle \/ call'[c].step \notin {"check", "store", "rows", "update"}
        /\ \A d \in Conn \ {c} : call'[d] = call[d]
    <2>1. CASE CreatePut(c, done) \/ Refuse(c) \/ IndexRow(c, done) \/ ForgetSchema(c)
      <3>1. Then(c, Idle)
        BY <2>1 DEF CreatePut, Refuse, IndexRow, ForgetSchema
      <3>. QED  BY <3>1, ThenIdle
    <2>2. CASE ReadSeq(c)
      BY <2>2, ReadSeqDoes
    <2>3. CASE UnindexRow(c)
      BY <2>3, UnindexRowDoes DEF Unindexes
    <2>4. CASE DropScan(c)
      <3>1. /\ call'[c] = [step |-> "clear", table |-> call[c].table, todo |-> Scanned(call[c].table)]
            /\ \A d \in Conn \ {c} : call'[d] = call[d]
        BY <2>4, DropScanDoes
      <3>. QED  BY <3>1
    <2>5. CASE DropSchema(c)
      <3>1. /\ call'[c] = [step |-> "unindex", table |-> call[c].table]
            /\ \A d \in Conn \ {c} : call'[d] = call[d]
        BY <2>5, DropSchemaDoes
      <3>. QED  BY <3>1
    <2>6. CASE ScanIndex(c)
      BY <2>6, ScanIndexDoes
    <2>7. CASE AlterSchema(c, done)
      <3>1. /\ call'[c] = [step |-> "survey", table |-> call[c].table]
            /\ \A d \in Conn \ {c} : call'[d] = call[d]
        BY <2>7, AlterSchemaTyped
      <3>. QED  BY <3>1
    <2>8. CASE BuildScan(c)
      <3>1. PICK t, todo : BuildScans(c, t, todo)
        BY <2>8, BuildScanDoes
      <3>. QED  BY <3>1 DEF BuildScans
    <2>9. CASE BuildRow(c, done)
      BY <2>9, BuildRowDoes
    <2>. QED  BY <2>1, <2>2, <2>3, <2>4, <2>5, <2>6, <2>7, <2>8, <2>9
  <1>. QED  BY <1>1, <1>2, AsideNumbering

LEMMA NextNumbering ==
    ASSUME Typed, Numbering, [Next]_vars
    PROVE  Numbering'
  <1>1. ASSUME NEW c \in Conn, Step(c)
        PROVE  Numbering'
    <2>1. TRUE \in BOOLEAN
      OBVIOUS
    <2>. QED  BY <1>1, <2>1, NextIdNumbering, CheckNumbering, StoreRowNumbering, UpdateScanNumbering,
              DeleteScanNumbering, ChangeRowNumbering, ClearRowNumbering, OtherNumbering DEF Step
  <1>2. CASE UNCHANGED vars
    BY <1>2 DEF vars, Numbering, Fresh, Draw, Rewrites, Placed, Ruled, At
  <1>3. ASSUME NEW c \in Conn, Fail(c)
        PROVE  Numbering'
    <2>1. rows' = rows /\ seq' = seq /\ doubtful' = doubtful
      BY <1>3 DEF Fail
    <2>. QED  BY <1>3, <2>1, FailTyped, AsideNumbering
  <1>4. ASSUME NEW c \in Conn, Crash(c)
        PROVE  Numbering'
    <2>1. rows' = rows /\ seq' = seq /\ doubtful' = doubtful
      BY <1>4 DEF Crash
    <2>. QED  BY <1>4, <2>1, CrashDoes, AsideNumbering
  <1>. QED  BY <1>1, <1>2, <1>3, <1>4, StatementNumbering DEF Next

LEMMA AlwaysNumbering == Spec => [](Typed /\ Numbering)
  <1>1. Init => Typed /\ Numbering
    BY InitTyped, InitNumbering
  <1>2. Typed /\ Numbering /\ [Next]_vars => (Typed /\ Numbering)'
    BY NextTyped, NextNumbering
  <1>. QED  BY <1>1, <1>2, PTL DEF Spec

\* The number that next_id gives to an INSERT is no other row's and no other
\* INSERT's, but where two connections read the sequence before either wrote it
\* and where ids are given, set or brought from another table
\* (sql_engine.py:589-615, db.py:193-208).
THEOREM FreshNumbers == Spec => []NumbersAreFresh
  BY AlwaysNumbering, NumberingIsNumbersAreFresh, PTL

-----------------------------------------------------------------------------
(* WHERE clauses *)

LEMMA ManyStretches ==
    ASSUME NEW n \in Nat \ {0}
    PROVE  /\ \A part \in Stretches(n, 1 .. n - 1) : \E i \in 1 .. n : part = {i}
           /\ \A i \in 1 .. n : {i} \in Stretches(n, 1 .. n - 1)
  <1>1. ASSUME NEW part \in Stretches(n, 1 .. n - 1)
        PROVE  \E i \in 1 .. n : part = {i}
    <2>1. PICK p \in (1 .. n) \X (1 .. n) :
            /\ part = p[1] .. p[2] /\ p[1] <= p[2]
            /\ \A i \in p[1] .. p[2] - 1 : i \notin 1 .. n - 1
      BY <1>1 DEF Stretches
    <2>2. p[1] \in 1 .. n /\ p[2] \in 1 .. n
      OBVIOUS
    <2>3. CASE p[1] < p[2]
      <3>1. p[1] \in p[1] .. p[2] - 1 /\ p[1] \in 1 .. n - 1
        BY <2>2, <2>3
      <3>. QED  BY <2>1, <3>1
    <2>4. CASE p[1] = p[2]
      <3>1. part = {p[1]}
        BY <2>1, <2>2, <2>4
      <3>. QED  BY <2>2, <3>1
    <2>. QED  BY <2>1, <2>2, <2>3, <2>4
  <1>2. ASSUME NEW i \in 1 .. n
        PROVE  {i} \in Stretches(n, 1 .. n - 1)
    <2>. DEFINE p == <<i, i>>
    <2>1. /\ p \in (1 .. n) \X (1 .. n)
          /\ p[1] <= p[2]
          /\ p[1] - 1 \in (1 .. n - 1) \cup {0} /\ p[2] \in (1 .. n - 1) \cup {n}
          /\ \A j \in p[1] .. p[2] - 1 : j \notin 1 .. n - 1
      OBVIOUS
    <2>2. {i} = p[1] .. p[2]
      OBVIOUS
    <2>. HIDE DEF p
    <2>. QED  BY <2>1, <2>2 DEF Stretches
  <1>. QED  BY <1>1, <1>2

LEMMA OneStretch ==
    ASSUME NEW n \in Nat \ {0}
    PROVE  Stretches(n, {}) = {1 .. n}
  <1>1. ASSUME NEW part \in Stretches(n, {})
        PROVE  part = 1 .. n
    <2>1. PICK p \in (1 .. n) \X (1 .. n) :
            part = p[1] .. p[2] /\ p[1] - 1 \in {} \cup {0} /\ p[2] \in {} \cup {n}
      BY <1>1 DEF Stretches
    <2>. QED  BY <2>1
  <1>2. 1 .. n \in Stretches(n, {})
    <2>. DEFINE p == <<1, n>>
    <2>1. /\ p \in (1 .. n) \X (1 .. n)
          /\ p[1] <= p[2]
          /\ p[1] - 1 \in {} \cup {0} /\ p[2] \in {} \cup {n}
          /\ \A j \in p[1] .. p[2] - 1 : j \notin {}
      OBVIOUS
    <2>2. 1 .. n = p[1] .. p[2]
      OBVIOUS
    <2>. HIDE DEF p
    <2>. QED  BY <2>1, <2>2 DEF Stretches
  <1>. QED  BY <1>1, <1>2

LEMMA Kinds ==
    /\ Null.kind = "null"
    /\ \A n : Num(n).kind = "int" /\ Num(n).v = n
    /\ \A n : Text(n).kind = "text" /\ Text(n).v = n
    /\ \A n : Truth(n).kind = "bool" /\ Truth(n).v = n
    /\ \A m, n : Num(m) # Text(n) /\ Num(m) # Null /\ Text(m) # Null
    /\ \A m, n : (m = n) <=> (Num(m) = Num(n))
    /\ \A m, n : (m = n) <=> (Text(m) = Text(n))
  BY DEF Null, Num, Text, Truth

LEMMA Cells ==
    ASSUME NEW row \in Row, NEW col \in {"id", "u"}
    PROVE  \/ row[col] = Null /\ col = "u"
           \/ \E n \in Int : row[col] = Num(n)
           \/ \E n \in Int : row[col] = Text(n)
  <1>1. row.id \in {Num(n) : n \in Ids} /\ row.u \in Texts \cup {Null}
    BY DEF Row
  <1>2. CASE col = "id"
    BY <1>1, <1>2, SQLConstants DEF Ids
  <1>3. CASE col = "u"
    BY <1>1, <1>3, SQLConstants DEF Texts
  <1>. QED  BY <1>2, <1>3

LEMMA ValueKinds ==
    ASSUME NEW x \in Value
    PROVE  \/ x \in {Null, Truth(0), Truth(1)}
           \/ \E n \in Int : x = Num(n)
           \/ \E n \in Int : x = Text(n)
  BY DEF Value, Num, Text

\* A cell and a value that is neither absent nor a truth value compare as in SQL.
LEMMA ComparesAlike ==
    ASSUME NEW m \in Int, NEW cell \in {Num(m), Text(m)}, NEW n \in Int, NEW x \in {Num(n), Text(n)}
    PROVE  /\ Same(cell, x) <=> SQLSame(cell, x)
           /\ Before(cell, x) <=> SQLBefore(cell, x)
           /\ ~Before(cell, x) /\ ~Same(cell, x) <=> SQLBefore(x, cell)
  <1>1. CASE cell = Num(m) /\ x = Num(n)
    BY <1>1, Kinds DEF Same, Before, AsNumbers, SQLSame, SQLBefore, Numeric
  <1>2. CASE cell = Num(m) /\ x = Text(n)
    BY <1>2, Kinds DEF Same, Before, AsNumbers, ShownBefore, Rank, SQLSame, SQLBefore, Numeric
  <1>3. CASE cell = Text(m) /\ x = Num(n)
    BY <1>3, Kinds DEF Same, Before, AsNumbers, ShownBefore, Rank, SQLSame, SQLBefore, Numeric
  <1>4. CASE cell = Text(m) /\ x = Text(n)
    BY <1>4, Kinds DEF Same, Before, AsNumbers, ShownBefore, Rank, SQLSame, SQLBefore, Numeric
  <1>. QED  BY <1>1, <1>2, <1>3, <1>4

\* IN finds what SQL finds.
LEMMA EqualsAlike ==
    ASSUME NEW m \in Int, NEW cell \in {Num(m), Text(m)}, NEW x \in Value, x # Null
    PROVE  Equal(cell, Literal(x)) <=> SQLSame(cell, x)
  <1>1. CASE \E n \in Int : x = Num(n)
    <2>1. PICK n \in Int : x = Num(n)
      BY <1>1
    <2>2. Literal(x) \in {Num(n), Truth(n)}
      BY <2>1, Kinds DEF Literal
    <2>. QED  BY <2>1, <2>2, Kinds DEF Equal, SQLSame, Numeric, Num, Text, Truth
  <1>2. CASE \E n \in Int : x = Text(n)
    <2>1. PICK n \in Int : x = Text(n)
      BY <1>2
    <2>2. Literal(x) = x
      BY <2>1, Kinds DEF Literal
    <2>. QED  BY <2>1, <2>2, Kinds DEF Equal, SQLSame, Numeric, Num, Text
  <1>3. CASE x \in {Truth(0), Truth(1)}
    <2>1. Literal(x) = x
      BY <1>3 DEF Literal, Truth, Num
    <2>. QED  BY <1>3, <2>1, Kinds DEF Equal, SQLSame, Numeric, Num, Text, Truth
  <1>. QED  BY <1>1, <1>2, <1>3, ValueKinds

\* On one comparison the code and SQL agree.
LEMMA AtomAgrees ==
    ASSUME NEW row \in Row, NEW atom, IsAtom(atom), PlainAtom(atom, {"u"})
    PROVE  Holds(row, atom) <=> SQLHolds(row, atom)
  <1>. DEFINE cell == row[atom.col]
              val == atom.val
  <1>1. /\ cell # Null => \E m \in Int : cell \in {Num(m), Text(m)}
        /\ cell = Null => atom.col = "u"
    <2>1. atom.col \in {"id", "u"}
      BY DEF IsAtom
    <2>2. \/ cell = Null /\ atom.col = "u"
          \/ \E n \in Int : cell = Num(n)
          \/ \E n \in Int : cell = Text(n)
      BY <2>1, Cells
    <2>. HIDE DEF cell
    <2>. QED  BY <2>2, Kinds
  <1>2. CASE atom.op = "IS NULL"
    BY <1>2 DEF Holds, SQLHolds
  <1>3. CASE atom.op = "IS NOT NULL"
    BY <1>3 DEF Holds, SQLHolds
  <1>4. CASE atom.op = "LIKE"
    <2>1. Holds(row, atom) <=> cell \in val \ {Null}
      BY <1>4, Zenon DEF Holds
    <2>2. SQLHolds(row, atom) <=> cell # Null /\ cell \in val
      BY <1>4, Zenon DEF SQLHolds
    <2>. QED  BY <2>1, <2>2
  <1>5. CASE atom.op = "IN"
    <2>1. ASSUME NEW x \in val
          PROVE  Equal(cell, Literal(x)) <=> cell # Null /\ x # Null /\ SQLSame(cell, x)
      <3>1. x \in Value /\ x # Null
        BY <1>5 DEF IsAtom, PlainAtom
      <3>2. CASE cell = Null
        <4>1. ~Equal(cell, Literal(x))
          BY <3>1, <3>2, ValueKinds, Kinds DEF Equal, Literal, Null, Num, Text, Truth
        <4>. QED  BY <3>2, <4>1
      <3>3. CASE cell # Null
        BY <1>1, <3>1, <3>3, EqualsAlike
      <3>. QED  BY <3>2, <3>3
    <2>2. Holds(row, atom) <=> \E x \in val : Equal(cell, Literal(x))
      BY <1>5, Zenon DEF Holds
    <2>3. SQLHolds(row, atom) <=> \E x \in val : (cell # Null /\ x # Null) /\ SQLSame(cell, x)
      BY <1>5, Zenon DEF SQLHolds
    <2>. HIDE DEF cell, val
    <2>. QED  BY <2>1, <2>2, <2>3
  <1>6. CASE atom.op \in {"=", "<>", "<", ">"}
    <2>1. val \in Value /\ Literal(val).kind \notin {"null", "bool"}
      BY <1>6 DEF IsAtom, PlainAtom
    <2>2. Literal(val) = val /\ \E n \in Int : val \in {Num(n), Text(n)}
      <3>1. val \notin {Null, Truth(0), Truth(1)}
        BY <2>1, Kinds DEF Literal, Null, Truth, Num
      <3>2. Literal(val) = val
        BY <2>1, Kinds DEF Literal
      <3>. QED  BY <2>1, <3>1, <3>2, ValueKinds
    <2>3. val # Null
      BY <2>2, Kinds
    <2>4. cell # Null =>
            /\ Same(cell, val) <=> SQLSame(cell, val)
            /\ Before(cell, val) <=> SQLBefore(cell, val)
            /\ ~Before(cell, val) /\ ~Same(cell, val) <=> SQLBefore(val, cell)
      BY <1>1, <2>2, ComparesAlike
    <2>5. cell = Null => ~Same(cell, val)
      BY <2>3, Kinds DEF Same, AsNumbers
    <2>6. CASE atom.op = "="
      <3>1. Holds(row, atom) <=> Same(cell, Literal(val))
        BY <2>6, Zenon DEF Holds
      <3>2. SQLHolds(row, atom) <=> (cell # Null /\ val # Null) /\ SQLSame(cell, val)
        BY <2>6, Zenon DEF SQLHolds
      <3>. HIDE DEF cell, val
      <3>. QED  BY <2>2, <2>3, <2>4, <2>5, <3>1, <3>2
    <2>7. CASE atom.op = "<>"
      <3>1. Holds(row, atom) <=> ~Same(cell, Literal(val))
        BY <2>7, Zenon DEF Holds
      <3>2. SQLHolds(row, atom) <=> (cell # Null /\ val # Null) /\ ~SQLSame(cell, val)
        BY <2>7, Zenon DEF SQLHolds
      <3>3. cell # Null
        BY <1>1, <2>7 DEF PlainAtom
      <3>. HIDE DEF cell, val
      <3>. QED  BY <2>2, <2>3, <2>4, <3>1, <3>2, <3>3
    <2>8. CASE atom.op = "<"
      <3>1. Holds(row, atom) <=> cell # Null /\ Before(cell, Literal(val))
        BY <2>8, Zenon DEF Holds
      <3>2. SQLHolds(row, atom) <=> (cell # Null /\ val # Null) /\ SQLBefore(cell, val)
        BY <2>8, Zenon DEF SQLHolds
      <3>. HIDE DEF cell, val
      <3>. QED  BY <2>2, <2>3, <2>4, <3>1, <3>2
    <2>9. CASE atom.op = ">"
      <3>1. Holds(row, atom) <=> /\ cell # Null
                                 /\ ~Before(cell, Literal(val))
                                 /\ ~Same(cell, Literal(val))
        BY <2>9, Zenon DEF Holds
      <3>2. SQLHolds(row, atom) <=> (cell # Null /\ val # Null) /\ SQLBefore(val, cell)
        BY <2>9, Zenon DEF SQLHolds
      <3>. HIDE DEF cell, val
      <3>. QED  BY <2>2, <2>3, <2>4, <3>1, <3>2
    <2>. QED  BY <1>6, <2>6, <2>7, <2>8, <2>9
  <1>. QED  BY <1>2, <1>3, <1>4, <1>5, <1>6 DEF IsAtom

\* And so on every plain clause.
LEMMA PlainMatches ==
    ASSUME NEW where \in Clauses, Plain(where, {"u"}), NEW row \in Row
    PROVE  Match(row, where) <=> SQLTrue(row, where)
  <1>1. CASE where = Everything
    BY <1>1 DEF Match, SQLTrue
  <1>2. CASE where # Everything
    <2>. DEFINE n == Len(where.atoms)
                atom(i) == where.atoms[i]
    <2>1. n \in Nat \ {0} /\ where.ands \subseteq 1 .. n - 1 /\ \A i \in 1 .. n : IsAtom(atom(i))
      BY <1>2, SQLConstants DEF IsClause
    <2>2. \A i \in 1 .. n : Holds(row, atom(i)) <=> SQLHolds(row, atom(i))
      BY <2>1, AtomAgrees DEF Plain
    <2>3. where.ands = {} \/ where.ands = 1 .. n - 1
      BY DEF Plain
    <2>4. CASE where.ands = {}
      <3>1. Match(row, where) <=> \E i \in 1 .. n : Holds(row, atom(i))
        BY <1>2, <2>4 DEF Match
      <3>2. SQLTrue(row, where) <=>
              \E part \in Stretches(n, 1 .. n - 1) : \A i \in part : SQLHolds(row, atom(i))
        <4>1. (1 .. n - 1) \ where.ands = 1 .. n - 1
          BY <2>4
        <4>. QED  BY <1>2, <4>1 DEF SQLTrue
      <3>3. SQLTrue(row, where) <=> \E i \in 1 .. n : SQLHolds(row, atom(i))
        <4>. HIDE DEF n, atom
        <4>1. ASSUME NEW i \in 1 .. n, SQLHolds(row, atom(i))
              PROVE  \E part \in Stretches(n, 1 .. n - 1) : \A j \in part : SQLHolds(row, atom(j))
          <5>1. {i} \in Stretches(n, 1 .. n - 1)
            BY <2>1, ManyStretches
          <5>. QED  BY <4>1, <5>1
        <4>2. ASSUME NEW part \in Stretches(n, 1 .. n - 1), \A j \in part : SQLHolds(row, atom(j))
              PROVE  \E i \in 1 .. n : SQLHolds(row, atom(i))
          <5>1. PICK i \in 1 .. n : part = {i}
            BY <2>1, ManyStretches
          <5>. QED  BY <4>2, <5>1
        <4>. QED  BY <3>2, <4>1, <4>2
      <3>. QED  BY <2>2, <3>1, <3>3
    <2>5. CASE where.ands = 1 .. n - 1 /\ where.ands # {}
      <3>1. SQLTrue(row, where) <=>
              \E part \in Stretches(n, {}) : \A i \in part : SQLHolds(row, atom(i))
        <4>1. (1 .. n - 1) \ where.ands = {}
          BY <2>5
        <4>. QED  BY <1>2, <4>1 DEF SQLTrue
      <3>2. SQLTrue(row, where) <=> \A i \in 1 .. n : SQLHolds(row, atom(i))
        <4>. HIDE DEF n, atom
        <4>1. Stretches(n, {}) = {1 .. n}
          BY <2>1, OneStretch
        <4>. QED  BY <3>1, <4>1
      <3>3. Match(row, where) <=>
              \A part \in Stretches(n, 1 .. n - 1) :
                  Holds(row, IF Cardinality(part) = 1 THEN atom(First(part))
                             ELSE Swallowing(atom(First(part))))
        BY <1>2, <2>5 DEF Match
      <3>4. ASSUME NEW i \in 1 .. n
            PROVE  First({i}) = i /\ Cardinality({i}) = 1
        <4>1. \E k \in {i} : \A j \in {i} : k <= j
          BY <2>1
        <4>2. First({i}) \in {i}
          BY <4>1, Zenon DEF First
        <4>. QED  BY <4>2, FS_Singleton
      <3>5. Match(row, where) <=> \A i \in 1 .. n : Holds(row, atom(i))
        <4>. HIDE DEF n, atom
        <4>1. ASSUME Match(row, where), NEW i \in 1 .. n
              PROVE  Holds(row, atom(i))
          <5>1. {i} \in Stretches(n, 1 .. n - 1)
            BY <2>1, ManyStretches
          <5>. QED  BY <3>3, <3>4, <4>1, <5>1
        <4>2. ASSUME \A i \in 1 .. n : Holds(row, atom(i)), NEW part \in Stretches(n, 1 .. n - 1)
              PROVE  Holds(row, IF Cardinality(part) = 1 THEN atom(First(part))
                                ELSE Swallowing(atom(First(part))))
          <5>1. PICK i \in 1 .. n : part = {i}
            BY <2>1, ManyStretches
          <5>2. Cardinality(part) = 1 /\ First(part) = i
            BY <3>4, <5>1
          <5>. QED  BY <4>2, <5>2
        <4>. QED  BY <3>3, <4>1, <4>2
      <3>. QED  BY <2>2, <3>2, <3>5
    <2>. QED  BY <2>3, <2>4, <2>5
  <1>. QED  BY <1>1, <1>2

-----------------------------------------------------------------------------
(* What the statements say *)

\* Every row is under its own id.
InPlace == \A t \in Table, i \in Ids : rows[t][i] # NoRow => rows[t][i].id = Num(i)

AsWanted == \A t \in Table, i \in Ids : wanted[t][i] = rows[t][i]

\* The steps before which a table may not hold what it should.
Due == {"store", "update", "delete", "rows", "drop", "clear"}

\* A row that SQL's reading of the clause selects.
Meeting(row, where) == row # NoRow /\ SQLTrue(row, where)

\* What the statement of c has still to do to its table, and to no other, is what
\* separates the table from what it should hold.
Meant(c) ==
    LET k == call[c]
        t == k.table
    IN  /\ \A a \in Table \ {t}, i \in Ids : wanted[a][i] = rows[a][i]
        /\ k.step \notin Due => \A i \in Ids : wanted[t][i] = rows[t][i]
        /\ k.step = "store" =>
               \A i \in Ids : wanted[t][i] = IF i = k.row.id.v THEN k.row ELSE rows[t][i]
        /\ k.step \in {"update", "delete"} => Plain(k.where, {"u"})
        /\ k.step = "update" =>
               /\ k.set.col = "u"
               /\ \A i \in Ids : wanted[t][i] = IF Meeting(rows[t][i], k.where)
                                                THEN Change(rows[t][i], k.set) ELSE rows[t][i]
        /\ k.step = "delete" =>
               \A i \in Ids : wanted[t][i] = IF Meeting(rows[t][i], k.where) THEN NoRow ELSE rows[t][i]
        /\ k.step = "rows" =>
               /\ \A e \in k.todo : e[2] # NoRow => e[2].id = Num(e[1])
               /\ \A i \in Ids : /\ \A e \in k.todo : e[1] = i => wanted[t][i] = e[2]
                                 /\ (\A e \in k.todo : e[1] # i) => wanted[t][i] = rows[t][i]
        /\ k.step \in {"drop", "clear"} => \A i \in Ids : wanted[t][i] = NoRow
        /\ k.step = "clear" => /\ \A e \in k.todo : e[1] = t
                               /\ \A i \in Ids : rows[t][i] # NoRow => <<t, i>> \in k.todo

AllMeant ==
    /\ InPlace
    /\ Quiet => AsWanted
    /\ \A c \in Conn : call[c] # Idle => Meant(c)

Meaning == liberties = {} => AllMeant

\* What SQL makes of a table in which every row is in its place.
LEMMA UpdateInPlace ==
    ASSUME NEW T \in Rows, \A i \in Ids : T[i] # NoRow => T[i].id = Num(i),
           NEW where, NEW set \in Settings, set.col = "u", NEW unique,
           ~Doubles(T, where, set, unique)
    PROVE  \A i \in Ids : SQLUpdate(T, where, set, unique)[i] =
                             IF Meeting(T[i], where) THEN Change(T[i], set) ELSE T[i]
  <1>. DEFINE S == {After(r, where, set) : r \in RowsOf(T)}
  <1>1. ASSUME NEW i \in Ids, T[i] # NoRow
        PROVE  T[i] \in Row /\ T[i] \in RowsOf(T) /\ After(T[i], where, set).id = Num(i)
    <2>1. T[i] \in Row
      BY <1>1 DEF Rows
    <2>2. T[i] \in RowsOf(T)
      BY <1>1, RowsOfTyped
    <2>3. After(T[i], where, set).id = T[i].id
      BY <2>1, ChangedRow DEF After
    <2>. QED  BY <1>1, <2>1, <2>2, <2>3
  <1>2. \A s \in S : \E j \in Ids : T[j] # NoRow /\ s = After(T[j], where, set) /\ s.id = Num(j)
    <2>1. ASSUME NEW s \in S
          PROVE  \E j \in Ids : T[j] # NoRow /\ s = After(T[j], where, set) /\ s.id = Num(j)
      <3>1. PICK r \in RowsOf(T) : s = After(r, where, set)
        OBVIOUS
      <3>2. PICK j \in Ids : r = T[j] /\ r # NoRow
        BY RowsOfTyped
      <3>. QED  BY <1>1, <3>1, <3>2
    <2>. QED  BY <2>1
  <1>3. \A i \in Ids : T[i] # NoRow => After(T[i], where, set) \in S
    BY <1>1
  <1>4. SQLUpdate(T, where, set, unique) = Keyed(S)
    BY DEF SQLUpdate
  <1>. HIDE DEF S
  <1>5. ASSUME NEW i \in Ids
        PROVE  Keyed(S)[i] = IF Meeting(T[i], where) THEN Change(T[i], set) ELSE T[i]
    <2>1. Keyed(S)[i] = IF \E r \in S : r.id = Num(i) THEN CHOOSE r \in S : r.id = Num(i) ELSE NoRow
      BY DEF Keyed
    <2>2. CASE T[i] = NoRow
      <3>1. ~ \E r \in S : r.id = Num(i)
        BY <1>2, <2>2, Values
      <3>. QED  BY <2>1, <2>2, <3>1 DEF Meeting
    <2>3. CASE T[i] # NoRow
      <3>1. PICK x : x = After(T[i], where, set)
        OBVIOUS
      <3>2. x \in S /\ x.id = Num(i)
        BY <1>1, <1>3, <2>3, <3>1
      <3>3. \A r \in S : r.id = Num(i) => r = x
        BY <1>2, <3>1, Values
      <3>4. Keyed(S)[i] = x
        BY <2>1, <3>2, <3>3
      <3>. QED  BY <2>3, <3>1, <3>4 DEF After, Meeting
    <2>. QED  BY <2>2, <2>3
  <1>. QED  BY <1>4, <1>5

LEMMA DeleteInPlace ==
    ASSUME NEW T, NEW where
    PROVE  \A i \in Ids : SQLDelete(T, where)[i] = IF Meeting(T[i], where) THEN NoRow ELSE T[i]
  BY DEF SQLDelete, Meeting

LEMMA InsertInPlace ==
    ASSUME NEW T \in Rows, NEW row \in Row, NEW unique,
           T[row.id.v] = NoRow,
           unique => \A i \in Ids : TextOf(T[i]) \cap TextOf(row) = {}
    PROVE  \A i \in Ids : SQLInsert(T, row, unique)[i] = IF i = row.id.v THEN row ELSE T[i]
  <1>1. ~(unique /\ \E r \in RowsOf(T) : TextOf(r) \cap TextOf(row) # {})
    BY RowsOfTyped
  <1>2. SQLInsert(T, row, unique) = [T EXCEPT ![row.id.v] = row]
    BY <1>1 DEF SQLInsert
  <1>. QED  BY <1>2, RowId DEF Rows

LEMMA WantedRows ==
    ASSUME Typed, NEW t \in Table
    PROVE  wanted[t] \in Rows /\ rows[t] \in Rows
  BY DEF Typed

\* What a step of c, alone at work, must show.
LEMMA MeantStep ==
    ASSUME Causes, NEW c \in Conn, call[c] # Idle \/ Quiet, \A d \in Conn \ {c} : call'[d] = call[d],
           InPlace', call'[c] = Idle => AsWanted', call'[c] # Idle => Meant(c)'
    PROVE  AllMeant'
  <1>1. \A d \in Conn \ {c} : call'[d] = Idle
    BY DEF Causes, Alone, Quiet
  <1>2. Quiet' => AsWanted'
    BY DEF Quiet
  <1>. QED  BY <1>1, <1>2 DEF AllMeant

\* A step after which every table holds what it should and nothing is due.
LEMMA SettledStep ==
    ASSUME Typed', Causes, NEW c \in Conn, call[c] # Idle \/ Quiet,
           \A d \in Conn \ {c} : call'[d] = call[d], InPlace', AsWanted',
           call'[c] = Idle \/ call'[c].step \notin Due
    PROVE  AllMeant'
  <1>1. ASSUME call'[c] # Idle
        PROVE  Meant(c)'
    <2>1. call'[c].table \in Table
      BY <1>1, Shapes DEF Typed
    <2>. QED  BY <1>1, <2>1 DEF Meant, AsWanted, Due
  <1>. QED  BY <1>1, MeantStep

\* One in a statement with nothing due, that leaves the tables as they are.
LEMMA CalmStep ==
    ASSUME Typed, Typed', Causes, AllMeant, NEW c \in Conn,
           Quiet \/ (call[c] # Idle /\ call[c].step \notin Due),
           \A d \in Conn \ {c} : call'[d] = call[d],
           call'[c] = Idle \/ call'[c].step \notin Due,
           UNCHANGED <<rows, wanted>>
    PROVE  AllMeant'
  <1>1. AsWanted
    <2>1. CASE Quiet
      BY <2>1 DEF AllMeant
    <2>2. CASE call[c] # Idle /\ call[c].step \notin Due
      BY <2>2 DEF AllMeant, Meant, AsWanted
    <2>. QED  BY <2>1, <2>2
  <1>2. AsWanted' /\ InPlace'
    BY <1>1 DEF AsWanted, AllMeant, InPlace
  <1>. QED  BY <1>2, SettledStep

LEMMA CalmStatementsMeant ==
    ASSUME Typed, Typed', Causes, AllMeant, NEW c \in Conn, NEW t \in Table, "overlap" \notin liberties',
           left' \in 0 .. MaxStatements,
           \/ \E s \in Schemas : Create(c, t, s)
           \/ \E g \in Given : Insert(c, t, g[1], g[2])
           \/ CreateIndex(c, t)
    PROVE  AllMeant'
  <1>1. /\ UNCHANGED <<rows, wanted>>
        /\ call'[c] = Idle \/ call'[c].step \notin Due
        /\ \A d \in Conn \ {c} : call'[d] = call[d]
        /\ Overlap \subseteq liberties'
    <2>1. ASSUME NEW s \in Schemas, Create(c, t, s)
          PROVE  /\ UNCHANGED <<rows, wanted>>
                 /\ call'[c].step \notin Due
                 /\ \A d \in Conn \ {c} : call'[d] = call[d]
                 /\ Overlap \subseteq liberties'
      BY <2>1 DEF Create, Then, Did, Typed, Due
    <2>2. ASSUME NEW g \in Given, Insert(c, t, g[1], g[2])
          PROVE  /\ UNCHANGED <<rows, wanted>>
                 /\ call'[c].step \notin Due
                 /\ \A d \in Conn \ {c} : call'[d] = call[d]
                 /\ Overlap \subseteq liberties'
      <3>1. <<g[1], g[2]>> \in Given
        BY SQLConstants
      <3>2. /\ call'[c].step \in {"number", "check"}
            /\ \A d \in Conn \ {c} : call'[d] = call[d]
            /\ liberties \cup Overlap \subseteq liberties'
        BY <2>2, <3>1, InsertBegins
      <3>. QED  BY <2>2, <3>2 DEF Insert, Due
    <2>3. CASE CreateIndex(c, t)
      BY <2>3, CreateIndexTyped DEF CreateIndex, Due
    <2>. QED  BY <2>1, <2>2, <2>3
  <1>2. Quiet
    BY <1>1 DEF Overlap
  <1>. QED  BY <1>1, <1>2, CalmStep

LEMMA UpdateMeant ==
    ASSUME Typed, Causes, AllMeant, NEW c \in Conn, NEW t \in Table, NEW where \in Clauses,
           NEW set \in Settings, Update(c, t, where, set), liberties' = {}
    PROVE  AllMeant'
  <1>1. PICK unique \in BOOLEAN : Updates(c, t, where, set, unique)
    BY UpdateBegins
  <1>2. /\ call'[c] = [step |-> "update", table |-> t, where |-> where, set |-> set]
        /\ call'[c] # Idle
        /\ \A d \in Conn \ {c} : call'[d] = call[d]
        /\ wanted' = [wanted EXCEPT ![t] = SQLUpdate(wanted[t], where, set, unique)]
    BY <1>1 DEF Updates
  <1>3. Quiet /\ Plain(where, {"u"}) /\ set.col = "u" /\ ~Doubles(wanted[t], where, set, unique)
    <2>1. set.col \in {"id", "u"}
      BY SQLConstants
    <2>2. Overlap = {} /\ OddIf(where) = {} /\ set.col # "id" /\ ~Doubles(wanted[t], where, set, unique)
      BY <1>1 DEF Updates
    <2>. QED  BY <2>1, <2>2 DEF Overlap, OddIf
  <1>4. AsWanted /\ InPlace
    BY <1>3 DEF AllMeant
  <1>5. wanted[t] \in Rows /\ SQLUpdate(wanted[t], where, set, unique) \in Rows
    BY WantedRows, SQLUpdateTyped
  <1>6. /\ \A a \in Table \ {t} : wanted'[a] = wanted[a]
        /\ wanted'[t] = SQLUpdate(wanted[t], where, set, unique)
    BY <1>2, <1>5, WantedOne
  <1>7. \A i \in Ids : wanted[t][i] # NoRow => wanted[t][i].id = Num(i)
    BY <1>4 DEF AsWanted, InPlace
  <1>8. \A i \in Ids : wanted'[t][i] = IF Meeting(wanted[t][i], where)
                                       THEN Change(wanted[t][i], set) ELSE wanted[t][i]
    BY <1>3, <1>5, <1>6, <1>7, UpdateInPlace
  <1>9. rows' = rows
    BY DEF Update
  <1>10. /\ \A a \in Table \ {t}, i \in Ids : wanted'[a][i] = rows'[a][i]
         /\ \A i \in Ids : wanted'[t][i] = IF Meeting(rows'[t][i], where)
                                           THEN Change(rows'[t][i], set) ELSE rows'[t][i]
    BY <1>4, <1>6, <1>8, <1>9 DEF AsWanted
  <1>11. /\ call'[c].step = "update" /\ call'[c].table = t /\ call'[c].where = where
         /\ call'[c].set = set
    BY <1>2
  <1>12. Meant(c)'
    BY <1>3, <1>10, <1>11 DEF Meant, Meeting, Due
  <1>13. InPlace'
    BY <1>4, <1>9 DEF InPlace
  <1>. QED  BY <1>2, <1>3, <1>12, <1>13, MeantStep

LEMMA DeleteMeant ==
    ASSUME Typed, Causes, AllMeant, NEW c \in Conn, NEW t \in Table, NEW where \in Clauses,
           Delete(c, t, where), liberties' = {}
    PROVE  AllMeant'
  <1>1. /\ call'[c] = [step |-> "delete", table |-> t, where |-> where]
        /\ call'[c] # Idle
        /\ \A d \in Conn \ {c} : call'[d] = call[d]
        /\ liberties \cup OddIf(where) \cup Overlap \subseteq liberties'
    BY DeleteBegins
  <1>2. wanted' = [wanted EXCEPT ![t] = SQLDelete(wanted[t], where)] /\ rows' = rows
    BY DEF Delete
  <1>3. Quiet /\ Plain(where, {"u"})
    BY <1>1 DEF Overlap, OddIf
  <1>4. AsWanted /\ InPlace
    BY <1>3 DEF AllMeant
  <1>5. SQLDelete(wanted[t], where) \in Rows
    BY WantedRows, SQLDeleteTyped
  <1>6. /\ \A a \in Table \ {t} : wanted'[a] = wanted[a]
        /\ wanted'[t] = SQLDelete(wanted[t], where)
    BY <1>2, <1>5, WantedOne
  <1>7. /\ \A a \in Table \ {t}, i \in Ids : wanted'[a][i] = rows'[a][i]
        /\ \A i \in Ids : wanted'[t][i] = IF Meeting(rows'[t][i], where) THEN NoRow ELSE rows'[t][i]
    BY <1>2, <1>4, <1>6, DeleteInPlace DEF AsWanted
  <1>8. call'[c].step = "delete" /\ call'[c].table = t /\ call'[c].where = where
    BY <1>1
  <1>9. Meant(c)'
    BY <1>3, <1>7, <1>8 DEF Meant, Meeting, Due
  <1>10. InPlace'
    BY <1>2, <1>4 DEF InPlace
  <1>. QED  BY <1>1, <1>3, <1>9, <1>10, MeantStep

LEMMA DropMeant ==
    ASSUME Typed, Causes, AllMeant, NEW c \in Conn, NEW t \in Table, Drop(c, t), liberties' = {}
    PROVE  AllMeant'
  <1>1. /\ call'[c] = [step |-> "drop", table |-> t] /\ call'[c] # Idle
        /\ \A d \in Conn \ {c} : call'[d] = call[d]
        /\ liberties \cup Overlap \subseteq liberties'
        /\ \A i \in Ids : wanted'[t][i] = NoRow
        /\ \A a \in Table \ {t} : wanted'[a] = wanted[a]
    BY DropBegins
  <1>2. rows' = rows
    BY DEF Drop
  <1>3. Quiet
    BY <1>1 DEF Overlap
  <1>4. AsWanted /\ InPlace
    BY <1>3 DEF AllMeant
  <1>5. \A a \in Table \ {t}, i \in Ids : wanted'[a][i] = rows'[a][i]
    BY <1>1, <1>2, <1>4 DEF AsWanted
  <1>6. call'[c].step = "drop" /\ call'[c].table = t
    BY <1>1
  <1>7. Meant(c)'
    BY <1>1, <1>5, <1>6 DEF Meant, Due
  <1>8. InPlace'
    BY <1>2, <1>4 DEF InPlace
  <1>. QED  BY <1>1, <1>3, <1>7, <1>8, MeantStep

\* An INSERT is refused here and in SQL: a row has the text.
LEMMA RefuseMeant ==
    ASSUME Typed, Typed', Causes, AllMeant, NEW c \in Conn, Refuse(c), liberties' = {}
    PROVE  AllMeant'
  <1>1. PICK k, t : k = call[c] /\ t = k.table
    OBVIOUS
  <1>2. /\ At(c, "check") /\ Checked(c) /\ k.row.u \in index[t]
        /\ Judge(c, t, k.row) /\ Then(c, Idle) /\ rows' = rows
    BY <1>1 DEF Refuse
  <1>3. t \in Table /\ k.row \in Row /\ k # Idle /\ k.step = "check" /\ k.schema.unique /\ k.row.u # Null
    BY <1>1, <1>2, InsertingCall DEF At, Checked
  <1>4. /\ wanted'[t] = SQLInsert(wanted[t], k.row, k.schema.unique)
        /\ \A a \in Table \ {t} : wanted'[a] = wanted[a]
        /\ k.row.u \notin gone[t]
    BY <1>1, <1>2, JudgeDoes
  <1>5. k.row.u \in Held(t)
    BY <1>2, <1>3, <1>4 DEF Causes, Accounted
  <1>6. PICK i \in Ids : k.row.u \in TextOf(rows[t][i])
    BY <1>3, <1>5, HeldTexts
  <1>7. AsWanted
    BY <1>1, <1>3 DEF AllMeant, Meant, AsWanted, Due
  <1>8. /\ wanted[t][i] \in RowsOf(wanted[t])
        /\ TextOf(wanted[t][i]) \cap TextOf(k.row) # {}
    <2>1. wanted[t][i] = rows[t][i] /\ wanted[t] \in Rows
      BY <1>3, <1>7, WantedRows DEF AsWanted
    <2>2. wanted[t][i] # NoRow
      BY <1>6, <2>1 DEF TextOf
    <2>. QED  BY <1>3, <1>6, <2>1, <2>2, RowsOfTyped, TextOfRow
  <1>9. wanted'[t] = wanted[t]
    BY <1>3, <1>4, <1>8 DEF SQLInsert
  <1>10. AsWanted' /\ InPlace'
    <2>1. \A a \in Table : wanted'[a] = wanted[a]
      BY <1>4, <1>9
    <2>. QED  BY <1>2, <1>7, <2>1 DEF AsWanted, AllMeant, InPlace
  <1>11. call'[c] = Idle /\ \A d \in Conn \ {c} : call'[d] = call[d]
    BY <1>2, ThenIdle
  <1>. QED  BY <1>1, <1>3, <1>10, <1>11, SettledStep

\* And one that passes the check would be accepted by SQL.
LEMMA CheckMeant ==
    ASSUME Typed, Causes, Uniqueness, AllMeant, NEW c \in Conn, Check(c), liberties' = {}
    PROVE  AllMeant'
  <1>1. PICK k, t : k = call[c] /\ t = k.table
    OBVIOUS
  <1>2. /\ At(c, "check") /\ (Checked(c) => k.row.u \notin index[t])
        /\ Judge(c, t, k.row) /\ rows' = rows
    BY <1>1 DEF Check
  <1>3. t \in Table /\ k.row \in Row /\ k # Idle /\ k.step = "check" /\ k.row.u \in Texts \cup {Null}
    BY <1>1, <1>2, InsertingCall DEF At
  <1>4. /\ call'[c] \in Call
        /\ call'[c].step = "store" /\ call'[c].table = t /\ call'[c].row = k.row
        /\ \A d \in Conn \ {c} : call'[d] = call[d]
    BY <1>1, CheckDoes
  <1>5. /\ wanted'[t] = SQLInsert(wanted[t], k.row, k.schema.unique)
        /\ \A a \in Table \ {t} : wanted'[a] = wanted[a]
        /\ wanted[t][k.row.id.v] = NoRow
        /\ Checked(c) => k.row.u \notin spoilt[t]
    BY <1>1, <1>2, JudgeDoes
  <1>6. AsWanted
    BY <1>1, <1>3 DEF AllMeant, Meant, AsWanted, Due
  <1>7. ASSUME k.schema.unique, NEW i \in Ids
        PROVE  TextOf(wanted[t][i]) \cap TextOf(k.row) = {}
    <2>1. CASE k.row.u = Null
      BY <1>3, <2>1, TextOfRow
    <2>2. CASE k.row.u # Null
      <3>1. Checked(c)
        BY <1>1, <1>7, <2>2 DEF Checked
      <3>2. Single(t, k.row.u)
        BY <1>3, <1>5, <2>2, <3>1 DEF Uniqueness
      <3>3. \A d \in Conn : ~At(d, "index")
        BY <1>1, <1>2, <1>3 DEF Causes, Alone, At
      <3>4. k.row.u \notin Held(t)
        BY <1>2, <3>1, <3>2, <3>3 DEF Single
      <3>5. k.row.u \notin TextOf(rows[t][i])
        BY <1>3, <3>4, HeldTexts
      <3>. QED  BY <1>3, <1>6, <3>5, TextOfRow DEF AsWanted
    <2>. QED  BY <2>1, <2>2
  <1>8. \A i \in Ids : wanted'[t][i] = IF i = k.row.id.v THEN k.row ELSE wanted[t][i]
    <2>1. wanted[t] \in Rows
      BY <1>3, WantedRows
    <2>2. k.schema.unique => \A i \in Ids : TextOf(wanted[t][i]) \cap TextOf(k.row) = {}
      BY <1>7
    <2>. QED  BY <1>3, <1>5, <2>1, <2>2, InsertInPlace
  <1>9. /\ \A a \in Table \ {t}, i \in Ids : wanted'[a][i] = rows'[a][i]
        /\ \A i \in Ids : wanted'[t][i] = IF i = k.row.id.v THEN k.row ELSE rows'[t][i]
    BY <1>2, <1>3, <1>5, <1>6, <1>8 DEF AsWanted
  <1>10. Meant(c)'
    BY <1>4, <1>9 DEF Meant, Due
  <1>11. InPlace' /\ call'[c] # Idle
    BY <1>2, <1>4, SQLConstants DEF AllMeant, InPlace
  <1>. QED  BY <1>1, <1>3, <1>4, <1>10, <1>11, MeantStep

LEMMA StoreRowMeant ==
    ASSUME Typed, Typed', Causes, AllMeant, NEW c \in Conn, NEW done \in BOOLEAN, StoreRow(c, done),
           liberties' = {}
    PROVE  AllMeant'
  <1>1. PICK k, t, n : k = call[c] /\ t = k.table /\ n = k.row.id.v
    OBVIOUS
  <1>2. /\ At(c, "store") /\ k # Idle /\ k.step = "store" /\ wanted' = wanted
        /\ t \in Table /\ n \in Ids /\ k.row.id = Num(n)
    BY <1>1, InsertingCall DEF StoreRow, At
  <1>3. done
    BY StoreRowDoes DEF Lost
  <1>4. /\ call'[c].step = "index" /\ \A d \in Conn \ {c} : call'[d] = call[d]
        /\ rows'[t][n] = k.row
        /\ \A a \in Table, i \in Ids : (a # t \/ i # n) => rows'[a][i] = rows[a][i]
    <2>1. /\ call'[c].step = "index" /\ \A d \in Conn \ {c} : call'[d] = call[d]
          /\ done => rows'[call[c].table][call[c].row.id.v] = call[c].row
          /\ \A a \in Table, i \in Ids :
                (a # call[c].table \/ i # call[c].row.id.v) => rows'[a][i] = rows[a][i]
      BY StoreRowDoes
    <2>. QED  BY <1>1, <1>3, <2>1
  <1>5. /\ \A a \in Table \ {t}, i \in Ids : wanted[a][i] = rows[a][i]
        /\ \A i \in Ids : wanted[t][i] = IF i = n THEN k.row ELSE rows[t][i]
    BY <1>1, <1>2 DEF AllMeant, Meant
  <1>6. AsWanted'
    BY <1>2, <1>4, <1>5 DEF AsWanted
  <1>7. InPlace'
    BY <1>2, <1>4 DEF AllMeant, InPlace
  <1>. QED  BY <1>1, <1>2, <1>4, <1>6, <1>7, SettledStep DEF Due

\* Once a scan has said which rows are to be changed, those rows are what is due.
LEMMA ScannedMeant ==
    ASSUME Typed, Typed', Causes, AllMeant, NEW c \in Conn, call[c] # Idle,
           NEW t \in Table,
           UNCHANGED <<rows, wanted>>, \A d \in Conn \ {c} : call'[d] = call[d],
           \A a \in Table \ {t}, i \in Ids : wanted[a][i] = rows[a][i],
           NEW todo,
           \/ call'[c] = Idle /\ todo = {}
           \/ call'[c] = [step |-> "rows", table |-> t, todo |-> todo] /\ call'[c] # Idle,
           \A e \in todo : e[2] # NoRow => e[2].id = Num(e[1]),
           \A i \in Ids : /\ \A e \in todo : e[1] = i => wanted[t][i] = e[2]
                          /\ (\A e \in todo : e[1] # i) => wanted[t][i] = rows[t][i]
    PROVE  AllMeant'
  <1>1. InPlace'
    BY DEF AllMeant, InPlace
  <1>2. CASE call'[c] = Idle /\ todo = {}
    <2>1. AsWanted'
      BY <1>2 DEF AsWanted
    <2>. QED  BY <1>1, <1>2, <2>1, SettledStep
  <1>3. CASE call'[c] = [step |-> "rows", table |-> t, todo |-> todo] /\ call'[c] # Idle
    <2>1. call'[c].step = "rows" /\ call'[c].table = t /\ call'[c].todo = todo
      BY <1>3
    <2>2. /\ \A a \in Table \ {t}, i \in Ids : wanted'[a][i] = rows'[a][i]
          /\ \A i \in Ids : /\ \A e \in todo : e[1] = i => wanted'[t][i] = e[2]
                            /\ (\A e \in todo : e[1] # i) => wanted'[t][i] = rows'[t][i]
      OBVIOUS
    <2>3. Meant(c)'
      BY <2>1, <2>2 DEF Meant, Due
    <2>. QED  BY <1>1, <1>3, <2>3, MeantStep
  <1>. QED  BY <1>2, <1>3

\* What a scan brings to light of its own table.
LEMMA ScanMeant ==
    ASSUME Typed, InPlace, NEW t \in Table, NEW where \in Clauses, Plain(where, {"u"}),
           AlikeIf(t, Matching(t, where)) = {}
    PROVE  /\ \A m \in Matching(t, where) :
                  /\ m[2] \in Row /\ m[2].id.v \in Ids /\ m[2].id = Num(m[2].id.v)
                  /\ m[2] = rows[t][m[2].id.v] /\ Meeting(m[2], where)
           /\ \A i \in Ids : Meeting(rows[t][i], where) =>
                  <<t, rows[t][i]>> \in Matching(t, where) /\ rows[t][i].id.v = i
  <1>1. ASSUME NEW m \in Matching(t, where)
        PROVE  /\ m[2] \in Row /\ m[2].id.v \in Ids /\ m[2].id = Num(m[2].id.v)
               /\ m[2] = rows[t][m[2].id.v] /\ Meeting(m[2], where)
    <2>1. m[1] = t
      BY <1>1 DEF AlikeIf
    <2>2. PICK i \in Ids : m[2] = rows[t][i]
      BY <1>1, <2>1, MatchingRows
    <2>3. m[2] \in Row /\ Match(m[2], where) /\ m[2] # NoRow
      BY <1>1, MatchingRows, SQLConstants
    <2>4. m[2].id = Num(i) /\ m[2].id.v = i
      BY <2>2, <2>3, Values DEF InPlace
    <2>5. SQLTrue(m[2], where)
      BY <2>3, PlainMatches
    <2>. QED  BY <2>2, <2>3, <2>4, <2>5 DEF Meeting
  <1>2. ASSUME NEW i \in Ids, Meeting(rows[t][i], where)
        PROVE  <<t, rows[t][i]>> \in Matching(t, where) /\ rows[t][i].id.v = i
    <2>1. rows[t][i] # NoRow /\ rows[t][i] \in Row /\ SQLTrue(rows[t][i], where)
      BY <1>2 DEF Meeting, Typed, Rows
    <2>2. Match(rows[t][i], where)
      BY <2>1, PlainMatches
    <2>3. rows[t][i].id.v = i
      BY <2>1, Values DEF InPlace
    <2>. QED  BY <2>1, <2>2, <2>3, OwnRowMatches
  <1>. QED  BY <1>1, <1>2

LEMMA UpdateScanMeant ==
    ASSUME Typed, Typed', Causes, AllMeant, NEW c \in Conn, UpdateScan(c), liberties' = {}
    PROVE  AllMeant'
  <1>1. PICK t \in Table, where \in Clauses, set \in Settings,
             todo \in SUBSET (Ids \X (Row \cup {NoRow})), S \in SUBSET Ids :
          UpdateScans(c, t, where, set, todo, S)
    BY UpdateScanDoes
  <1>2. /\ call[c] = [step |-> "update", table |-> t, where |-> where, set |-> set]
        /\ todo = {<<m[2].id.v, Change(m[2], set)>> : m \in Matching(t, where)}
        /\ \/ call'[c] = Idle /\ todo = {}
           \/ call'[c] = [step |-> "rows", table |-> t, todo |-> todo] /\ call'[c] # Idle
        /\ \A d \in Conn \ {c} : call'[d] = call[d]
        /\ AlikeIf(t, Matching(t, where)) = {}
    BY <1>1 DEF UpdateScans
  <1>3. UNCHANGED <<rows, wanted>> /\ call[c] # Idle
    BY DEF UpdateScan, At
  <1>4. call[c].step = "update" /\ call[c].table = t /\ call[c].where = where /\ call[c].set = set
    BY <1>2
  <1>5. /\ \A a \in Table \ {t}, i \in Ids : wanted[a][i] = rows[a][i]
        /\ Plain(where, {"u"}) /\ set.col = "u" /\ InPlace
        /\ \A i \in Ids : wanted[t][i] = IF Meeting(rows[t][i], where)
                                         THEN Change(rows[t][i], set) ELSE rows[t][i]
    BY <1>3, <1>4 DEF AllMeant, Meant
  <1>6. /\ \A m \in Matching(t, where) :
               /\ m[2] \in Row /\ m[2].id.v \in Ids /\ m[2].id = Num(m[2].id.v)
               /\ m[2] = rows[t][m[2].id.v] /\ Meeting(m[2], where)
        /\ \A i \in Ids : Meeting(rows[t][i], where) =>
               <<t, rows[t][i]>> \in Matching(t, where) /\ rows[t][i].id.v = i
    BY <1>2, <1>5, ScanMeant
  <1>7. ASSUME NEW e \in todo
        PROVE  e[1] \in Ids /\ e[2].id = Num(e[1]) /\ wanted[t][e[1]] = e[2]
    <2>1. PICK m \in Matching(t, where) : e = <<m[2].id.v, Change(m[2], set)>>
      BY <1>2
    <2>2. PICK r, i : r = m[2] /\ i = r.id.v
      OBVIOUS
    <2>3. /\ r \in Row /\ i \in Ids /\ r.id = Num(i) /\ r = rows[t][i] /\ Meeting(r, where)
          /\ e[1] = i /\ e[2] = Change(r, set)
      BY <1>6, <2>1, <2>2
    <2>4. e[2].id = Num(i)
      BY <1>5, <2>3, ChangedRow
    <2>. QED  BY <1>5, <2>3, <2>4
  <1>8. ASSUME NEW i \in Ids, \A e \in todo : e[1] # i
        PROVE  wanted[t][i] = rows[t][i]
    <2>1. ASSUME Meeting(rows[t][i], where)
          PROVE  FALSE
      <3>1. PICK m : m = <<t, rows[t][i]>>
        OBVIOUS
      <3>2. m \in Matching(t, where) /\ m[2].id.v = i
        BY <1>6, <2>1, <3>1
      <3>3. <<m[2].id.v, Change(m[2], set)>> \in todo
        BY <1>2, <3>2
      <3>. QED  BY <1>8, <3>2, <3>3
    <2>. QED  BY <1>5, <2>1
  <1>9. \A e \in todo : e[2] # NoRow => e[2].id = Num(e[1])
    BY <1>7
  <1>10. \A i \in Ids : /\ \A e \in todo : e[1] = i => wanted[t][i] = e[2]
                        /\ (\A e \in todo : e[1] # i) => wanted[t][i] = rows[t][i]
    BY <1>7, <1>8
  <1>. QED  BY <1>2, <1>3, <1>5, <1>9, <1>10, ScannedMeant

LEMMA DeleteScanMeant ==
    ASSUME Typed, Typed', Causes, AllMeant, NEW c \in Conn, DeleteScan(c), liberties' = {}
    PROVE  AllMeant'
  <1>1. PICK t \in Table, where \in Clauses, todo \in SUBSET (Ids \X (Row \cup {NoRow})) :
          DeleteScans(c, t, where, todo)
    BY DeleteScanDoes
  <1>2. /\ call[c] = [step |-> "delete", table |-> t, where |-> where]
        /\ todo = {<<m[2].id.v, NoRow>> : m \in Matching(t, where)}
        /\ \/ call'[c] = Idle /\ todo = {}
           \/ call'[c] = [step |-> "rows", table |-> t, todo |-> todo] /\ call'[c] # Idle
        /\ \A d \in Conn \ {c} : call'[d] = call[d]
        /\ AlikeIf(t, Matching(t, where)) = {}
    BY <1>1 DEF DeleteScans
  <1>3. UNCHANGED <<rows, wanted>> /\ call[c] # Idle
    BY DEF DeleteScan, At
  <1>4. call[c].step = "delete" /\ call[c].table = t /\ call[c].where = where
    BY <1>2
  <1>5. /\ \A a \in Table \ {t}, i \in Ids : wanted[a][i] = rows[a][i]
        /\ Plain(where, {"u"}) /\ InPlace
        /\ \A i \in Ids : wanted[t][i] = IF Meeting(rows[t][i], where) THEN NoRow ELSE rows[t][i]
    BY <1>3, <1>4 DEF AllMeant, Meant
  <1>6. /\ \A m \in Matching(t, where) :
               /\ m[2] \in Row /\ m[2].id.v \in Ids /\ m[2].id = Num(m[2].id.v)
               /\ m[2] = rows[t][m[2].id.v] /\ Meeting(m[2], where)
        /\ \A i \in Ids : Meeting(rows[t][i], where) =>
               <<t, rows[t][i]>> \in Matching(t, where) /\ rows[t][i].id.v = i
    BY <1>2, <1>5, ScanMeant
  <1>7. ASSUME NEW e \in todo
        PROVE  e[1] \in Ids /\ e[2] = NoRow /\ wanted[t][e[1]] = NoRow
    <2>1. PICK m \in Matching(t, where) : e = <<m[2].id.v, NoRow>>
      BY <1>2
    <2>2. PICK r, i : r = m[2] /\ i = r.id.v
      OBVIOUS
    <2>3. i \in Ids /\ r = rows[t][i] /\ Meeting(r, where) /\ e[1] = i /\ e[2] = NoRow
      BY <1>6, <2>1, <2>2
    <2>. QED  BY <1>5, <2>3
  <1>8. ASSUME NEW i \in Ids, \A e \in todo : e[1] # i
        PROVE  wanted[t][i] = rows[t][i]
    <2>1. ASSUME Meeting(rows[t][i], where)
          PROVE  FALSE
      <3>1. PICK m : m = <<t, rows[t][i]>>
        OBVIOUS
      <3>2. m \in Matching(t, where) /\ m[2].id.v = i
        BY <1>6, <2>1, <3>1
      <3>3. <<m[2].id.v, NoRow>> \in todo
        BY <1>2, <3>2
      <3>. QED  BY <1>8, <3>2, <3>3
    <2>. QED  BY <1>5, <2>1
  <1>9. \A e \in todo : e[2] # NoRow => e[2].id = Num(e[1])
    BY <1>7
  <1>10. \A i \in Ids : /\ \A e \in todo : e[1] = i => wanted[t][i] = e[2]
                        /\ (\A e \in todo : e[1] # i) => wanted[t][i] = rows[t][i]
    BY <1>7, <1>8
  <1>. QED  BY <1>2, <1>3, <1>5, <1>9, <1>10, ScannedMeant

LEMMA ChangeRowMeant ==
    ASSUME Typed, Typed', Causes, AllMeant, NEW c \in Conn, NEW done \in BOOLEAN, ChangeRow(c, done),
           liberties' = {}
    PROVE  AllMeant'
  <1>0. PICK t \in Table : \E e : Changes(c, t, e, done)
    BY ChangeRowDoes
  <1>1. PICK e : Changes(c, t, e, done)
    BY <1>0
  <1>2. done
    BY <1>1 DEF Changes, Lost
  <1>3. PICK todo : todo = call[c].todo
    OBVIOUS
  <1>4. /\ call[c] # Idle /\ call[c].step = "rows" /\ call[c].table = t /\ e \in todo
        /\ e[1] \in Ids
        /\ \/ call'[c] = Idle /\ todo = {e}
           \/ /\ call'[c] # Idle
              /\ call'[c].step = "rows" /\ call'[c].table = t /\ call'[c].todo = todo \ {e}
        /\ \A d \in Conn \ {c} : call'[d] = call[d]
        /\ rows'[t][e[1]] = e[2]
        /\ \A a \in Table, i \in Ids : (a # t \/ i # e[1]) => rows'[a][i] = rows[a][i]
        /\ wanted' = wanted
    BY <1>1, <1>2, <1>3 DEF Changes, At
  <1>5. /\ \A a \in Table \ {t}, i \in Ids : wanted[a][i] = rows[a][i]
        /\ \A f \in todo : f[2] # NoRow => f[2].id = Num(f[1])
        /\ \A i \in Ids : /\ \A f \in todo : f[1] = i => wanted[t][i] = f[2]
                          /\ (\A f \in todo : f[1] # i) => wanted[t][i] = rows[t][i]
        /\ InPlace
    BY <1>3, <1>4 DEF AllMeant, Meant
  <1>6. \A a \in Table \ {t}, i \in Ids : wanted'[a][i] = rows'[a][i]
    BY <1>4, <1>5
  <1>7. InPlace'
    BY <1>4, <1>5 DEF InPlace
  <1>8. ASSUME NEW i \in Ids
        PROVE  /\ \A f \in todo : f[1] = i => wanted'[t][i] = f[2]
               /\ (\A f \in todo \ {e} : f[1] # i) => wanted'[t][i] = rows'[t][i]
    <2>1. CASE i = e[1]
      BY <1>4, <1>5, <2>1
    <2>2. CASE i # e[1]
      BY <1>4, <1>5, <2>2
    <2>. QED  BY <2>1, <2>2
  <1>9. CASE call'[c] = Idle /\ todo = {e}
    <2>1. AsWanted'
      BY <1>6, <1>8, <1>9 DEF AsWanted
    <2>. QED  BY <1>4, <1>7, <1>9, <2>1, SettledStep
  <1>10. CASE /\ call'[c] # Idle
              /\ call'[c].step = "rows" /\ call'[c].table = t /\ call'[c].todo = todo \ {e}
    <2>1. Meant(c)'
      BY <1>5, <1>6, <1>8, <1>10 DEF Meant, Due
    <2>. QED  BY <1>4, <1>7, <1>10, <2>1, MeantStep
  <1>. QED  BY <1>4, <1>9, <1>10

LEMMA DropScanMeant ==
    ASSUME Typed, Causes, AllMeant, NEW c \in Conn, DropScan(c), liberties' = {}
    PROVE  AllMeant'
  <1>1. PICK t, todo : t = call[c].table /\ todo = Scanned(t)
    OBVIOUS
  <1>2. /\ t \in Table
        /\ call'[c] = [step |-> "clear", table |-> t, todo |-> todo] /\ call'[c] # Idle
        /\ \A d \in Conn \ {c} : call'[d] = call[d]
        /\ AlikeIf(t, todo) = {}
    BY <1>1, DropScanDoes
  <1>3. call[c] # Idle /\ call[c].step = "drop" /\ UNCHANGED <<rows, wanted>>
    BY DEF DropScan, At
  <1>4. /\ \A a \in Table \ {t}, i \in Ids : wanted'[a][i] = rows'[a][i]
        /\ \A i \in Ids : wanted'[t][i] = NoRow
        /\ InPlace
    BY <1>1, <1>3 DEF AllMeant, Meant
  <1>5. \A e \in todo : e[1] = t
    BY <1>2 DEF AlikeIf
  <1>6. \A i \in Ids : rows'[t][i] # NoRow => <<t, i>> \in todo
    BY <1>1, <1>2, <1>3, SQLConstants DEF Scanned
  <1>7. call'[c].step = "clear" /\ call'[c].table = t /\ call'[c].todo = todo
    BY <1>2
  <1>8. Meant(c)'
    BY <1>4, <1>5, <1>6, <1>7 DEF Meant, Due
  <1>9. InPlace'
    BY <1>3, <1>4 DEF InPlace
  <1>. QED  BY <1>2, <1>3, <1>8, <1>9, MeantStep

LEMMA ClearRowMeant ==
    ASSUME Typed, Causes, AllMeant, NEW c \in Conn, ClearRow(c)
    PROVE  AllMeant'
  <1>1. PICK e : Clears(c, e)
    BY ClearRowDoes
  <1>2. PICK t, todo : t = call[c].table /\ todo = call[c].todo
    OBVIOUS
  <1>3. /\ call[c] # Idle /\ call[c].step = "clear" /\ e \in todo
        /\ e[1] \in Table /\ e[2] \in Ids /\ e = <<e[1], e[2]>>
        /\ call'[c] # Idle /\ call'[c].step = "clear" /\ call'[c].table = t /\ call'[c].todo = todo \ {e}
        /\ \A d \in Conn \ {c} : call'[d] = call[d]
        /\ rows'[e[1]][e[2]] = NoRow
        /\ \A a \in Table, i \in Ids : (a # e[1] \/ i # e[2]) => rows'[a][i] = rows[a][i]
        /\ wanted' = wanted
    BY <1>1, <1>2 DEF Clears, At
  <1>4. /\ \A a \in Table \ {t}, i \in Ids : wanted[a][i] = rows[a][i]
        /\ \A i \in Ids : wanted[t][i] = NoRow
        /\ \A f \in todo : f[1] = t
        /\ \A i \in Ids : rows[t][i] # NoRow => <<t, i>> \in todo
        /\ InPlace
    BY <1>2, <1>3 DEF AllMeant, Meant
  <1>5. t \in Table /\ e[1] = t
    BY <1>3, <1>4
  <1>6. \A a \in Table \ {t}, i \in Ids : wanted'[a][i] = rows'[a][i]
    BY <1>3, <1>4, <1>5
  <1>7. ASSUME NEW i \in Ids, rows'[t][i] # NoRow
        PROVE  <<t, i>> \in todo \ {e}
    <2>1. i # e[2]
      BY <1>3, <1>5, <1>7
    <2>2. rows[t][i] # NoRow
      BY <1>3, <1>5, <1>7, <2>1
    <2>. QED  BY <1>3, <1>4, <2>1, <2>2
  <1>8. Meant(c)'
    BY <1>3, <1>4, <1>6, <1>7 DEF Meant, Due
  <1>9. InPlace'
    BY <1>3, <1>4 DEF InPlace
  <1>. QED  BY <1>3, <1>8, <1>9, MeantStep

LEMMA DropSchemaMeant ==
    ASSUME Typed, Typed', Causes, AllMeant, NEW c \in Conn, DropSchema(c)
    PROVE  AllMeant'
  <1>1. PICK t, todo : t = call[c].table /\ todo = call[c].todo
    OBVIOUS
  <1>2. /\ t \in Table /\ call[c] # Idle /\ call[c].step = "clear" /\ todo = {}
        /\ call'[c] = [step |-> "unindex", table |-> t] /\ call'[c] # Idle
        /\ \A d \in Conn \ {c} : call'[d] = call[d]
    BY <1>1, DropSchemaDoes
  <1>3. UNCHANGED <<rows, wanted>>
    BY DEF DropSchema, histories
  <1>4. /\ \A a \in Table \ {t}, i \in Ids : wanted[a][i] = rows[a][i]
        /\ \A i \in Ids : wanted[t][i] = NoRow
        /\ \A i \in Ids : rows[t][i] # NoRow => <<t, i>> \in todo
        /\ InPlace
    BY <1>1, <1>2 DEF AllMeant, Meant
  <1>5. AsWanted' /\ InPlace'
    BY <1>2, <1>3, <1>4 DEF AsWanted, InPlace
  <1>6. call'[c].step = "unindex"
    BY <1>2
  <1>. QED  BY <1>2, <1>5, <1>6, SettledStep DEF Due

\* Steps that leave the tables as they are, in statements with nothing due.
LEMMA CalmStepsMeant ==
    ASSUME Typed, Typed', Causes, AllMeant, NEW c \in Conn, NEW done \in BOOLEAN,
           \/ CreatePut(c, done) \/ ReadSeq(c) \/ NextId(c) \/ IndexRow(c, done)
           \/ ScanIndex(c) \/ UnindexRow(c) \/ ForgetSchema(c)
           \/ AlterSchema(c, done) \/ BuildScan(c) \/ BuildRow(c, done)
    PROVE  AllMeant'
  <1>1. UNCHANGED <<rows, wanted>> /\ call[c] # Idle /\ call[c].step \notin Due
    <2>1. CASE NextId(c)
      BY <2>1 DEF NextId, At, Due
    <2>. QED  BY <2>1 DEF CreatePut, ReadSeq, IndexRow, ScanIndex, UnindexRow, ForgetSchema, AlterSchema,
                 BuildScan, BuildRow, At, Due, histories
  <1>2. /\ call'[c] = Idle \/ call'[c].step \notin Due
        /\ \A d \in Conn \ {c} : call'[d] = call[d]
    <2>1. CASE CreatePut(c, done) \/ IndexRow(c, done) \/ ForgetSchema(c)
      <3>1. Then(c, Idle)
        BY <2>1 DEF CreatePut, IndexRow, ForgetSchema
      <3>. QED  BY <3>1, ThenIdle
    <2>2. CASE ReadSeq(c)
      BY <2>2, ReadSeqDoes DEF Due
    <2>3. CASE NextId(c)
      BY <2>3, NextIdDoes DEF Draws, Due
    <2>4. CASE ScanIndex(c)
      BY <2>4, ScanIndexDoes DEF Due
    <2>5. CASE UnindexRow(c)
      <3>1. PICK e : Unindexes(c, e)
        BY <2>5, UnindexRowDoes
      <3>. QED  BY <3>1 DEF Unindexes, Due
    <2>6. CASE AlterSchema(c, done)
      <3>1. /\ call'[c] = [step |-> "survey", table |-> call[c].table]
            /\ \A d \in Conn \ {c} : call'[d] = call[d]
        BY <2>6, AlterSchemaTyped
      <3>. QED  BY <3>1 DEF Due
    <2>7. CASE BuildScan(c)
      <3>1. PICK t \in Table, todo \in SUBSET Texts : BuildScans(c, t, todo)
        BY <2>7, BuildScanDoes
      <3>. QED  BY <3>1 DEF BuildScans, Due
    <2>8. CASE BuildRow(c, done)
      BY <2>8, BuildRowDoes DEF Due
    <2>. QED  BY <2>1, <2>2, <2>3, <2>4, <2>5, <2>6, <2>7, <2>8
  <1>. QED  BY <1>1, <1>2, CalmStep

LEMMA InitMeaning == Init => Meaning
  <1>. SUFFICES ASSUME Init
                PROVE  AllMeant
    BY DEF Meaning
  <1>1. InPlace /\ AsWanted
    BY DEF Init, InPlace, AsWanted
  <1>2. \A c \in Conn : call[c] = Idle
    BY DEF Init
  <1>. QED  BY <1>1, <1>2 DEF AllMeant

LEMMA NextMeaning ==
    ASSUME Typed, Typed', Accounting, Uniqueness, Meaning, [Next]_vars
    PROVE  Meaning'
  <1>1. CASE UNCHANGED vars
    BY <1>1 DEF vars, Meaning, AllMeant, InPlace, AsWanted, Quiet, Meant
  <1>2. ASSUME Next, liberties' = {}
        PROVE  AllMeant'
    <2>0. liberties = {} /\ Causes /\ AllMeant
      BY <1>2, LibertiesGrow DEF Accounting, Without, Meaning
    <2>1. ASSUME NEW c \in Conn, Statement(c)
          PROVE  AllMeant'
      <3>1. left' \in 0 .. MaxStatements /\ "overlap" \notin liberties'
        BY <1>2, <2>1, LeftTyped
      <3>. QED  BY <1>2, <2>0, <2>1, <3>1, CalmStatementsMeant, UpdateMeant, DeleteMeant, DropMeant
                DEF Statement
    <2>2. ASSUME NEW c \in Conn, Step(c)
          PROVE  AllMeant'
      <3>1. TRUE \in BOOLEAN
        OBVIOUS
      <3>. QED  BY <1>2, <2>0, <2>2, <3>1, CalmStepsMeant, RefuseMeant, CheckMeant, StoreRowMeant,
                UpdateScanMeant, DeleteScanMeant, ChangeRowMeant, DropScanMeant, ClearRowMeant,
                DropSchemaMeant DEF Step
    <2>3. ASSUME NEW c \in Conn, Fail(c)
          PROVE  AllMeant'
      BY <1>2, <2>3, FailTyped
    <2>4. ASSUME NEW c \in Conn, Crash(c)
          PROVE  AllMeant'
      <3>1. call[c] = Idle /\ call'[c] = Idle /\ UNCHANGED <<rows, wanted>>
            /\ \A d \in Conn \ {c} : call'[d] = call[d]
        BY <1>2, <2>4, CrashDoes
      <3>. QED  BY <2>0, <3>1 DEF AllMeant, InPlace, AsWanted, Quiet, Meant
    <2>. QED  BY <1>2, <2>1, <2>2, <2>3, <2>4 DEF Next
  <1>. QED  BY <1>1, <1>2 DEF Meaning

LEMMA AlwaysMeaning == Spec => [](Typed /\ Meaning)
  <1>1. Typed /\ Typed' /\ Accounting /\ Uniqueness /\ Meaning /\ [Next]_vars => Meaning'
    BY NextMeaning
  <1>. QED  BY <1>1, AlwaysTyped, AlwaysAccounting, AlwaysUniqueness, InitMeaning, PTL DEF Spec

LEMMA MeaningIsKept == Typed /\ Meaning => TurnsKeepTheTables
  <1>. SUFFICES ASSUME Typed, Meaning, Quiet, liberties = {}
                PROVE  rows = wanted
    BY DEF TurnsKeepTheTables
  <1>1. \A t \in Table, i \in Ids : wanted[t][i] = rows[t][i]
    BY DEF Meaning, AllMeant, AsWanted
  <1>2. \A t \in Table : wanted[t] = rows[t]
    BY <1>1 DEF Typed, Rows
  <1>. QED  BY <1>2 DEF Typed

\* Statements that take turns leave every table as SQL says, what is refused
\* included, whatever rows and index rows they were made of call by call, as long
\* as none of the liberties is taken (sql_engine.py, PneumaSQLStore.insert,
\* update, delete, drop_table).
THEOREM StatementsAreKept == Spec => []TurnsKeepTheTables
  BY AlwaysMeaning, MeaningIsKept, PTL
=============================================================================
