------------------------------ MODULE TableProofs ------------------------------
(***************************************************************************)
(* Proofs about TableORM, for any threads, ids, fields and values, any     *)
(* failing statements and any crashes: the id list never names a record    *)
(* twice, and a record is wrong only through its own calls.                *)
(***************************************************************************)
EXTENDS TableORM, TLAPS, WellFoundedInduction

-----------------------------------------------------------------------------
(* Lists of ids                                                            *)

\* The places of a list, and what is at them when an id is appended.
LEMMA AppendPlaces ==
    ASSUME NEW S, NEW s \in Seq(S), NEW e \in S
    PROVE  /\ Append(s, e) \in Seq(S)
           /\ Len(s) \in Nat /\ DOMAIN s = 1 .. Len(s) /\ DOMAIN Append(s, e) = 1 .. Len(s) + 1
           /\ \A i \in 1 .. Len(s) : Append(s, e)[i] = s[i]
           /\ Append(s, e)[Len(s) + 1] = e
OBVIOUS

LEMMA AppendNames ==
    ASSUME NEW S, NEW s \in Seq(S), NEW e \in S
    PROVE  ToSet(Append(s, e)) = ToSet(s) \cup {e}
<1>1. /\ Len(s) \in Nat /\ DOMAIN s = 1 .. Len(s) /\ DOMAIN Append(s, e) = 1 .. Len(s) + 1
      /\ \A i \in 1 .. Len(s) : Append(s, e)[i] = s[i]
      /\ Append(s, e)[Len(s) + 1] = e
  BY AppendPlaces
<1>2. \A i \in 1 .. Len(s) + 1 : i \in 1 .. Len(s) \/ i = Len(s) + 1
  BY <1>1
<1>3. \A x \in ToSet(Append(s, e)) : x \in ToSet(s) \cup {e}
  BY <1>1, <1>2 DEF ToSet
<1>4. \A x \in ToSet(s) : x \in ToSet(Append(s, e))
  <2> TAKE x \in ToSet(s)
  <2>1. PICK i \in 1 .. Len(s) : s[i] = x
    BY <1>1 DEF ToSet
  <2>2. i \in 1 .. Len(s) + 1 /\ Append(s, e)[i] = x
    BY <1>1, <2>1
  <2> QED BY <1>1, <2>2 DEF ToSet
<1>5. e \in ToSet(Append(s, e))
  <2>1. Len(s) + 1 \in 1 .. Len(s) + 1
    BY <1>1
  <2> QED BY <1>1, <2>1 DEF ToSet
<1> QED BY <1>3, <1>4, <1>5

\* An id that the list does not name may be appended to it.
LEMMA AppendKeepsDistinct ==
    ASSUME NEW S, NEW s \in Seq(S), NEW e \in S, IsInjective(s), e \notin ToSet(s)
    PROVE  IsInjective(Append(s, e))
<1>1. /\ Len(s) \in Nat /\ DOMAIN s = 1 .. Len(s) /\ DOMAIN Append(s, e) = 1 .. Len(s) + 1
      /\ \A i \in 1 .. Len(s) : Append(s, e)[i] = s[i]
      /\ Append(s, e)[Len(s) + 1] = e
  BY AppendPlaces
<1>2. \A i \in 1 .. Len(s) : s[i] # e
  BY <1>1 DEF ToSet
<1>3. \A i \in 1 .. Len(s) + 1 : i \in 1 .. Len(s) \/ i = Len(s) + 1
  BY <1>1
<1> SUFFICES ASSUME NEW a \in 1 .. Len(s) + 1, NEW b \in 1 .. Len(s) + 1,
                    Append(s, e)[a] = Append(s, e)[b]
             PROVE  a = b
  BY <1>1 DEF IsInjective
<1>4. CASE a \in 1 .. Len(s) /\ b \in 1 .. Len(s)
  BY <1>1, <1>4 DEF IsInjective
<1>5. CASE a = Len(s) + 1 /\ b \in 1 .. Len(s)
  BY <1>1, <1>2, <1>5
<1>6. CASE b = Len(s) + 1 /\ a \in 1 .. Len(s)
  BY <1>1, <1>2, <1>6
<1> QED BY <1>3, <1>4, <1>5, <1>6

\* A nonempty set of naturals has a least element.
LEMMA LeastExists ==
    ASSUME NEW S \in SUBSET Nat, S # {}
    PROVE  \E x \in S : \A y \in S : x <= y
<1>1. PICK x \in S : \A y \in S : ~ (<<y, x>> \in OpToRel(<, Nat))
  BY NatLessThanWellFounded, WFMin, Zenon
<1>2. \A y \in S : ~ (y < x)
  BY <1>1, Zenon DEF OpToRel
<1>3. \A y \in S : x <= y
  BY <1>2
<1> QED BY <1>3

-----------------------------------------------------------------------------
(* What the filter keeps                                                   *)

Keep(s, id, kept, k) == IF s[k] = id THEN kept ELSE Append(kept, s[k])

Keeps(f, s, id, m) ==
    f = [k \in 0 .. m |-> IF k = 0 THEN <<>> ELSE Keep(s, id, f[k - 1], k)]

\* The filter is defined at every length: the first at which it were not would
\* be one element longer than one at which it is.
LEMMA KeepsExists ==
    ASSUME NEW s, NEW id, NEW m \in Nat
    PROVE  \E f : Keeps(f, s, id, m)
<1> DEFINE Missing == {k \in Nat : ~\E f : Keeps(f, s, id, k)}
<1> SUFFICES ASSUME Missing # {} PROVE FALSE
  OBVIOUS
<1>1. PICK k \in Missing : \A q \in Missing : k <= q
  BY LeastExists
<1>2. k \in Nat /\ ~\E f : Keeps(f, s, id, k)
  OBVIOUS
<1>3. CASE k = 0
  <2>1. Keeps([i \in 0 .. 0 |-> <<>>], s, id, 0)
    BY DEF Keeps
  <2> QED BY <1>2, <1>3, <2>1
<1>4. CASE k # 0
  <2>1. k - 1 \in Nat /\ k - 1 \notin Missing
    BY <1>1, <1>2, <1>4
  <2>2. PICK f : Keeps(f, s, id, k - 1)
    BY <2>1
  <2> DEFINE g == [i \in 0 .. k |-> IF i = k THEN Keep(s, id, f[k - 1], k) ELSE f[i]]
  <2>3. \A i \in 0 .. k : g[i] = IF i = 0 THEN <<>> ELSE Keep(s, id, g[i - 1], i)
    <3> TAKE i \in 0 .. k
    <3>1. CASE i = k
      <4>1. k - 1 \in 0 .. k /\ k - 1 # k
        BY <1>2, <1>4
      <4>2. g[k - 1] = f[k - 1]
        BY <4>1
      <4> QED BY <1>4, <3>1, <4>2
    <3>2. CASE i # k
      <4>1. i \in 0 .. k - 1 /\ (i # 0 => i - 1 \in 0 .. k /\ i - 1 # k)
        BY <1>2, <3>2
      <4>2. f[i] = IF i = 0 THEN <<>> ELSE Keep(s, id, f[i - 1], i)
        BY <2>2, <4>1 DEF Keeps
      <4>3. g[i] = f[i] /\ (i # 0 => g[i - 1] = f[i - 1])
        BY <3>2, <4>1
      <4> QED BY <4>2, <4>3
    <3> QED BY <3>1, <3>2
  <2>4. Keeps(g, s, id, k)
    <3> HIDE DEF g
    <3>1. g = [i \in 0 .. k |-> g[i]]
      BY DEF g
    <3> QED BY <2>3, <3>1 DEF Keeps
  <2> QED BY <1>2, <2>4
<1> QED BY <1>3, <1>4

\* What is kept of the first k elements of a list.
Part(S, s, id, kept, k) ==
    /\ kept \in Seq(S)
    /\ ToSet(kept) = {s[j] : j \in 1 .. k} \ {id}
    /\ IsInjective(s) => IsInjective(kept)

LEMMA KeepIsPart ==
    ASSUME NEW S, NEW s \in Seq(S), NEW id, NEW k \in 1 .. Len(s),
           NEW kept, Part(S, s, id, kept, k - 1)
    PROVE  Part(S, s, id, Keep(s, id, kept, k), k)
<1>1. k \in Nat \ {0} /\ s[k] \in S /\ DOMAIN s = 1 .. Len(s) /\ Len(s) \in Nat
  OBVIOUS
<1>2. {s[j] : j \in 1 .. k} = {s[j] : j \in 1 .. k - 1} \cup {s[k]}
  <2>1. \A j \in 1 .. k : j \in 1 .. k - 1 \/ j = k
    BY <1>1
  <2>2. k \in 1 .. k /\ \A j \in 1 .. k - 1 : j \in 1 .. k
    BY <1>1
  <2> QED BY <2>1, <2>2
<1>3. CASE s[k] = id
  BY <1>2, <1>3 DEF Part, Keep
<1>4. CASE s[k] # id
  <2>1. Keep(s, id, kept, k) = Append(kept, s[k]) /\ kept \in Seq(S)
        /\ ToSet(kept) = {s[j] : j \in 1 .. k - 1} \ {id}
    BY <1>4 DEF Keep, Part
  <2>2. Append(kept, s[k]) \in Seq(S) /\ ToSet(Append(kept, s[k])) = ToSet(kept) \cup {s[k]}
    BY <1>1, <2>1, AppendPlaces, AppendNames
  <2>3. ToSet(Append(kept, s[k])) = {s[j] : j \in 1 .. k} \ {id}
    BY <1>2, <1>4, <2>1, <2>2
  <2>4. ASSUME IsInjective(s) PROVE IsInjective(Append(kept, s[k]))
    <3>1. \A j \in 1 .. k - 1 : j \in DOMAIN s /\ j # k
      BY <1>1
    <3>2. k \in DOMAIN s
      BY <1>1
    <3>3. \A j \in 1 .. k - 1 : s[j] # s[k]
      BY <2>4, <3>1, <3>2 DEF IsInjective
    <3>4. s[k] \notin ToSet(kept)
      BY <2>1, <3>3
    <3>5. IsInjective(kept)
      BY <2>4 DEF Part
    <3> QED BY <1>1, <2>1, <3>4, <3>5, AppendKeepsDistinct
  <2> QED BY <2>1, <2>2, <2>3, <2>4 DEF Part
<1> QED BY <1>3, <1>4

\* The filtered list names what the list named, but for the id, and none twice
\* if the list named none twice.
LEMMA FilteredFacts ==
    ASSUME NEW S, NEW s \in Seq(S), NEW id
    PROVE  /\ Filtered(s, id) \in Seq(S)
           /\ ToSet(Filtered(s, id)) = ToSet(s) \ {id}
           /\ IsInjective(s) => IsInjective(Filtered(s, id))
<1>0. PICK c \in Nat : c = Len(s)
  OBVIOUS
<1>1. PICK f : f = CHOOSE g : Keeps(g, s, id, c)
  OBVIOUS
<1>2. Filtered(s, id) = f[c]
  BY <1>0, <1>1 DEF Filtered, Keeps, Keep
<1>3. Keeps(f, s, id, c)
  <2>1. \E g : Keeps(g, s, id, c)
    BY KeepsExists
  <2> HIDE DEF Keeps
  <2> QED BY <1>1, <2>1
<1> DEFINE Bad == {k \in 0 .. c : ~Part(S, s, id, f[k], k)}
<1>4. Bad = {}
  <2> SUFFICES ASSUME Bad # {} PROVE FALSE
    OBVIOUS
  <2>0. Bad \in SUBSET Nat
    OBVIOUS
  <2>1. PICK k \in Bad : \A q \in Bad : k <= q
    BY <2>0, LeastExists
  <2>2. k \in 0 .. c /\ ~Part(S, s, id, f[k], k)
    OBVIOUS
  <2>3. CASE k = 0
    <3>1. f[0] = <<>>
      BY <1>3 DEF Keeps
    <3>2. Part(S, s, id, <<>>, 0)
      BY DEF Part, IsInjective, ToSet
    <3> QED BY <2>2, <2>3, <3>1, <3>2
  <2>4. CASE k # 0
    <3>1. k - 1 \in 0 .. c /\ k - 1 < k /\ k \in 1 .. c
      BY <2>2, <2>4
    <3>2. Part(S, s, id, f[k - 1], k - 1)
      BY <2>1, <3>1
    <3>3. f[k] = Keep(s, id, f[k - 1], k)
      BY <1>3, <2>2, <2>4 DEF Keeps
    <3> QED BY <1>0, <2>2, <3>1, <3>2, <3>3, KeepIsPart
  <2> QED BY <2>3, <2>4
<1>5. Part(S, s, id, f[c], c)
  BY <1>4
<1>6. ToSet(s) = {s[j] : j \in 1 .. c}
  BY <1>0 DEF ToSet
<1> QED BY <1>2, <1>5, <1>6 DEF Part

-----------------------------------------------------------------------------
(* Types                                                                   *)

LEMMA CallParts ==
    ASSUME NEW c \in Call
    PROVE  /\ c # Idle
           /\ c.step \in {"list", "write", "save", "purge"} /\ c.id \in Id
           /\ c.step \in {"list", "write"} => c.op \in {"insert", "delete"}
           /\ c.step = "write" => c.ids \in Seq(Id)
           /\ c.step = "save" => c.rec \in Record
<1>1. c # Idle
  BY TableConstants
<1>2. CASE c \in [step : {"list"}, op : {"insert", "delete"}, id : Id]
  BY ONLY <1>1, <1>2
<1>3. CASE c \in [step : {"write"}, op : {"insert", "delete"}, id : Id, ids : Seq(Id)]
  BY ONLY <1>1, <1>3
<1>4. CASE c \in [step : {"save"}, id : Id, rec : Record]
  BY ONLY <1>1, <1>4
<1>5. CASE c \in [step : {"purge"}, id : Id]
  BY ONLY <1>1, <1>5
<1> QED BY <1>2, <1>3, <1>4, <1>5 DEF Call

LEMMA Lists ==
    ASSUME NEW o \in {"insert", "delete"}, NEW i \in Id
    PROVE  [step |-> "list", op |-> o, id |-> i] \in Call
BY DEF Call

LEMMA Writes ==
    ASSUME NEW o \in {"insert", "delete"}, NEW i \in Id, NEW s \in Seq(Id)
    PROVE  [step |-> "write", op |-> o, id |-> i, ids |-> s] \in Call
BY DEF Call

LEMMA Saves ==
    ASSUME NEW i \in Id, NEW r \in Record
    PROVE  [step |-> "save", id |-> i, rec |-> r] \in Call
BY DEF Call

LEMMA Purges ==
    ASSUME NEW i \in Id
    PROVE  [step |-> "purge", id |-> i] \in Call
BY DEF Call

\* What the statements make of the table.
LEMMA RowWritten ==
    ASSUME store \in Tables, NEW i \in Id, NEW r \in Record, NEW ttl \in BOOLEAN
    PROVE  /\ WithRow(i, r, ttl) \in Tables
           /\ WithRow(i, r, ttl).rows[i] = r
           /\ \A j \in Id \ {i} : WithRow(i, r, ttl).rows[j] = store.rows[j]
           /\ WithRow(i, r, ttl).ids = store.ids
           /\ WithRow(i, r, ttl).mortal \subseteq store.mortal \cup {i}
           /\ ~ttl => WithRow(i, r, ttl).mortal \subseteq store.mortal \ {i}
BY DEF WithRow, Tables

LEMMA RowDeleted ==
    ASSUME store \in Tables, NEW i \in Id
    PROVE  /\ WithoutRow(i) \in Tables
           /\ WithoutRow(i).rows[i] = NoRec
           /\ \A j \in Id \ {i} : WithoutRow(i).rows[j] = store.rows[j]
           /\ WithoutRow(i).ids = store.ids
           /\ WithoutRow(i).mortal \subseteq store.mortal \ {i}
BY DEF WithoutRow, Tables

LEMMA ListWritten ==
    ASSUME store \in Tables, NEW ids \in Seq(Id)
    PROVE  /\ WithList(ids) \in Tables
           /\ WithList(ids).rows = store.rows
           /\ WithList(ids).ids = ids
           /\ WithList(ids).mortal = store.mortal
BY DEF WithList, Tables

\* A statement is carried out, fails, or is rolled back with those before it.
LEMMA Outcomes ==
    ASSUME TypeOK, NEW s \in Tables, Commit(s) \/ Fail(s)
    PROVE  /\ store' \in {store, s, disk} /\ disk' \in {disk, s}
           /\ store' \in Tables /\ disk' \in Tables /\ faults' \in Nat
BY DEF Commit, Fail, TypeOK

LEMMA HistoryTyped ==
    ASSUME TypeOK
    PROVE  /\ \A S : Doubt(S) => wanted' \in [Id -> Expectation]
           /\ \A i \in Id, w \in Expectation : Begin(i, w) => wanted' \in [Id -> Expectation]
           /\ \A i : BeginFailing(i) => wanted' \in [Id -> Expectation]
<1>1. \A S : Doubt(S) => wanted' \in [Id -> Expectation]
  BY DEF Doubt, TypeOK, Expectation
<1>2. \A i \in Id, w \in Expectation : Begin(i, w) => wanted' \in [Id -> Expectation]
  BY <1>1 DEF Begin, TypeOK
<1> QED BY <1>1, <1>2 DEF BeginFailing

LEMMA UpdatedTyped ==
    ASSUME NEW w \in Expectation, NEW f \in Field, NEW v \in Value
    PROVE  Updated(w, f, v) \in Expectation
<1>1. CASE w \in Record
  <2>1. [w EXCEPT ![f] = v] \in Record
    BY <1>1 DEF Record
  <2> QED BY <1>1, <2>1 DEF Updated, Expectation
<1>2. CASE w \notin Record
  BY <1>2 DEF Updated
<1> QED BY <1>1, <1>2

LEMMA TypeInit == Init => TypeOK
BY DEF Init, NoTable, TypeOK, Tables, Expectation

LEMMA TypeStep == TypeOK /\ [Next]_vars => TypeOK'
<1> SUFFICES ASSUME TypeOK, [Next]_vars PROVE TypeOK'
  OBVIOUS
<1>0. /\ \A t \in Thread : call[t] # Idle => call[t] \in Call
      /\ store \in Tables /\ store.ids \in Seq(Id) /\ disk \in Tables
  BY DEF TypeOK, Tables
<1>1. \A t \in Thread, c \in Call \cup {Idle} : Then(t, c) => call' \in [Thread -> Call \cup {Idle}]
  BY DEF Then, TypeOK
<1>2. \A t \in Thread : Finish(t) \/ Abandon(t) =>
          call' \in [Thread -> Call \cup {Idle}] /\ wanted' \in [Id -> Expectation]
  BY <1>1, HistoryTyped DEF Finish, Abandon, TypeOK
<1>3. ASSUME NEW t \in Thread, NEW i \in Id, NEW r \in Record, NEW ttl \in BOOLEAN,
             InsertPut(t, i, r, ttl)
      PROVE  TypeOK'
  <2>1. [step |-> "list", op |-> "insert", id |-> i] \in Call
    BY Lists
  <2>2. (IF ttl THEN Expiring ELSE r) \in Expectation
    BY DEF Expectation
  <2>3. wanted' \in [Id -> Expectation]
    BY <1>3, <2>2, HistoryTyped DEF InsertPut
  <2>4. WithRow(i, r, ttl) \in Tables /\ (Commit(WithRow(i, r, ttl)) \/ Fail(WithRow(i, r, ttl)))
    BY <1>0, <1>3, RowWritten DEF InsertPut
  <2>5. call' \in [Thread -> Call \cup {Idle}]
    BY <1>1, <1>3, <2>1 DEF InsertPut
  <2> QED BY <2>3, <2>4, <2>5, Outcomes DEF TypeOK
<1>4. ASSUME NEW t \in Thread, InsertList(t) PROVE TypeOK'
  <2>1. call[t].id \in Id
    BY <1>0, <1>4, CallParts DEF InsertList, At
  <2>2. [step |-> "write", op |-> "insert", id |-> call[t].id, ids |-> store.ids] \in Call
    BY <1>0, <2>1, Writes
  <2>3. call' \in [Thread -> Call \cup {Idle}] /\ wanted' \in [Id -> Expectation]
    BY <1>1, <1>2, <1>4, <2>2 DEF InsertList, TypeOK
  <2> QED BY <1>4, <2>3 DEF InsertList, TypeOK
<1>5. ASSUME NEW t \in Thread, InsertWrite(t) PROVE TypeOK'
  <2>1. call[t].id \in Id /\ call[t].ids \in Seq(Id)
    BY <1>0, <1>5, CallParts DEF InsertWrite, At
  <2>2. PICK ids \in Seq(Id) : ids = Append(call[t].ids, call[t].id)
    BY <2>1, AppendPlaces, Zenon
  <2>3. WithList(ids) \in Tables /\ (Commit(WithList(ids)) \/ Fail(WithList(ids)))
    BY <1>0, <1>5, <2>2, ListWritten DEF InsertWrite
  <2>4. call' \in [Thread -> Call \cup {Idle}] /\ wanted' \in [Id -> Expectation]
    BY <1>2, <1>5 DEF InsertWrite
  <2> QED BY <2>3, <2>4, Outcomes DEF TypeOK
<1>6. ASSUME NEW t \in Thread, NEW i \in Id, DeleteRow(t, i) PROVE TypeOK'
  <2>1. [step |-> "list", op |-> "delete", id |-> i] \in Call
    BY Lists
  <2>2. NoRec \in Expectation
    BY DEF Expectation
  <2>3. wanted' \in [Id -> Expectation]
    BY <1>6, <2>2, HistoryTyped DEF DeleteRow
  <2>4. WithoutRow(i) \in Tables /\ (Commit(WithoutRow(i)) \/ Fail(WithoutRow(i)))
    BY <1>0, <1>6, RowDeleted DEF DeleteRow
  <2>5. call' \in [Thread -> Call \cup {Idle}]
    BY <1>1, <1>6, <2>1 DEF DeleteRow, TypeOK
  <2> QED BY <2>3, <2>4, <2>5, Outcomes DEF TypeOK
<1>7. ASSUME NEW t \in Thread, DeleteList(t) PROVE TypeOK'
  <2>1. call[t].id \in Id
    BY <1>0, <1>7, CallParts DEF DeleteList, At
  <2>2. [step |-> "write", op |-> "delete", id |-> call[t].id, ids |-> store.ids] \in Call
    BY <1>0, <2>1, Writes
  <2> QED BY <1>1, <1>7, <2>2 DEF DeleteList, TypeOK
<1>8. ASSUME NEW t \in Thread, DeleteWrite(t) PROVE TypeOK'
  <2>1. call[t].id \in Id /\ call[t].ids \in Seq(Id)
    BY <1>0, <1>8, CallParts DEF DeleteWrite, At
  <2>2. PICK ids \in Seq(Id) : ids = Filtered(call[t].ids, call[t].id)
    BY <2>1, FilteredFacts
  <2>3. WithList(ids) \in Tables /\ (Commit(WithList(ids)) \/ Fail(WithList(ids)))
    BY <1>0, <1>8, <2>2, ListWritten DEF DeleteWrite
  <2>4. call' \in [Thread -> Call \cup {Idle}] /\ wanted' \in [Id -> Expectation]
    BY <1>2, <1>8 DEF DeleteWrite
  <2> QED BY <2>3, <2>4, Outcomes DEF TypeOK
<1>9. ASSUME NEW t \in Thread, ListFails(t) PROVE TypeOK'
  <2>1. call' \in [Thread -> Call \cup {Idle}] /\ wanted' \in [Id -> Expectation]
    BY <1>2, <1>9 DEF ListFails
  <2> QED BY <1>9, <2>1 DEF ListFails, TypeOK
<1>10. ASSUME NEW t \in Thread, NEW i \in Id, NEW f \in Field, NEW v \in Value, UpdateFind(t, i, f, v)
       PROVE  TypeOK'
  <2>1. store.rows[i] \in Record /\ wanted[i] \in Expectation
    BY <1>10 DEF UpdateFind, TypeOK, Tables
  <2>2. [store.rows[i] EXCEPT ![f] = v] \in Record
    BY <2>1 DEF Record
  <2>3. [step |-> "save", id |-> i, rec |-> [store.rows[i] EXCEPT ![f] = v]] \in Call
    BY <2>2, Saves
  <2>4. wanted' \in [Id -> Expectation]
    BY <1>10, <2>1, UpdatedTyped, HistoryTyped DEF UpdateFind
  <2>5. call' \in [Thread -> Call \cup {Idle}]
    BY <1>1, <1>10, <2>3 DEF UpdateFind
  <2> QED BY <1>10, <2>4, <2>5 DEF UpdateFind, TypeOK
<1>11. ASSUME NEW t \in Thread, UpdateSave(t) PROVE TypeOK'
  <2>1. call[t].id \in Id /\ call[t].rec \in Record
    BY <1>0, <1>11, CallParts DEF UpdateSave, At
  <2>2. PICK s \in Tables : s = WithRow(call[t].id, call[t].rec, FALSE)
    <3>1. FALSE \in BOOLEAN
      OBVIOUS
    <3>2. WithRow(call[t].id, call[t].rec, FALSE) \in Tables
      BY <1>0, <2>1, <3>1, RowWritten, Zenon
    <3> QED BY <3>2, Zenon
  <2>3. Commit(s) \/ Fail(s)
    BY <1>11, <2>2 DEF UpdateSave
  <2>4. call' \in [Thread -> Call \cup {Idle}] /\ wanted' \in [Id -> Expectation]
    BY <1>2, <1>11 DEF UpdateSave
  <2> QED BY <2>3, <2>4, Outcomes DEF TypeOK
<1>12. ASSUME NEW t \in Thread, NEW i \in Id, FindExpired(t, i) PROVE TypeOK'
  <2>1. [step |-> "purge", id |-> i] \in Call
    BY Purges
  <2> QED BY <1>1, <1>12, <2>1 DEF FindExpired, TypeOK
<1>13. ASSUME NEW t \in Thread, Purge(t) PROVE TypeOK'
  <2>1. call[t].id \in Id
    BY <1>0, <1>13, CallParts DEF Purge, At
  <2>2. PICK s \in Tables : s = WithoutRow(call[t].id)
    BY <1>0, <2>1, RowDeleted
  <2>3. Commit(s) \/ Fail(s)
    BY <1>13, <2>2 DEF Purge
  <2>4. call' \in [Thread -> Call \cup {Idle}] /\ wanted' \in [Id -> Expectation]
    BY <1>2, <1>13 DEF Purge
  <2> QED BY <2>3, <2>4, Outcomes DEF TypeOK
<1>14. CASE Crash
  <2>1. wanted' \in [Id -> Expectation]
    BY <1>14, HistoryTyped DEF Crash
  <2> QED BY <1>14, <2>1 DEF Crash, TypeOK
<1>15. CASE UNCHANGED vars
  BY <1>15 DEF vars, TypeOK
<1> QED BY <1>3, <1>4, <1>5, <1>6, <1>7, <1>8, <1>9, <1>10, <1>11, <1>12, <1>13, <1>14, <1>15 DEF Next

\* The tables, the calls and what is expected are of their types in every
\* behaviour.
THEOREM TypeCorrect == Spec => []TypeOK
BY TypeInit, TypeStep, PTL DEF Spec

-----------------------------------------------------------------------------
(* No id twice                                                             *)

\* Neither does the committed list, nor the copy that a call holds, which does
\* not name the id that is to be appended to it.
Distinct ==
    /\ IsInjective(store.ids)
    /\ IsInjective(disk.ids)
    /\ \A t \in Thread : At(t, "write") =>
        /\ IsInjective(call[t].ids)
        /\ call[t].op = "insert" => call[t].id \notin ToSet(call[t].ids)

LEMMA DistinctInit == Init => Distinct
BY DEF Init, NoTable, Distinct, IsInjective, At

LEMMA DistinctStep == TypeOK /\ Distinct /\ [Next]_vars => Distinct'
<1> SUFFICES ASSUME TypeOK, Distinct, [Next]_vars PROVE Distinct'
  OBVIOUS
<1>0. /\ \A t \in Thread : call[t] # Idle => call[t] \in Call
      /\ store \in Tables /\ store.ids \in Seq(Id)
  BY DEF TypeOK, Tables
\* A statement that writes a distinct list, or no list.
<1>1. ASSUME NEW s \in Tables, Commit(s) \/ Fail(s), IsInjective(s.ids)
      PROVE  IsInjective(store'.ids) /\ IsInjective(disk'.ids)
  BY <1>1, Outcomes DEF Distinct
\* A call that goes to a step other than its write needs no copy.
<1>2. ASSUME NEW t \in Thread, NEW c, Then(t, c),
             c # Idle /\ c.step = "write" =>
                 IsInjective(c.ids) /\ (c.op = "insert" => c.id \notin ToSet(c.ids))
      PROVE  (\A u \in Thread : At(u, "write") =>
                 /\ IsInjective(call[u].ids)
                 /\ call[u].op = "insert" => call[u].id \notin ToSet(call[u].ids))'
  <2>1. call'[t] = c /\ \A u \in Thread \ {t} : call'[u] = call[u]
    BY <1>2 DEF Then, TypeOK
  <2> QED BY <1>2, <2>1 DEF Distinct, At
<1>3. ASSUME NEW t \in Thread, Finish(t) \/ Abandon(t)
      PROVE  (\A u \in Thread : At(u, "write") =>
                 /\ IsInjective(call[u].ids)
                 /\ call[u].op = "insert" => call[u].id \notin ToSet(call[u].ids))'
  BY <1>2, <1>3 DEF Finish, Abandon
<1>4. ASSUME NEW t \in Thread, NEW i \in Id, NEW r \in Record, NEW ttl \in BOOLEAN,
             InsertPut(t, i, r, ttl)
      PROVE  Distinct'
  <2>1. PICK s \in Tables : s = WithRow(i, r, ttl) /\ s.ids = store.ids
    BY <1>0, RowWritten
  <2>2. IsInjective(store'.ids) /\ IsInjective(disk'.ids)
    BY <1>1, <1>4, <2>1 DEF InsertPut, Distinct
  <2> QED BY <1>2, <1>4, <2>2 DEF InsertPut, Distinct
<1>5. ASSUME NEW t \in Thread, InsertList(t) PROVE Distinct'
  <2>1. CASE call[t].id \in ToSet(store.ids)
    BY <1>3, <1>5, <2>1 DEF InsertList, Distinct
  <2>2. CASE call[t].id \notin ToSet(store.ids)
    <3>1. PICK c : c = [step |-> "write", op |-> "insert", id |-> call[t].id, ids |-> store.ids]
      OBVIOUS
    <3>2. Then(t, c)
      BY <1>5, <2>2, <3>1 DEF InsertList
    <3>3. c.ids = store.ids /\ c.id = call[t].id
      BY <3>1
    <3> QED BY <1>2, <1>5, <2>2, <3>2, <3>3 DEF InsertList, Distinct
  <2> QED BY <2>1, <2>2
<1>6. ASSUME NEW t \in Thread, InsertWrite(t) PROVE Distinct'
  <2>1. call[t].id \in Id /\ call[t].ids \in Seq(Id) /\ At(t, "write") /\ call[t].op = "insert"
    BY <1>0, <1>6, CallParts DEF InsertWrite, At
  <2>2. IsInjective(call[t].ids) /\ call[t].id \notin ToSet(call[t].ids)
    BY <2>1 DEF Distinct
  <2>3. PICK ids \in Seq(Id) : ids = Append(call[t].ids, call[t].id)
    BY <2>1, AppendPlaces, Zenon
  <2>4. IsInjective(ids)
    BY <2>1, <2>2, <2>3, AppendKeepsDistinct
  <2>5. PICK s \in Tables : s = WithList(ids) /\ s.ids = ids
    BY <1>0, ListWritten
  <2>6. IsInjective(store'.ids) /\ IsInjective(disk'.ids)
    BY <1>1, <1>6, <2>3, <2>4, <2>5 DEF InsertWrite
  <2> QED BY <1>3, <1>6, <2>6 DEF InsertWrite, Distinct
<1>7. ASSUME NEW t \in Thread, NEW i \in Id, DeleteRow(t, i) PROVE Distinct'
  <2>1. PICK s \in Tables : s = WithoutRow(i) /\ s.ids = store.ids
    BY <1>0, RowDeleted
  <2>2. IsInjective(store'.ids) /\ IsInjective(disk'.ids)
    BY <1>1, <1>7, <2>1 DEF DeleteRow, Distinct
  <2>3. CASE UNCHANGED call
    BY <2>2, <2>3 DEF Distinct, At
  <2>4. CASE Then(t, [step |-> "list", op |-> "delete", id |-> i])
    BY <1>2, <2>2, <2>4 DEF Distinct
  <2> QED BY <1>7, <2>3, <2>4 DEF DeleteRow
<1>8. ASSUME NEW t \in Thread, DeleteList(t) PROVE Distinct'
  <2>1. PICK c : c = [step |-> "write", op |-> "delete", id |-> call[t].id, ids |-> store.ids]
    OBVIOUS
  <2>2. Then(t, c) /\ c.ids = store.ids /\ c.op = "delete"
    BY <1>8, <2>1 DEF DeleteList
  <2> QED BY <1>2, <1>8, <2>2 DEF DeleteList, Distinct
<1>9. ASSUME NEW t \in Thread, DeleteWrite(t) PROVE Distinct'
  <2>1. call[t].id \in Id /\ call[t].ids \in Seq(Id) /\ At(t, "write")
    BY <1>0, <1>9, CallParts DEF DeleteWrite, At
  <2>2. PICK ids \in Seq(Id) : ids = Filtered(call[t].ids, call[t].id)
    BY <2>1, FilteredFacts
  <2>3. IsInjective(ids)
    BY <2>1, <2>2, FilteredFacts DEF Distinct
  <2>4. PICK s \in Tables : s = WithList(ids) /\ s.ids = ids
    BY <1>0, ListWritten
  <2>5. IsInjective(store'.ids) /\ IsInjective(disk'.ids)
    BY <1>1, <1>9, <2>2, <2>3, <2>4 DEF DeleteWrite
  <2> QED BY <1>3, <1>9, <2>5 DEF DeleteWrite, Distinct
<1>10. ASSUME NEW t \in Thread, ListFails(t) PROVE Distinct'
  BY <1>3, <1>10 DEF ListFails, Distinct
<1>11. ASSUME NEW t \in Thread, NEW i \in Id, NEW f \in Field, NEW v \in Value, UpdateFind(t, i, f, v)
       PROVE  Distinct'
  BY <1>2, <1>11 DEF UpdateFind, Distinct
<1>12. ASSUME NEW t \in Thread, UpdateSave(t) PROVE Distinct'
  <2>1. call[t].id \in Id /\ call[t].rec \in Record /\ FALSE \in BOOLEAN
    BY <1>0, <1>12, CallParts DEF UpdateSave, At
  <2>2. PICK s \in Tables : s = WithRow(call[t].id, call[t].rec, FALSE) /\ s.ids = store.ids
    <3>1. PICK i \in Id, r \in Record : i = call[t].id /\ r = call[t].rec
      BY <2>1
    <3>2. WithRow(i, r, FALSE) \in Tables /\ WithRow(i, r, FALSE).ids = store.ids
      BY <1>0, <2>1, RowWritten
    <3> QED BY <3>1, <3>2
  <2>3. IsInjective(store'.ids) /\ IsInjective(disk'.ids)
    BY <1>1, <1>12, <2>2 DEF UpdateSave, Distinct
  <2> QED BY <1>3, <1>12, <2>3 DEF UpdateSave, Distinct
<1>13. ASSUME NEW t \in Thread, NEW i \in Id, FindExpired(t, i) PROVE Distinct'
  BY <1>2, <1>13 DEF FindExpired, Distinct
<1>14. ASSUME NEW t \in Thread, Purge(t) PROVE Distinct'
  <2>1. call[t].id \in Id
    BY <1>0, <1>14, CallParts DEF Purge, At
  <2>2. PICK s \in Tables : s = WithoutRow(call[t].id) /\ s.ids = store.ids
    BY <1>0, <2>1, RowDeleted
  <2>3. IsInjective(store'.ids) /\ IsInjective(disk'.ids)
    BY <1>1, <1>14, <2>2 DEF Purge, Distinct
  <2> QED BY <1>3, <1>14, <2>3 DEF Purge, Distinct
<1>15. CASE Crash
  BY <1>15 DEF Crash, Distinct, At
<1>16. CASE UNCHANGED vars
  BY <1>16 DEF vars, Distinct, At
<1> QED BY <1>4, <1>5, <1>6, <1>7, <1>8, <1>9, <1>10, <1>11, <1>12, <1>13, <1>14, <1>15, <1>16 DEF Next

\* The id list of a table never names a record twice, whatever stale copies of
\* it concurrent inserts and deletes write back, whichever statements fail and
\* whenever the process dies.
THEOREM IdsAreDistinct == Spec => []NoDuplicateIds
<1>1. Distinct => NoDuplicateIds
  BY DEF Distinct, NoDuplicateIds
<1> QED BY <1>1, TypeInit, TypeStep, DistinctInit, DistinctStep, PTL DEF Spec

-----------------------------------------------------------------------------
(* A record is wrong only through its own calls                            *)

In(c) == {t \in Thread : c[t] # Idle /\ c[t].step # "purge"}

Rests(c, i) == \A t \in In(c) : c[t].id # i

\* What table s must hold of record i when w is expected of it,
KeptAs(s, i, w) ==
    /\ w \in Record \cup {NoRec} => s.rows[i] = w
    /\ w \in Record \cup {Expiring} => i \in ToSet(s.ids)
    /\ w = NoRec => i \notin ToSet(s.ids)

\* and while the call c on it is under way.
Half(s, i, w, c) ==
    /\ c.step \in {"list", "write"} /\ w \in Record \cup {NoRec} => s.rows[i] = w
    /\ c.step = "save" => i \in ToSet(s.ids)

\* Table s is what w expects, but for the doubtful records and the calls c.
Orderly(s, w, c) ==
    /\ \A i \in Id : w[i] # Doubtful /\ Rests(c, i) => KeptAs(s, i, w[i])
    /\ \A i \in s.mortal : w[i] \in {Expiring, Doubtful}
    /\ \A t \in In(c) : w[c[t].id] # Doubtful => Half(s, c[t].id, w[c[t].id], c[t])

\* A call on a record that is not in doubt is the only one; copies of the list
\* name the records that are expected in it.
CallsFit(w, c) ==
    /\ \A t \in In(c), u \in In(c) : w[c[t].id] # Doubtful => u = t
    /\ \A t \in In(c) : w[c[t].id] # Doubtful =>
          /\ c[t].step \in {"list", "write"} => (w[c[t].id] = NoRec <=> c[t].op = "delete")
          /\ c[t].step = "save" => /\ w[c[t].id] # NoRec
                                   /\ w[c[t].id] \in Record => c[t].rec = w[c[t].id]
    /\ \A t \in In(c) : c[t].step = "write" =>
          \A i \in Id \ {c[t].id} : w[i] # Doubtful =>
              (i \in ToSet(c[t].ids) <=> w[i] # NoRec)
    /\ \A t \in Thread : c[t] # Idle /\ c[t].step = "purge" => w[c[t].id] \in {Expiring, Doubtful}

\* The tables agree on whether the record of a call is listed.
ListsAgree(s, d, w, c) ==
    \A t \in In(c) : w[c[t].id] # Doubtful /\ c[t].step \in {"list", "write"} =>
        (c[t].id \in ToSet(s.ids) <=> c[t].id \in ToSet(d.ids))

Settled ==
    /\ Orderly(store, wanted, call)
    /\ Orderly(disk, wanted, call)
    /\ CallsFit(wanted, call)
    /\ ListsAgree(store, disk, wanted, call)

LEMMA CallTyped ==
    ASSUME TypeOK, NEW t \in Thread, call[t] # Idle
    PROVE  call[t] \in Call /\ call[t].id \in Id
           /\ call[t].step \in {"list", "write", "save", "purge"}
           /\ (call[t].step \in {"list", "write"} => call[t].op \in {"insert", "delete"})
           /\ (call[t].step = "write" => call[t].ids \in Seq(Id))
           /\ (call[t].step = "save" => call[t].rec \in Record)
BY CallParts DEF TypeOK

\* A table changes at most at record i, and as the calls and the expectations do.
LEMMA Frame ==
    ASSUME NEW x \in Tables, NEW y \in Tables, NEW w, NEW c, NEW v, NEW d, NEW i \in Id,
           Orderly(y, w, c),
           \A j \in Id \ {i} : v[j] \in {w[j], Doubtful},
           \A j \in Id \ {i} : Rests(d, j) => Rests(c, j),
           \A j \in Id \ {i} : v[j] # Doubtful /\ Rests(d, j) =>
               x.rows[j] = y.rows[j] /\ (j \in ToSet(x.ids) <=> j \in ToSet(y.ids)),
           x.mortal \subseteq y.mortal \cup {i},
           v[i] # Doubtful /\ Rests(d, i) => KeptAs(x, i, v[i]),
           i \in x.mortal => v[i] \in {Expiring, Doubtful},
           \A t \in In(d) : v[d[t].id] # Doubtful => Half(x, d[t].id, v[d[t].id], d[t])
    PROVE  Orderly(x, v, d)
<1>1. ASSUME NEW j \in Id, v[j] # Doubtful, Rests(d, j) PROVE KeptAs(x, j, v[j])
  <2>1. CASE j = i
    BY <1>1, <2>1
  <2>2. CASE j # i
    <3>1. v[j] = w[j] /\ w[j] # Doubtful /\ Rests(c, j)
      BY <1>1, <2>2
    <3>2. KeptAs(y, j, w[j])
      BY <3>1 DEF Orderly
    <3>3. x.rows[j] = y.rows[j] /\ (j \in ToSet(x.ids) <=> j \in ToSet(y.ids))
      BY <1>1, <2>2
    <3> QED BY <3>1, <3>2, <3>3 DEF KeptAs
  <2> QED BY <2>1, <2>2
<1>2. ASSUME NEW j \in x.mortal PROVE v[j] \in {Expiring, Doubtful}
  <2>1. j \in Id
    BY DEF Tables
  <2>2. CASE j # i
    <3>1. j \in y.mortal /\ v[j] \in {w[j], Doubtful}
      BY <2>1, <2>2
    <3> QED BY <3>1 DEF Orderly
  <2> QED BY <2>2
<1> QED BY <1>1, <1>2 DEF Orderly

\* What a call that begins does to the calls and the expectations.
LEMMA BeginFacts ==
    ASSUME TypeOK, CallsFit(wanted, call), NEW t \in Thread, NEW i \in Id, NEW c \in Call,
           NEW w \in Expectation, call[t] = Idle, Then(t, c), c.id = i, c.step \in {"list", "save"},
           Begin(i, w) \/ BeginFailing(i)
    PROVE  /\ call'[t] = c /\ In(call') = In(call) \cup {t}
           /\ \A u \in In(call) : call'[u] = call[u] /\ u # t
           /\ \A j \in Id \ {i} : wanted'[j] \in {wanted[j], Doubtful}
           /\ \A u \in In(call) : wanted'[call[u].id] = Doubtful
           /\ \/ wanted'[i] = Doubtful
              \/ In(call) = {} /\ wanted'[i] = w /\ Begin(i, w)
           /\ \A u \in Thread : call'[u] # Idle /\ call'[u].step = "purge" =>
                  /\ call[u] = call'[u]
                  /\ call[u].id = i => wanted'[i] = Doubtful
           /\ \A j \in Id \ {i} : Rests(call', j) => Rests(call, j)
           /\ ~Rests(call', i)
<1>1. call'[t] = c /\ \A u \in Thread \ {t} : call'[u] = call[u]
  BY DEF Then, TypeOK
<1>2. c # Idle /\ c.step # "purge"
  BY CallParts
<1>3. In(call') = In(call) \cup {t} /\ \A u \in In(call) : call'[u] = call[u] /\ u # t
  BY <1>1, <1>2 DEF In
<1>4. In(call) = InCall
  BY DEF In, InCall
<1>5. \A u \in In(call) : call[u].id \in Id
  BY CallTyped DEF In
<1>6. CASE Begin(i, w) /\ Alone(i)
  <2>1. wanted' = [wanted EXCEPT ![i] = w]
    BY <1>6 DEF Begin
  <2>2. wanted'[i] = w /\ \A j \in Id \ {i} : wanted'[j] = wanted[j]
    BY <2>1 DEF TypeOK
  <2>3. In(call) = {}
    BY <1>6 DEF Alone, In
  <2>4. \A u \in Thread : call[u] # Idle /\ call[u].step = "purge" => call[u].id # i
    BY <1>6 DEF Alone
  <2> QED BY <1>1, <1>2, <1>3, <1>6, <2>2, <2>3, <2>4 DEF Rests
<1>7. CASE Doubt({i} \cup {call[u].id : u \in In(call)})
  <2>1. \A j \in Id : wanted'[j] = IF j \in {i} \cup {call[u].id : u \in In(call)}
                                   THEN Doubtful ELSE wanted[j]
    BY <1>7 DEF Doubt
  <2>2. wanted'[i] = Doubtful /\ \A u \in In(call) : wanted'[call[u].id] = Doubtful
    BY <1>5, <2>1
  <2>3. \A j \in Id : wanted'[j] \in {wanted[j], Doubtful}
    BY <2>1
  <2> QED BY <1>1, <1>2, <1>3, <2>2, <2>3 DEF Rests
<1> QED BY <1>4, <1>6, <1>7 DEF Begin, BeginFailing

\* The calls still fit when one begins that fits.
LEMMA BeginFits ==
    ASSUME TypeOK, CallsFit(wanted, call), NEW t \in Thread, NEW i \in Id, NEW c \in Call,
           NEW w \in Expectation, call[t] = Idle, Then(t, c), c.id = i, c.step \in {"list", "save"},
           Begin(i, w) \/ BeginFailing(i),
           In(call) = {} /\ w # Doubtful /\ Begin(i, w) =>
               /\ c.step = "list" => (w = NoRec <=> c.op = "delete")
               /\ c.step = "save" => w # NoRec /\ (w \in Record => c.rec = w)
    PROVE  CallsFit(wanted', call')
<1>1. /\ call'[t] = c /\ In(call') = In(call) \cup {t}
      /\ \A u \in In(call) : call'[u] = call[u] /\ u # t
      /\ \A j \in Id \ {i} : wanted'[j] \in {wanted[j], Doubtful}
      /\ \A u \in In(call) : wanted'[call[u].id] = Doubtful
      /\ wanted'[i] = Doubtful \/ (In(call) = {} /\ wanted'[i] = w /\ Begin(i, w))
      /\ \A u \in Thread : call'[u] # Idle /\ call'[u].step = "purge" =>
             call[u] = call'[u] /\ (call[u].id = i => wanted'[i] = Doubtful)
  BY BeginFacts
<1>2. \A u \in In(call') : wanted'[call'[u].id] # Doubtful =>
          u = t /\ In(call) = {} /\ wanted'[i] = w /\ w # Doubtful /\ Begin(i, w)
  BY <1>1
<1>3. \A u \in In(call'), v \in In(call') : wanted'[call'[u].id] # Doubtful => v = u
  BY <1>1, <1>2
<1>4. \A u \in In(call') : wanted'[call'[u].id] # Doubtful =>
          /\ call'[u].step \in {"list", "write"} =>
                 (wanted'[call'[u].id] = NoRec <=> call'[u].op = "delete")
          /\ call'[u].step = "save" =>
                 /\ wanted'[call'[u].id] # NoRec
                 /\ wanted'[call'[u].id] \in Record => call'[u].rec = wanted'[call'[u].id]
  BY <1>1, <1>2
<1>5. ASSUME NEW u \in In(call'), call'[u].step = "write", NEW j \in Id \ {call'[u].id},
             wanted'[j] # Doubtful
      PROVE  j \in ToSet(call'[u].ids) <=> wanted'[j] # NoRec
  <2>1. u \in In(call) /\ call'[u] = call[u]
    BY <1>1, <1>5
  <2>2. j # i /\ wanted'[j] = wanted[j]
    BY <1>1, <1>5, <2>1
  <2> QED BY <1>5, <2>1, <2>2 DEF CallsFit
<1>6. \A u \in Thread : call'[u] # Idle /\ call'[u].step = "purge" =>
          wanted'[call'[u].id] \in {Expiring, Doubtful}
  <2> SUFFICES ASSUME NEW u \in Thread, call'[u] # Idle, call'[u].step = "purge"
               PROVE  wanted'[call'[u].id] \in {Expiring, Doubtful}
    OBVIOUS
  <2>1. call[u] = call'[u] /\ (call[u].id = i => wanted'[i] = Doubtful)
    BY <1>1
  <2>2. call[u].id \in Id /\ wanted[call[u].id] \in {Expiring, Doubtful}
    BY <2>1, CallTyped DEF CallsFit
  <2> QED BY <1>1, <2>1, <2>2
<1> QED BY <1>3, <1>4, <1>5, <1>6 DEF CallsFit

\* What a call that ends does to them.
LEMMA EndFacts ==
    ASSUME TypeOK, CallsFit(wanted, call), NEW t \in In(call), NEW i, i = call[t].id,
           Finish(t) \/ Abandon(t)
    PROVE  /\ i \in Id /\ In(call') = In(call) \ {t}
           /\ \A j \in Id : wanted'[j] \in {wanted[j], Doubtful}
           /\ Abandon(t) => wanted'[i] = Doubtful
           /\ \A j \in Id \ {i} : Rests(call', j) => Rests(call, j)
           /\ \A u \in In(call') : wanted'[call'[u].id] = Doubtful
           /\ CallsFit(wanted', call')
<1>1. /\ call'[t] = Idle /\ \A u \in Thread \ {t} : call'[u] = call[u]
      /\ t \in Thread /\ call[t] # Idle /\ call[t].step # "purge"
  BY DEF Finish, Abandon, Then, TypeOK, In
<1>2. i \in Id
  BY <1>1, CallTyped
<1>3. In(call') = In(call) \ {t} /\ \A u \in In(call') : call'[u] = call[u] /\ u \in In(call)
  BY <1>1 DEF In
<1>4. \A j \in Id : wanted'[j] \in {wanted[j], Doubtful}
  BY DEF Finish, Abandon, Doubt
<1>5. Abandon(t) => wanted'[i] = Doubtful
  BY <1>2 DEF Abandon, Doubt
<1>6. \A u \in In(call') : call[u].id \in Id
  BY <1>3, CallTyped DEF In
<1>7. \A u \in In(call') : wanted'[call'[u].id] = Doubtful
  <2> SUFFICES ASSUME NEW u \in In(call'), wanted'[call'[u].id] # Doubtful PROVE FALSE
    OBVIOUS
  <2>1. u \in In(call) /\ u # t /\ wanted[call[u].id] # Doubtful
    BY <1>3, <1>4, <1>6
  <2> QED BY <2>1 DEF CallsFit
<1>8. \A j \in Id \ {i} : Rests(call', j) => Rests(call, j)
  BY <1>3 DEF Rests
<1>9. \A u \in In(call') : call'[u].step = "write" =>
          \A j \in Id \ {call'[u].id} : wanted'[j] # Doubtful =>
              (j \in ToSet(call'[u].ids) <=> wanted'[j] # NoRec)
  BY <1>3, <1>4 DEF CallsFit
<1>10. \A u \in Thread : call'[u] # Idle /\ call'[u].step = "purge" =>
           wanted'[call'[u].id] \in {Expiring, Doubtful}
  <2> SUFFICES ASSUME NEW u \in Thread, call'[u] # Idle, call'[u].step = "purge"
               PROVE  wanted'[call'[u].id] \in {Expiring, Doubtful}
    OBVIOUS
  <2>1. call'[u] = call[u]
    BY <1>1
  <2>2. call[u].id \in Id /\ wanted[call[u].id] \in {Expiring, Doubtful}
    BY <2>1, CallTyped DEF CallsFit
  <2> QED BY <1>4, <2>1, <2>2
<1> QED BY <1>2, <1>3, <1>4, <1>5, <1>7, <1>8, <1>9, <1>10 DEF CallsFit

\* A begun call is all that is under way in a table it has not made wrong.
LEMMA BeginOrder ==
    ASSUME TypeOK, CallsFit(wanted, call), NEW t \in Thread, NEW i \in Id, NEW c \in Call,
           NEW w \in Expectation, call[t] = Idle, Then(t, c), c.id = i, c.step \in {"list", "save"},
           Begin(i, w) \/ BeginFailing(i),
           NEW x \in Tables, NEW y \in Tables, Orderly(y, wanted, call),
           \A j \in Id \ {i} : x.rows[j] = y.rows[j],
           x.ids = y.ids, x.mortal \subseteq y.mortal \cup {i},
           In(call) = {} /\ w # Doubtful /\ Begin(i, w) =>
               Half(x, i, w, c) /\ (i \in x.mortal => w = Expiring)
    PROVE  Orderly(x, wanted', call')
<1>1. /\ call'[t] = c /\ In(call') = In(call) \cup {t}
      /\ \A u \in In(call) : call'[u] = call[u] /\ u # t
      /\ \A j \in Id \ {i} : wanted'[j] \in {wanted[j], Doubtful}
      /\ \A u \in In(call) : wanted'[call[u].id] = Doubtful
      /\ wanted'[i] = Doubtful \/ (In(call) = {} /\ wanted'[i] = w /\ Begin(i, w))
      /\ \A j \in Id \ {i} : Rests(call', j) => Rests(call, j)
      /\ ~Rests(call', i)
  BY BeginFacts
<1>2. \A u \in In(call') : wanted'[call'[u].id] # Doubtful =>
          Half(x, call'[u].id, wanted'[call'[u].id], call'[u])
  BY <1>1
<1>3. i \in x.mortal => wanted'[i] \in {Expiring, Doubtful}
  BY <1>1
<1>4. \A j \in Id \ {i} : wanted'[j] # Doubtful /\ Rests(call', j) =>
          x.rows[j] = y.rows[j] /\ (j \in ToSet(x.ids) <=> j \in ToSet(y.ids))
  OBVIOUS
<1> QED BY <1>1, <1>2, <1>3, <1>4, Frame

LEMMA InsertPutOrder ==
    ASSUME TypeOK, Settled, NEW t \in Thread, NEW i \in Id, NEW r \in Record, NEW ttl \in BOOLEAN,
           InsertPut(t, i, r, ttl)
    PROVE  Settled'
<1> DEFINE x == WithRow(i, r, ttl)
           c == [step |-> "list", op |-> "insert", id |-> i]
           w == IF ttl THEN Expiring ELSE r
<1>1. /\ x \in Tables /\ x.rows[i] = r /\ x.ids = store.ids
      /\ \A j \in Id \ {i} : x.rows[j] = store.rows[j]
      /\ x.mortal \subseteq store.mortal \cup {i} /\ (~ttl => i \notin x.mortal)
      /\ store \in Tables /\ disk \in Tables
  BY RowWritten DEF TypeOK
<1>2. /\ c \in Call /\ c.id = i /\ c.step = "list" /\ c.op = "insert"
      /\ w \in Expectation /\ w # NoRec /\ (w \in Record => w = r) /\ (~(w \in Record) => ttl)
      /\ (ttl => w = Expiring)
  BY Lists, TableConstants DEF Expectation
<1>3. call[t] = Idle /\ Then(t, c)
  BY DEF InsertPut
<1>4. (Commit(x) /\ Begin(i, w)) \/ (Fail(x) /\ BeginFailing(i))
  BY DEF InsertPut
<1>5. Half(x, i, w, c) /\ (i \in x.mortal => w = Expiring)
  BY <1>1, <1>2 DEF Half
<1> HIDE DEF x, c, w
<1>6. Orderly(x, wanted', call')
  BY <1>1, <1>2, <1>3, <1>4, <1>5, BeginOrder DEF Settled
<1>7. CallsFit(wanted', call')
  BY <1>2, <1>3, <1>4, BeginFits DEF Settled
<1>8. CASE Commit(x) /\ Begin(i, w)
  <2>1. store' = x /\ disk' = x
    BY <1>8 DEF Commit
  <2> QED BY <1>6, <1>7, <2>1 DEF Settled, ListsAgree
<1>9. CASE Fail(x) /\ BeginFailing(i)
  <2>1. wanted'[i] = Doubtful
    BY <1>9 DEF BeginFailing, Doubt
  <2>2. /\ call'[t] = c /\ In(call') = In(call) \cup {t}
        /\ \A u \in In(call) : call'[u] = call[u] /\ wanted'[call[u].id] = Doubtful
    BY <1>2, <1>3, <1>9, BeginFacts DEF Settled
  <2>3. ListsAgree(store', disk', wanted', call')
    BY <1>2, <2>1, <2>2 DEF ListsAgree
  <2>4. \A u \in In(call') : wanted'[call'[u].id] = Doubtful
    BY <1>2, <2>1, <2>2
  <2>6. \A y \in {store, disk} : Orderly(y, wanted', call')
    <3> SUFFICES ASSUME NEW y \in {store, disk} PROVE Orderly(y, wanted', call')
      OBVIOUS
    <3>1. y \in Tables /\ Orderly(y, wanted, call)
      BY <1>1 DEF Settled
    <3>2. /\ \A j \in Id \ {i} : wanted'[j] \in {wanted[j], Doubtful}
          /\ \A j \in Id \ {i} : Rests(call', j) => Rests(call, j)
      BY <1>2, <1>3, <1>9, BeginFacts DEF Settled
    <3> QED BY <2>1, <2>4, <3>1, <3>2, Frame
  <2>7. store' \in {store, x, disk} /\ disk' = disk
    BY <1>9 DEF Fail
  <2> QED BY <1>6, <1>7, <2>3, <2>6, <2>7 DEF Settled
<1> QED BY <1>4, <1>8, <1>9

LEMMA DeleteRowOrder ==
    ASSUME TypeOK, Settled, NEW t \in Thread, NEW i \in Id, DeleteRow(t, i)
    PROVE  Settled'
<1> DEFINE x == WithoutRow(i)
           c == [step |-> "list", op |-> "delete", id |-> i]
<1>1. /\ x \in Tables /\ x.rows[i] = NoRec /\ x.ids = store.ids
      /\ \A j \in Id \ {i} : x.rows[j] = store.rows[j]
      /\ x.mortal \subseteq store.mortal \ {i}
      /\ store \in Tables /\ disk \in Tables
  BY RowDeleted DEF TypeOK
<1>2. c \in Call /\ c.id = i /\ c.step = "list" /\ c.op = "delete" /\ NoRec \in Expectation
  BY Lists DEF Expectation
<1>3. Half(x, i, NoRec, c)
  BY <1>1, <1>2 DEF Half
<1>4. CASE Commit(x) /\ Begin(i, NoRec) /\ Then(t, c)
  <2>0. call[t] = Idle
    BY DEF DeleteRow
  <2> HIDE DEF x, c
  <2>1. Orderly(x, wanted', call')
    BY <1>1, <1>2, <1>3, <1>4, <2>0, BeginOrder DEF Settled
  <2>2. CallsFit(wanted', call')
    BY <1>2, <1>4, <2>0, BeginFits DEF Settled
  <2>3. store' = x /\ disk' = x
    BY <1>4 DEF Commit
  <2> QED BY <2>1, <2>2, <2>3 DEF Settled, ListsAgree
<1>5. CASE Fail(x) /\ BeginFailing(i) /\ UNCHANGED call
  <2> HIDE DEF x, c
  <2>1. \A j \in Id : wanted'[j] = IF j \in {i} \cup {call[u].id : u \in In(call)}
                                   THEN Doubtful ELSE wanted[j]
    BY <1>5 DEF BeginFailing, Doubt, In, InCall
  <2>2. \A u \in Thread : call[u] # Idle => call[u].id \in Id
    BY CallTyped
  <2>3. /\ wanted'[i] = Doubtful
        /\ \A j \in Id : wanted'[j] \in {wanted[j], Doubtful}
        /\ \A u \in In(call) : wanted'[call[u].id] = Doubtful
    BY <2>1, <2>2 DEF In
  <2>4. call' = call
    BY <1>5
  <2>5. CallsFit(wanted', call)
    <3>1. \A u \in In(call) : call[u].step = "write" =>
              \A j \in Id \ {call[u].id} : wanted'[j] # Doubtful =>
                  (j \in ToSet(call[u].ids) <=> wanted'[j] # NoRec)
      BY <2>3 DEF Settled, CallsFit
    <3>2. \A u \in Thread : call[u] # Idle /\ call[u].step = "purge" =>
              wanted'[call[u].id] \in {Expiring, Doubtful}
      BY <2>2, <2>3 DEF Settled, CallsFit
    <3> QED BY <2>3, <3>1, <3>2 DEF CallsFit
  <2>6. ListsAgree(store', disk', wanted', call)
    BY <2>3 DEF ListsAgree
  <2>7. \A y \in {store, disk} : Orderly(y, wanted', call)
    <3> SUFFICES ASSUME NEW y \in {store, disk} PROVE Orderly(y, wanted', call)
      OBVIOUS
    <3>1. y \in Tables /\ Orderly(y, wanted, call)
      BY <1>1 DEF Settled
    <3> QED BY <2>3, <3>1, Frame
  <2>8. Orderly(x, wanted', call)
    <3>1. PICK z \in Tables : z = x
      BY <1>1
    <3>2. /\ \A j \in Id \ {i} : z.rows[j] = store.rows[j] /\ (j \in ToSet(z.ids) <=> j \in ToSet(store.ids))
          /\ z.mortal \subseteq store.mortal \cup {i}
          /\ i \notin z.mortal /\ Orderly(store, wanted, call)
      BY <1>1, <3>1 DEF Settled
    <3>3. Orderly(z, wanted', call)
      BY <1>1, <2>3, <3>2, Frame
    <3> QED BY <3>1, <3>3
  <2>9. store' \in {store, x, disk} /\ disk' = disk
    BY <1>5 DEF Fail
  <2> QED BY <2>4, <2>5, <2>6, <2>7, <2>8, <2>9 DEF Settled
<1> QED BY <1>4, <1>5 DEF DeleteRow

LEMMA UpdateFindOrder ==
    ASSUME TypeOK, Settled, NEW t \in Thread, NEW i \in Id, NEW f \in Field, NEW v \in Value,
           UpdateFind(t, i, f, v)
    PROVE  Settled'
<1>1. store.rows[i] \in Record /\ wanted[i] \in Expectation /\ store \in Tables /\ disk \in Tables
  BY DEF UpdateFind, TypeOK, Tables
<1>2. PICK r \in Record : r = [store.rows[i] EXCEPT ![f] = v]
  BY <1>1 DEF Record
<1>3. PICK w \in Expectation : w = Updated(wanted[i], f, v)
  BY <1>1, UpdatedTyped
<1>4. PICK c \in Call : c = [step |-> "save", id |-> i, rec |-> r]
  BY Saves
<1>5. c.id = i /\ c.step = "save" /\ c.rec = r
  BY <1>4
<1>6. call[t] = Idle /\ Then(t, c) /\ Begin(i, w) /\ UNCHANGED <<store, disk>>
  BY <1>2, <1>3, <1>4 DEF UpdateFind
<1>7. w # Doubtful => wanted[i] # Doubtful
  BY <1>3, TableConstants DEF Updated
<1>8. ASSUME In(call) = {}, w # Doubtful
      PROVE  /\ w # NoRec /\ (w \in Record => r = w)
             /\ i \in ToSet(store.ids) /\ i \in ToSet(disk.ids)
             /\ wanted[i] = Expiring \/ (i \notin store.mortal /\ i \notin disk.mortal)
             /\ wanted[i] = Expiring => w = Expiring
  <2>1. KeptAs(store, i, wanted[i]) /\ KeptAs(disk, i, wanted[i])
    BY <1>7, <1>8 DEF Settled, Orderly, Rests
  <2>2. wanted[i] # NoRec
    BY <1>1, <2>1, TableConstants DEF KeptAs
  <2>3. wanted[i] \in Record \cup {Expiring}
    BY <1>1, <1>7, <1>8, <2>2 DEF Expectation
  <2>4. i \in ToSet(store.ids) /\ i \in ToSet(disk.ids)
    BY <2>1, <2>3 DEF KeptAs
  <2>5. CASE wanted[i] \in Record
    <3>1. store.rows[i] = wanted[i]
      BY <2>1, <2>5 DEF KeptAs
    <3>2. w = r
      BY <1>2, <1>3, <2>5, <3>1 DEF Updated
    <3>3. i \notin store.mortal /\ i \notin disk.mortal
      BY <2>5, TableConstants DEF Settled, Orderly
    <3> QED BY <2>4, <2>5, <3>2, <3>3, TableConstants
  <2>6. CASE wanted[i] = Expiring
    <3>1. w = Expiring
      BY <1>3, <2>6, TableConstants DEF Updated
    <3> QED BY <2>4, <2>6, <3>1, TableConstants
  <2> QED BY <2>3, <2>5, <2>6
<1>9. CallsFit(wanted', call')
  <2>1. In(call) = {} /\ w # Doubtful /\ Begin(i, w) => w # NoRec /\ (w \in Record => c.rec = w)
    BY <1>5, <1>8
  <2> QED BY <1>5, <1>6, <2>1, BeginFits DEF Settled
<1>10. \A y \in {store, disk} : Orderly(y, wanted', call')
  <2> SUFFICES ASSUME NEW y \in {store, disk} PROVE Orderly(y, wanted', call')
    OBVIOUS
  <2>1. y \in Tables /\ Orderly(y, wanted, call)
    BY <1>1 DEF Settled
  <2>2. In(call) = {} /\ w # Doubtful /\ Begin(i, w) =>
            Half(y, i, w, c) /\ (i \in y.mortal => w = Expiring)
    BY <1>5, <1>8 DEF Half
  <2> QED BY <1>5, <1>6, <2>1, <2>2, BeginOrder DEF Settled
<1>11. ListsAgree(store', disk', wanted', call')
  <2>1. /\ call'[t] = c /\ In(call') = In(call) \cup {t}
        /\ \A u \in In(call) : call'[u] = call[u] /\ wanted'[call[u].id] = Doubtful
    BY <1>5, <1>6, BeginFacts DEF Settled
  <2> QED BY <1>5, <2>1 DEF ListsAgree
<1> QED BY <1>6, <1>9, <1>10, <1>11 DEF Settled

\* A call reads the list: the copy names what is expected in it.
LEMMA ListReadOrder ==
    ASSUME TypeOK, Settled, NEW t \in Thread, At(t, "list"), NEW o, o = call[t].op,
           Then(t, [step |-> "write", op |-> o, id |-> call[t].id, ids |-> store.ids]),
           UNCHANGED <<store, disk, wanted>>
    PROVE  Settled'
<1>1. call[t] \in Call /\ call[t].id \in Id /\ call[t].step = "list" /\ t \in In(call)
      /\ store \in Tables /\ disk \in Tables
  BY CallTyped DEF At, TypeOK, In
<1>2. PICK i \in Id : i = call[t].id
  BY <1>1
<1>3. PICK c : c = [step |-> "write", op |-> o, id |-> i, ids |-> store.ids]
  OBVIOUS
<1>4. c.step = "write" /\ c.id = i /\ c.ids = store.ids /\ c.op = call[t].op /\ Then(t, c)
  BY <1>2, <1>3
<1>5. c # Idle
  <2>1. o \in {"insert", "delete"} /\ store.ids \in Seq(Id)
    BY <1>1, CallTyped DEF At, Tables
  <2> QED BY <1>3, <2>1, Writes, CallParts
<1>6. call'[t] = c /\ \A u \in Thread \ {t} : call'[u] = call[u]
  BY <1>4 DEF Then, TypeOK
<1>7. In(call') = In(call) /\ \A u \in In(call) : call'[u].id = call[u].id
  BY <1>1, <1>2, <1>4, <1>5, <1>6 DEF In
<1>8. \A j \in Id : Rests(call', j) <=> Rests(call, j)
  BY <1>7 DEF Rests
<1>9. \A y \in {store, disk} : Orderly(y, wanted', call')
  <2> SUFFICES ASSUME NEW y \in {store, disk} PROVE Orderly(y, wanted', call')
    OBVIOUS
  <2>1. Orderly(y, wanted, call)
    BY DEF Settled
  <2>2. \A u \in In(call') : wanted'[call'[u].id] # Doubtful =>
            Half(y, call'[u].id, wanted'[call'[u].id], call'[u])
    <3> SUFFICES ASSUME NEW u \in In(call'), wanted'[call'[u].id] # Doubtful
                 PROVE  Half(y, call'[u].id, wanted'[call'[u].id], call'[u])
      OBVIOUS
    <3>1. Half(y, call[u].id, wanted[call[u].id], call[u])
      BY <1>7, <2>1 DEF Orderly
    <3>2. CASE u = t
      BY <1>1, <1>2, <1>4, <1>6, <3>1, <3>2 DEF Half
    <3>3. CASE u # t
      BY <1>6, <1>7, <3>1, <3>3 DEF In
    <3> QED BY <3>2, <3>3
  <2>3. \A j \in Id : wanted'[j] # Doubtful /\ Rests(call', j) => KeptAs(y, j, wanted'[j])
    BY <1>8, <2>1 DEF Orderly
  <2>4. \A j \in y.mortal : wanted'[j] \in {Expiring, Doubtful}
    BY <2>1 DEF Orderly
  <2> QED BY <2>2, <2>3, <2>4 DEF Orderly
<1>10. CallsFit(wanted', call')
  <2>0. CallsFit(wanted, call) /\ wanted' = wanted
    BY DEF Settled
  <2>1. \A u \in In(call'), v \in In(call') : wanted'[call'[u].id] # Doubtful => v = u
    BY <1>7, <2>0 DEF CallsFit
  <2>2. ASSUME NEW u \in In(call'), wanted'[call'[u].id] # Doubtful
        PROVE  /\ call'[u].step \in {"list", "write"} =>
                      (wanted'[call'[u].id] = NoRec <=> call'[u].op = "delete")
               /\ call'[u].step = "save" =>
                      /\ wanted'[call'[u].id] # NoRec
                      /\ wanted'[call'[u].id] \in Record => call'[u].rec = wanted'[call'[u].id]
    <3>1. CASE u = t
      BY <1>1, <1>2, <1>4, <1>6, <1>7, <2>0, <2>2, <3>1 DEF CallsFit
    <3>2. CASE u # t
      <4>1. call'[u] = call[u] /\ u \in In(call)
        BY <1>6, <1>7, <3>2 DEF In
      <4> QED BY <2>0, <2>2, <4>1 DEF CallsFit
    <3> QED BY <3>1, <3>2
  <2>3. ASSUME NEW u \in In(call'), call'[u].step = "write", NEW j \in Id \ {call'[u].id},
               wanted'[j] # Doubtful
        PROVE  j \in ToSet(call'[u].ids) <=> wanted'[j] # NoRec
    <3>1. CASE u = t
      <4>1. Rests(call, j)
        <5> SUFFICES ASSUME NEW b \in In(call), call[b].id = j PROVE FALSE
          BY DEF Rests
        <5>1. b = t
          BY <1>1, <2>0, <2>3 DEF CallsFit
        <5> QED BY <1>7, <2>3, <3>1, <5>1
      <4>2. KeptAs(store, j, wanted[j])
        BY <2>0, <2>3, <4>1 DEF Settled, Orderly
      <4>3. wanted[j] \in Record \cup {NoRec, Expiring}
        BY <2>0, <2>3 DEF TypeOK, Expectation
      <4>4. j \in ToSet(store.ids) <=> wanted[j] # NoRec
        BY <4>2, <4>3, TableConstants DEF KeptAs
      <4> QED BY <1>4, <1>6, <2>0, <3>1, <4>4
    <3>2. CASE u # t
      <4>1. call'[u] = call[u] /\ u \in In(call)
        BY <1>6, <1>7, <3>2 DEF In
      <4> QED BY <2>0, <2>3, <4>1 DEF CallsFit
    <3> QED BY <3>1, <3>2
  <2>4. \A u \in Thread : call'[u] # Idle /\ call'[u].step = "purge" =>
            wanted'[call'[u].id] \in {Expiring, Doubtful}
    BY <1>4, <1>6, <2>0 DEF CallsFit
  <2> QED BY <2>1, <2>2, <2>3, <2>4 DEF CallsFit
<1>11. ListsAgree(store', disk', wanted', call')
  <2> SUFFICES ASSUME NEW u \in In(call'), wanted'[call'[u].id] # Doubtful,
                      call'[u].step \in {"list", "write"}
               PROVE  call'[u].id \in ToSet(store.ids) <=> call'[u].id \in ToSet(disk.ids)
    BY DEF ListsAgree
  <2>1. call[u].step \in {"list", "write"}
    BY <1>1, <1>6, <1>7 DEF In
  <2> QED BY <1>7, <2>1 DEF Settled, ListsAgree
<1> QED BY <1>9, <1>10, <1>11 DEF Settled

\* When a call has ended, a table is orderly if the call left the other records
\* as some orderly table has them, and its own as expected.
LEMMA EndOrder ==
    ASSUME TypeOK, CallsFit(wanted, call), NEW t \in In(call), NEW i \in Id, i = call[t].id,
           Finish(t) \/ Abandon(t),
           NEW x \in Tables, NEW y \in Tables, Orderly(y, wanted, call),
           \A j \in Id \ {i} : wanted[j] # Doubtful /\ Rests(call, j) =>
               x.rows[j] = y.rows[j] /\ (j \in ToSet(x.ids) <=> j \in ToSet(y.ids)),
           x.mortal \subseteq y.mortal,
           wanted'[i] # Doubtful => KeptAs(x, i, wanted'[i])
    PROVE  Orderly(x, wanted', call')
<1>1. /\ \A j \in Id : wanted'[j] \in {wanted[j], Doubtful}
      /\ \A j \in Id \ {i} : Rests(call', j) => Rests(call, j)
      /\ \A u \in In(call') : wanted'[call'[u].id] = Doubtful
  BY EndFacts
<1>2. i \in x.mortal => wanted'[i] \in {Expiring, Doubtful}
  BY <1>1 DEF Orderly
<1>3. \A j \in Id \ {i} : wanted'[j] # Doubtful /\ Rests(call', j) =>
          x.rows[j] = y.rows[j] /\ (j \in ToSet(x.ids) <=> j \in ToSet(y.ids))
  BY <1>1
<1>4. x.mortal \subseteq y.mortal \cup {i}
  OBVIOUS
<1>5. PICK v, d, w, c : v = wanted' /\ d = call' /\ w = wanted /\ c = call
  OBVIOUS
<1>6. Orderly(y, w, c)
  BY <1>5
<1>7. \A j \in Id \ {i} : v[j] \in {w[j], Doubtful}
  BY <1>1, <1>5
<1>8. \A j \in Id \ {i} : Rests(d, j) => Rests(c, j)
  BY <1>1, <1>5
<1>9. \A j \in Id \ {i} : v[j] # Doubtful /\ Rests(d, j) =>
          x.rows[j] = y.rows[j] /\ (j \in ToSet(x.ids) <=> j \in ToSet(y.ids))
  BY <1>3, <1>5
<1>10. v[i] # Doubtful /\ Rests(d, i) => KeptAs(x, i, v[i])
  BY <1>5
<1>11. i \in x.mortal => v[i] \in {Expiring, Doubtful}
  BY <1>2, <1>5
<1>12. \A u \in In(d) : v[d[u].id] # Doubtful => Half(x, d[u].id, v[d[u].id], d[u])
  BY <1>1, <1>5
<1>13. x \in Tables /\ y \in Tables /\ i \in Id
  OBVIOUS
<1>14. Orderly(x, v, d)
  BY ONLY <1>4, <1>13, <1>6, <1>7, <1>8, <1>9, <1>10, <1>11, <1>12, Frame
<1> QED BY <1>5, <1>14

\* A call ends without a statement,
LEMMA QuietEnd ==
    ASSUME TypeOK, Settled, NEW t \in In(call), NEW i \in Id, i = call[t].id,
           Finish(t) \/ Abandon(t), UNCHANGED <<store, disk>>,
           wanted'[i] # Doubtful => KeptAs(store, i, wanted'[i]) /\ KeptAs(disk, i, wanted'[i])
    PROVE  Settled'
<1>1. \A y \in {store, disk} : Orderly(y, wanted', call')
  <2> SUFFICES ASSUME NEW y \in {store, disk} PROVE Orderly(y, wanted', call')
    OBVIOUS
  <2>1. y \in Tables /\ Orderly(y, wanted, call) /\ (wanted'[i] # Doubtful => KeptAs(y, i, wanted'[i]))
    BY DEF Settled, TypeOK
  <2> QED BY <2>1, EndOrder DEF Settled
<1>2. CallsFit(wanted', call') /\ \A u \in In(call') : wanted'[call'[u].id] = Doubtful
  BY EndFacts DEF Settled
<1> QED BY <1>1, <1>2 DEF Settled, ListsAgree

\* or with one that leaves table x or fails to.
LEMMA WriteEnd ==
    ASSUME TypeOK, Settled, NEW t \in In(call), NEW i \in Id, i = call[t].id,
           NEW x \in Tables,
           (Commit(x) /\ Finish(t)) \/ (Fail(x) /\ Abandon(t)),
           \A j \in Id \ {i} : wanted[j] # Doubtful /\ Rests(call, j) =>
               x.rows[j] = store.rows[j] /\ (j \in ToSet(x.ids) <=> j \in ToSet(store.ids)),
           x.mortal \subseteq store.mortal,
           wanted[i] # Doubtful => KeptAs(x, i, wanted[i])
    PROVE  Settled'
<1>1. wanted'[i] \in {wanted[i], Doubtful} /\ (Abandon(t) => wanted'[i] = Doubtful)
  BY EndFacts DEF Settled
<1>2. Orderly(x, wanted', call')
  <2>1. store \in Tables /\ Orderly(store, wanted, call)
    BY DEF Settled, TypeOK
  <2> QED BY <1>1, <2>1, EndOrder DEF Settled
<1>3. CallsFit(wanted', call') /\ \A u \in In(call') : wanted'[call'[u].id] = Doubtful
  BY EndFacts DEF Settled
<1>4. CASE Commit(x)
  <2>1. store' = x /\ disk' = x
    BY <1>4 DEF Commit
  <2> QED BY <1>2, <1>3, <2>1 DEF Settled, ListsAgree
<1>5. CASE Fail(x) /\ Abandon(t)
  <2>1. store' \in {store, x, disk} /\ disk' = disk
    BY <1>5 DEF Fail
  <2>2. \A y \in {store, disk} : Orderly(y, wanted', call')
    <3> SUFFICES ASSUME NEW y \in {store, disk} PROVE Orderly(y, wanted', call')
      OBVIOUS
    <3>1. y \in Tables /\ Orderly(y, wanted, call)
      BY DEF Settled, TypeOK
    <3> QED BY <1>1, <1>5, <3>1, EndOrder DEF Settled
  <2> QED BY <1>2, <1>3, <2>1, <2>2 DEF Settled, ListsAgree
<1> QED BY <1>4, <1>5

\* What is known of a call whose record is not in doubt.
LEMMA CallKnown ==
    ASSUME TypeOK, Settled, NEW t \in In(call), NEW i \in Id, i = call[t].id, wanted[i] # Doubtful
    PROVE  /\ wanted[i] \in Record \cup {NoRec, Expiring}
           /\ Half(store, i, wanted[i], call[t]) /\ Half(disk, i, wanted[i], call[t])
           /\ call[t].step \in {"list", "write"} =>
                  /\ wanted[i] = NoRec <=> call[t].op = "delete"
                  /\ i \in ToSet(store.ids) <=> i \in ToSet(disk.ids)
           /\ call[t].step = "save" =>
                  wanted[i] # NoRec /\ (wanted[i] \in Record => call[t].rec = wanted[i])
<1>1. wanted[i] \in Record \cup {NoRec, Expiring}
  BY DEF TypeOK, Expectation
<1> QED BY <1>1 DEF Settled, Orderly, CallsFit, ListsAgree

LEMMA InsertListOrder ==
    ASSUME TypeOK, Settled, NEW t \in Thread, InsertList(t)
    PROVE  Settled'
<1>1. At(t, "list") /\ call[t].op = "insert" /\ UNCHANGED <<store, disk>>
  BY DEF InsertList
<1>2. CASE call[t].id \in ToSet(store.ids)
  <2>1. PICK i \in Id : i = call[t].id
    BY <1>1, CallTyped DEF At
  <2>2. t \in In(call) /\ call[t].step = "list" /\ Finish(t)
    BY <1>1, <1>2 DEF At, In, InsertList
  <2>3. wanted' = wanted
    BY <2>2 DEF Finish
  <2>4. ASSUME wanted[i] # Doubtful PROVE KeptAs(store, i, wanted[i]) /\ KeptAs(disk, i, wanted[i])
    <3>1. /\ wanted[i] \in Record \cup {NoRec, Expiring} /\ wanted[i] # NoRec
          /\ Half(store, i, wanted[i], call[t]) /\ Half(disk, i, wanted[i], call[t])
          /\ i \in ToSet(store.ids) /\ i \in ToSet(disk.ids)
      BY <1>1, <1>2, <2>1, <2>2, <2>4, CallKnown
    <3> QED BY <2>2, <3>1 DEF Half, KeptAs
  <2> QED BY <1>1, <2>1, <2>2, <2>3, <2>4, QuietEnd
<1>3. CASE call[t].id \notin ToSet(store.ids)
  <2>1. Then(t, [step |-> "write", op |-> "insert", id |-> call[t].id, ids |-> store.ids])
        /\ UNCHANGED wanted
    BY <1>3 DEF InsertList
  <2> QED BY <1>1, <2>1, ListReadOrder
<1> QED BY <1>2, <1>3

\* The copy names what is expected in the list, the call's own record aside.
LEMMA CopyKnown ==
    ASSUME TypeOK, Settled, NEW t \in In(call), call[t].step = "write",
           NEW j \in Id \ {call[t].id}, wanted[j] # Doubtful, Rests(call, j)
    PROVE  j \in ToSet(call[t].ids) <=> j \in ToSet(store.ids)
<1>1. j \in ToSet(call[t].ids) <=> wanted[j] # NoRec
  BY DEF Settled, CallsFit
<1>2. KeptAs(store, j, wanted[j]) /\ wanted[j] \in Record \cup {NoRec, Expiring}
  BY DEF Settled, Orderly, TypeOK, Expectation
<1> QED BY <1>1, <1>2, TableConstants DEF KeptAs

LEMMA InsertWriteOrder ==
    ASSUME TypeOK, Settled, NEW t \in Thread, InsertWrite(t)
    PROVE  Settled'
<1>1. call[t].step = "write" /\ call[t].op = "insert" /\ t \in In(call) /\ call[t] # Idle
      /\ store \in Tables
  BY DEF InsertWrite, At, In, TypeOK
<1>2. PICK i \in Id : i = call[t].id
  BY <1>1, CallTyped
<1>3. call[t].ids \in Seq(Id)
  BY <1>1, CallTyped
<1>4. PICK ids \in Seq(Id) : ids = Append(call[t].ids, i) /\ ToSet(ids) = ToSet(call[t].ids) \cup {i}
  <2>1. Append(call[t].ids, i) \in Seq(Id) /\ ToSet(Append(call[t].ids, i)) = ToSet(call[t].ids) \cup {i}
    BY <1>3, AppendPlaces, AppendNames
  <2> QED BY <2>1
<1>5. PICK x \in Tables : /\ x = WithList(ids) /\ x.rows = store.rows /\ x.ids = ids
                          /\ x.mortal = store.mortal
  BY <1>1, ListWritten
<1>6. (Commit(x) /\ Finish(t)) \/ (Fail(x) /\ Abandon(t))
  BY <1>2, <1>4, <1>5 DEF InsertWrite
<1>7. \A j \in Id \ {i} : wanted[j] # Doubtful /\ Rests(call, j) =>
          x.rows[j] = store.rows[j] /\ (j \in ToSet(x.ids) <=> j \in ToSet(store.ids))
  BY <1>1, <1>2, <1>4, <1>5, CopyKnown
<1>8. ASSUME wanted[i] # Doubtful PROVE KeptAs(x, i, wanted[i])
  <2>1. wanted[i] \in Record \cup {NoRec, Expiring} /\ wanted[i] # NoRec
        /\ Half(store, i, wanted[i], call[t])
    BY <1>1, <1>2, <1>8, CallKnown
  <2> QED BY <1>1, <1>4, <1>5, <2>1 DEF Half, KeptAs
<1> QED BY <1>1, <1>2, <1>5, <1>6, <1>7, <1>8, WriteEnd

LEMMA DeleteWriteOrder ==
    ASSUME TypeOK, Settled, NEW t \in Thread, DeleteWrite(t)
    PROVE  Settled'
<1>1. call[t].step = "write" /\ call[t].op = "delete" /\ t \in In(call) /\ call[t] # Idle
      /\ store \in Tables
  BY DEF DeleteWrite, At, In, TypeOK
<1>2. PICK i \in Id : i = call[t].id
  BY <1>1, CallTyped
<1>3. call[t].ids \in Seq(Id)
  BY <1>1, CallTyped
<1>4. PICK ids \in Seq(Id) : ids = Filtered(call[t].ids, i) /\ ToSet(ids) = ToSet(call[t].ids) \ {i}
  BY <1>3, FilteredFacts, Zenon
<1>5. PICK x \in Tables : /\ x = WithList(ids) /\ x.rows = store.rows /\ x.ids = ids
                          /\ x.mortal = store.mortal
  BY <1>1, ListWritten
<1>6. (Commit(x) /\ Finish(t)) \/ (Fail(x) /\ Abandon(t))
  BY <1>2, <1>4, <1>5 DEF DeleteWrite
<1>7. \A j \in Id \ {i} : wanted[j] # Doubtful /\ Rests(call, j) =>
          x.rows[j] = store.rows[j] /\ (j \in ToSet(x.ids) <=> j \in ToSet(store.ids))
  BY <1>1, <1>2, <1>4, <1>5, CopyKnown
<1>8. ASSUME wanted[i] # Doubtful PROVE KeptAs(x, i, wanted[i])
  <2>1. wanted[i] = NoRec /\ Half(store, i, wanted[i], call[t])
    BY <1>1, <1>2, <1>8, CallKnown
  <2> QED BY <1>1, <1>4, <1>5, <2>1, TableConstants DEF Half, KeptAs
<1> QED BY <1>1, <1>2, <1>5, <1>6, <1>7, <1>8, WriteEnd

LEMMA ListFailsOrder ==
    ASSUME TypeOK, Settled, NEW t \in Thread, ListFails(t)
    PROVE  Settled'
<1>1. t \in In(call) /\ call[t] # Idle /\ Abandon(t) /\ UNCHANGED <<store, disk>>
  BY DEF ListFails, At, In
<1>2. PICK i \in Id : i = call[t].id
  BY <1>1, CallTyped
<1>3. wanted'[i] = Doubtful
  BY <1>1, <1>2, EndFacts DEF Settled
<1> QED BY <1>1, <1>2, <1>3, QuietEnd

LEMMA UpdateSaveOrder ==
    ASSUME TypeOK, Settled, NEW t \in Thread, UpdateSave(t)
    PROVE  Settled'
<1>1. call[t].step = "save" /\ t \in In(call) /\ call[t] # Idle /\ store \in Tables
  BY DEF UpdateSave, At, In, TypeOK
<1>2. PICK i \in Id, r \in Record : i = call[t].id /\ r = call[t].rec
  BY <1>1, CallTyped
<1>0. PICK ttl \in BOOLEAN : ttl = FALSE
  OBVIOUS
<1>3. PICK x : x = WithRow(i, r, ttl)
  OBVIOUS
<1>4. /\ x \in Tables /\ x.rows[i] = r /\ x.ids = store.ids
      /\ \A j \in Id \ {i} : x.rows[j] = store.rows[j]
      /\ x.mortal \subseteq store.mortal
  BY <1>0, <1>1, <1>3, RowWritten
<1>5. (Commit(x) /\ Finish(t)) \/ (Fail(x) /\ Abandon(t))
  BY <1>0, <1>2, <1>3 DEF UpdateSave
<1>6. ASSUME wanted[i] # Doubtful PROVE KeptAs(x, i, wanted[i])
  <2>1. /\ Half(store, i, wanted[i], call[t]) /\ wanted[i] # NoRec
        /\ wanted[i] \in Record => r = wanted[i]
    BY <1>1, <1>2, <1>6, CallKnown
  <2> QED BY <1>1, <1>4, <2>1 DEF Half, KeptAs
<1> QED BY <1>1, <1>2, <1>4, <1>5, <1>6, WriteEnd

\* Readers: one that saw a row past its expiry, and its delete.
LEMMA FindExpiredOrder ==
    ASSUME TypeOK, Settled, NEW t \in Thread, NEW i \in Id, FindExpired(t, i)
    PROVE  Settled'
<1>1. PICK c : c = [step |-> "purge", id |-> i]
  OBVIOUS
<1>2. c.step = "purge" /\ c.id = i /\ c # Idle
  BY <1>1, Purges, CallParts
<1>3. call'[t] = c /\ (\A u \in Thread \ {t} : call'[u] = call[u]) /\ call[t] = Idle
      /\ UNCHANGED <<store, disk, wanted>>
  BY <1>1 DEF FindExpired, Then, TypeOK
<1>4. In(call') = In(call) /\ \A u \in In(call) : call'[u] = call[u]
  BY <1>2, <1>3 DEF In
<1>5. wanted[i] \in {Expiring, Doubtful}
  BY DEF FindExpired, Settled, Orderly
<1>6. \A u \in Thread : call'[u] # Idle /\ call'[u].step = "purge" =>
          wanted[call'[u].id] \in {Expiring, Doubtful}
  BY <1>2, <1>3, <1>5 DEF Settled, CallsFit
<1>7. CallsFit(wanted', call')
  BY <1>3, <1>4, <1>6 DEF Settled, CallsFit
<1>8. Orderly(store', wanted', call') /\ Orderly(disk', wanted', call')
  BY <1>3, <1>4 DEF Settled, Orderly, Rests
<1> QED BY <1>3, <1>4, <1>7, <1>8 DEF Settled, ListsAgree

LEMMA PurgeOrder ==
    ASSUME TypeOK, Settled, NEW t \in Thread, Purge(t)
    PROVE  Settled'
<1>1. call[t].step = "purge" /\ call[t] # Idle /\ store \in Tables /\ disk \in Tables
  BY DEF Purge, At, TypeOK
<1>2. PICK i \in Id : i = call[t].id
  BY <1>1, CallTyped
<1>3. wanted[i] \in {Expiring, Doubtful}
  BY <1>1, <1>2 DEF Settled, CallsFit
<1>4. PICK x \in Tables : /\ x = WithoutRow(i) /\ x.ids = store.ids /\ x.mortal \subseteq store.mortal
                          /\ \A j \in Id \ {i} : x.rows[j] = store.rows[j]
  BY <1>1, RowDeleted
<1>5. Commit(x) \/ Fail(x)
  BY <1>2, <1>4 DEF Purge
<1>6. call'[t] = Idle /\ (\A u \in Thread \ {t} : call'[u] = call[u]) /\ wanted' = wanted
  BY DEF Purge, Finish, Then, TypeOK
<1>7. In(call') = In(call) /\ \A u \in In(call) : call'[u] = call[u] /\ u # t
  BY <1>1, <1>6 DEF In
<1>8. \A u \in In(call) : call[u].id \in Id
  BY CallTyped DEF In
<1>9. Orderly(x, wanted, call)
  <2>1. Orderly(store, wanted, call)
    BY DEF Settled
  <2>2. \A j \in Id : wanted[j] # Doubtful /\ Rests(call, j) => KeptAs(x, j, wanted[j])
    <3> SUFFICES ASSUME NEW j \in Id, wanted[j] # Doubtful, Rests(call, j)
                 PROVE  KeptAs(x, j, wanted[j])
      OBVIOUS
    <3>1. KeptAs(store, j, wanted[j])
      BY <2>1 DEF Orderly
    <3>2. j = i => wanted[j] = Expiring
      BY <1>3
    <3> QED BY <1>4, <3>1, <3>2, TableConstants DEF KeptAs
  <2>3. \A j \in x.mortal : wanted[j] \in {Expiring, Doubtful}
    BY <1>4, <2>1 DEF Orderly
  <2>4. \A u \in In(call) : wanted[call[u].id] # Doubtful =>
            Half(x, call[u].id, wanted[call[u].id], call[u])
    <3> SUFFICES ASSUME NEW u \in In(call), NEW j \in Id, j = call[u].id, wanted[j] # Doubtful
                 PROVE  Half(x, j, wanted[j], call[u])
      BY <1>8
    <3>1. Half(store, j, wanted[j], call[u])
      BY <2>1 DEF Orderly
    <3>2. j = i => wanted[j] = Expiring
      BY <1>3
    <3> QED BY <1>4, <3>1, <3>2, TableConstants DEF Half
  <2> QED BY <2>2, <2>3, <2>4 DEF Orderly
<1>10. \A y \in {store, disk, x} : Orderly(y, wanted', call')
  <2> SUFFICES ASSUME NEW y \in {store, disk, x} PROVE Orderly(y, wanted', call')
    OBVIOUS
  <2>1. Orderly(y, wanted, call)
    BY <1>9 DEF Settled
  <2> QED BY <1>6, <1>7, <2>1 DEF Orderly, Rests
<1>11. store' \in {store, disk, x} /\ disk' \in {disk, x}
  BY <1>5 DEF Commit, Fail
<1>12. CallsFit(wanted', call')
  BY <1>6, <1>7 DEF Settled, CallsFit
<1>13. ListsAgree(store', disk', wanted', call')
  <2> SUFFICES ASSUME NEW u \in In(call), wanted[call[u].id] # Doubtful,
                      call[u].step \in {"list", "write"}
               PROVE  call[u].id \in ToSet(store'.ids) <=> call[u].id \in ToSet(disk'.ids)
    BY <1>6, <1>7 DEF ListsAgree
  <2>1. call[u].id \in ToSet(store.ids) <=> call[u].id \in ToSet(disk.ids)
    BY DEF Settled, ListsAgree
  <2> QED BY <1>4, <1>11, <2>1
<1> QED BY <1>10, <1>11, <1>12, <1>13 DEF Settled

LEMMA CrashOrder == TypeOK /\ Settled /\ Crash => Settled'
<1> SUFFICES ASSUME TypeOK, Settled, Crash PROVE Settled'
  OBVIOUS
<1>1. (\A t \in Thread : call'[t] = Idle) /\ In(call') = {}
  BY DEF Crash, In
<1>2. store' = disk /\ disk' = disk
  BY DEF Crash
<1>3. \A j \in Id : wanted'[j] \in {wanted[j], Doubtful}
                    /\ (wanted'[j] # Doubtful => Rests(call, j))
  BY DEF Crash, Doubt, In, InCall, Rests
<1>4. Orderly(disk, wanted', call')
  <2>1. disk \in Tables /\ Orderly(disk, wanted, call)
    BY DEF Settled, TypeOK
  <2>2. \A j \in Id : wanted'[j] # Doubtful => KeptAs(disk, j, wanted'[j])
    BY <1>3, <2>1 DEF Orderly
  <2>3. \A j \in disk.mortal : wanted'[j] \in {Expiring, Doubtful}
    <3>1. \A j \in disk.mortal : j \in Id
      BY <2>1 DEF Tables
    <3> QED BY <1>3, <2>1, <3>1 DEF Orderly
  <2> QED BY <1>1, <2>2, <2>3 DEF Orderly
<1> QED BY <1>1, <1>2, <1>4 DEF Settled, CallsFit, ListsAgree

LEMMA SettledInit == Init => Settled
<1> SUFFICES ASSUME Init PROVE Settled
  OBVIOUS
<1>1. In(call) = {} /\ \A t \in Thread : call[t] = Idle
  BY DEF Init, In
<1>2. \A i \in Id : KeptAs(NoTable, i, NoRec)
  BY TableConstants DEF NoTable, KeptAs, ToSet
<1>3. Orderly(NoTable, wanted, call)
  BY <1>1, <1>2 DEF Init, NoTable, Orderly
<1> QED BY <1>1, <1>3 DEF Init, Settled, CallsFit, ListsAgree

LEMMA SettledStep == TypeOK /\ Settled /\ [Next]_vars => Settled'
<1> SUFFICES ASSUME TypeOK, Settled, [Next]_vars PROVE Settled'
  OBVIOUS
<1>1. ASSUME NEW t \in Thread, DeleteList(t) PROVE Settled'
  BY <1>1, ListReadOrder DEF DeleteList
<1>2. CASE UNCHANGED vars
  BY <1>2 DEF vars, Settled
<1> QED BY <1>1, <1>2, InsertPutOrder, DeleteRowOrder, UpdateFindOrder, InsertListOrder,
           InsertWriteOrder, DeleteWriteOrder, ListFailsOrder, UpdateSaveOrder,
           FindExpiredOrder, PurgeOrder, CrashOrder DEF Next

\* However other calls on other records fail, overlap or are cut by a crash, a
\* record whose own calls did not is what they made it, and so is its place in
\* the list.
THEOREM RecordsAreKept == Spec => []SettledRecordsAreKept
<1>1. TypeOK /\ Settled => SettledRecordsAreKept
  <2> SUFFICES ASSUME TypeOK, Settled, NEW i \in Id, \A t \in InCall : call[t].id # i
               PROVE  KeptAs(store, i, wanted[i]) \/ wanted[i] = Doubtful
    BY TableConstants DEF SettledRecordsAreKept, KeptAs
  <2>1. Rests(call, i)
    BY DEF Rests, In, InCall
  <2> QED BY <2>1 DEF Settled, Orderly
<1> QED BY <1>1, TypeInit, TypeStep, SettledInit, SettledStep, PTL DEF Spec

=============================================================================
