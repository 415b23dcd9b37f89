------------------------------- MODULE SQLWhere -------------------------------
(***************************************************************************)
(* WHERE clauses of pneuma_sql/sql_engine.py: how SQLParser reads one and  *)
(* RowEvaluator matches a row against it, beside what SQL says it means.   *)
(*                                                                         *)
(* A value has a kind and a number that orders it among its kind: integers *)
(* by themselves, FALSE 0 and TRUE 1, texts by their place in the alphabet *)
(* (texts begin with a small letter).  The pattern of a LIKE is the set of *)
(* the values whose text it matches.  < and > with a swallowed comparison  *)
(* or NULL in their value are not enumerated, nor is an IN whose list is   *)
(* followed by another with OR between: its pattern runs to the last ")".  *)
(*                                                                         *)
(* A clause is the sequence of its comparisons and the set of places i     *)
(* where AND, rather than OR, stands between the i-th and the next.        *)
(***************************************************************************)
EXTENDS Integers, Sequences, FiniteSets

Null == [kind |-> "null", v |-> 0]
Num(n) == [kind |-> "int", v |-> n]
Truth(n) == [kind |-> "bool", v |-> n]
Text(n) == [kind |-> "text", v |-> n]

Value == [kind : {"int", "text"}, v : Int] \cup {Truth(0), Truth(1), Null}

\* No WHERE: every row.
Everything == [atoms |-> <<>>, ands |-> {}]

IsAtom(atom) ==
    /\ atom.col \in {"id", "u"}
    /\ \/ atom.op \in {"IS NULL", "IS NOT NULL"}
       \/ atom.op \in {"IN", "LIKE"} /\ atom.val \subseteq Value
       \/ atom.op \in {"=", "<>", "<", ">"} /\ atom.val \in Value

IsClause(where) ==
    \/ where = Everything
    \/ LET n == Len(where.atoms)
       IN  /\ n \in Nat \ {0}
           /\ where.ands \subseteq 1 .. n - 1
           /\ \A i \in 1 .. n : IsAtom(where.atoms[i])

\* The stretches of 1 .. n that cuts, the places after which it is cut, make of it.
Stretches(n, cuts) ==
    {q[1] .. q[2] : q \in {p \in (1 .. n) \X (1 .. n) :
        /\ p[1] <= p[2]
        /\ p[1] - 1 \in cuts \cup {0} /\ p[2] \in cuts \cup {n}
        /\ \A i \in p[1] .. p[2] - 1 : i \notin cuts}}

First(S) == CHOOSE i \in S : \A j \in S : i <= j

-----------------------------------------------------------------------------
(* What the code does *)

\* The tokens 0 and 1 are read as FALSE and TRUE; parameters too, as they are
\* pasted into the text first.
Literal(token) == IF token \in {Num(0), Num(1)} THEN Truth(token.v) ELSE token

\* str() of two values compares by kind first: digits, then "False" and "True",
\* then small letters.
Rank == [int |-> 0, bool |-> 1, text |-> 2]

ShownBefore(a, b) == \/ Rank[a.kind] < Rank[b.kind]
                     \/ a.kind = b.kind /\ a.v < b.v

\* A number in the clause is compared as a number with a cell that is one;
\* everything else is compared as str() shows it.
AsNumbers(cell, val) == val.kind = "int" /\ cell.kind \in {"int", "bool"}

Same(cell, val) == IF AsNumbers(cell, val) THEN cell.v = val.v ELSE cell = val

Before(cell, val) == IF AsNumbers(cell, val) THEN cell.v < val.v ELSE ShownBefore(cell, val)

\* Python's ==, by which IN looks for the cell: TRUE == 1.
Equal(cell, val) ==
    \/ cell = val
    \/ {cell.kind, val.kind} = {"int", "bool"} /\ cell.v = val.v

\* A mutant of Holds: an absent cell compares as smaller than any value.
HoldsMutant(row, atom) ==
    LET cell == row[atom.col]
    IN  CASE atom.op = "IS NULL" -> cell = Null
          [] atom.op = "IS NOT NULL" -> cell # Null
          [] atom.op = "IN" -> \E x \in atom.val : Equal(cell, Literal(x))
          [] atom.op = "LIKE" -> cell \in atom.val \ {Null}
          [] atom.op = "=" -> Same(cell, Literal(atom.val))
          [] atom.op = "<>" -> ~Same(cell, Literal(atom.val))
          [] atom.op = "<" -> cell = Null \/ Before(cell, Literal(atom.val))
          [] atom.op = ">" -> cell # Null /\ ~Before(cell, Literal(atom.val))

\* One comparison of RowEvaluator.match.  The others (>=, <=) join two of these.
Holds(row, atom) ==
    LET cell == row[atom.col]
    IN  CASE atom.op = "IS NULL" -> cell = Null
          [] atom.op = "IS NOT NULL" -> cell # Null
          [] atom.op = "IN" -> \E x \in atom.val : Equal(cell, Literal(x))
          [] atom.op = "LIKE" -> cell \in atom.val \ {Null}
          [] atom.op = "=" -> Same(cell, Literal(atom.val))
          [] atom.op = "<>" -> ~Same(cell, Literal(atom.val))
          [] atom.op = "<" -> cell # Null /\ Before(cell, Literal(atom.val))
          [] atom.op = ">" -> /\ cell # Null
                              /\ ~Before(cell, Literal(atom.val))
                              /\ ~Same(cell, Literal(atom.val))

\* What _parse_condition makes of comparisons joined by OR: the first one, with
\* the text of the others as part of its value.  That text equals no cell, and
\* as a pattern it matches none.
Swallowing(atom) ==
    CASE atom.op \in {"=", "<>"} -> [atom EXCEPT !.val = Text(-1)]
      [] atom.op = "LIKE" -> [atom EXCEPT !.val = {}]
      [] OTHER -> atom

\* _parse_where splits at AND if there is one, otherwise at OR.
Match(row, where) ==
    \/ where = Everything
    \/ /\ where.ands # {}
       /\ \A part \in Stretches(Len(where.atoms), where.ands) :
             LET atom == where.atoms[First(part)]
             IN  Holds(row, IF Cardinality(part) = 1 THEN atom ELSE Swallowing(atom))
    \/ /\ where.ands = {}
       /\ \E i \in 1 .. Len(where.atoms) : Holds(row, where.atoms[i])

-----------------------------------------------------------------------------
(* What SQL says *)

Numeric(x) == x.kind \in {"int", "bool"}

SQLSame(a, b) == a.v = b.v /\ Numeric(a) = Numeric(b)

SQLBefore(a, b) == IF Numeric(a) = Numeric(b) THEN a.v < b.v ELSE Numeric(a)

\* Whether a comparison is true; with an absent value it is unknown.
SQLHolds(row, atom) ==
    LET cell == row[atom.col]
        known(x) == cell # Null /\ x # Null
    IN  CASE atom.op = "IS NULL" -> cell = Null
          [] atom.op = "IS NOT NULL" -> cell # Null
          [] atom.op = "IN" -> \E x \in atom.val : known(x) /\ SQLSame(cell, x)
          [] atom.op = "LIKE" -> cell # Null /\ cell \in atom.val
          [] atom.op = "=" -> known(atom.val) /\ SQLSame(cell, atom.val)
          [] atom.op = "<>" -> known(atom.val) /\ ~SQLSame(cell, atom.val)
          [] atom.op = "<" -> known(atom.val) /\ SQLBefore(cell, atom.val)
          [] atom.op = ">" -> known(atom.val) /\ SQLBefore(atom.val, cell)

\* AND binds its neighbours before OR does.
SQLTrue(row, where) ==
    \/ where = Everything
    \/ \E part \in Stretches(Len(where.atoms), (1 .. Len(where.atoms) - 1) \ where.ands) :
          \A i \in part : SQLHolds(row, where.atoms[i])

\* A comparison the two agree on: with no absent value, with no truth value, which
\* 0 and 1 are read as (but IN takes those), and no <> of a column that may be absent.
PlainAtom(atom, nullable) ==
    /\ atom.op = "IN" => Null \notin atom.val
    /\ atom.op \in {"=", "<>", "<", ">"} => Literal(atom.val).kind \notin {"null", "bool"}
    /\ atom.op = "<>" => atom.col \notin nullable

\* And a clause: all its comparisons are such, and it has not both AND and OR.
Plain(where, nullable) ==
    LET n == Len(where.atoms)
    IN  /\ where.ands \in {{}, 1 .. n - 1}
        /\ \A i \in 1 .. n : PlainAtom(where.atoms[i], nullable)

=============================================================================
