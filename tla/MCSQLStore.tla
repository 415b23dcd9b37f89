------------------------------ MODULE MCSQLStore ------------------------------
EXTENDS SQLStore, TLC

Where(col, op, val) == [atoms |-> <<[col |-> col, op |-> op, val |-> val]>>, ands |-> {}]

CONSTANTS c1, c2, t1, t2

\* Rows of t2 are seen by scans for t1, as those of "axb" are by scans for "a_b".
MCAlike == (t1 :> {t1, t2}) @@ (t2 :> {t2})

MCSchemas == {[unique |-> TRUE, indexed |-> FALSE], [unique |-> FALSE, indexed |-> FALSE]}

MCGiven == {<<Null, Null>>, <<Null, Text(1)>>, <<Null, Text(2)>>, <<Num(2), Text(1)>>}

MCClauses == {
    [atoms |-> <<[col |-> "u", op |-> "=", val |-> Text(1)],
                 [col |-> "u", op |-> "LIKE", val |-> {Text(1)}]>>, ands |-> {1}],
    [atoms |-> <<[col |-> "id", op |-> "IN", val |-> {Num(1), Num(2)}],
                 [col |-> "u", op |-> "<", val |-> Text(2)]>>, ands |-> {1}]}

MCSettings == {[col |-> "u", val |-> Text(2)], [col |-> "id", val |-> Num(1)]}

\* DELETE FROM users WHERE id = 1
DocumentedClauses == {Where("id", "=", Num(1)), Everything}

Symmetry == Permutations(Conn)

=============================================================================
