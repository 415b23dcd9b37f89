------------------------------ MODULE MCPneumaDB ------------------------------
(* PneumaDB on two nodes: a owns the only key, b holds its replica, and two   *)
(* threads call each.  Threads of a node are alike, and so are values.        *)
EXTENDS PneumaDB, TLC

CONSTANTS a, b, t1, t2, t3, t4, v1, v2

MCAt == [t \in Thread |-> IF t \in {t1, t2} THEN a ELSE b]
MCPlace == [k \in Key |-> a :> 0 @@ b :> 1]

Interchangeable ==
    Permutations({t1, t2}) \cup Permutations({t3, t4}) \cup Permutations({v1, v2})

=============================================================================
