-------------------------------- MODULE MCMesh --------------------------------
(* Three nodes.  The unseeded start is the program's own; in the others each *)
(* node's schedule was given some of the rest.                               *)
EXTENDS Mesh, TLC

CONSTANTS rx, listen

Listeners == Permutations({rx, listen})

Unseeded == {[n \in Node |-> {}]}

\* Each node was told of its neighbours in a row.
Line == {[n \in Node |-> {p \in Node : p - n \in {-1, 1}}]}

\* The third was told of nobody, the first of the third alone.
Uneven == {[n \in Node |-> IF n = 1 THEN {3} ELSE IF n = 2 THEN {1, 3} ELSE {}]}

Starts == Line \cup Uneven
=============================================================================
