------------------------------- MODULE MCFraming -------------------------------
(* Two messages of two fragments and one of three from node a, whose two     *)
(* threads may cross; one of two fragments from node b.                      *)
EXTENDS Framing, TLC

CONSTANTS a, b, t1, t2, t3, m1, m2, m3, m4

MCHost == (t1 :> a) @@ (t2 :> a) @@ (t3 :> b)
MCFrom == [m \in Message |-> IF m = m4 THEN b ELSE a]
MCTotal == [m \in Message |-> IF m = m3 THEN 3 ELSE 2]
MCSymmetry == Permutations({t1, t2}) \cup Permutations({m1, m2})
=============================================================================
