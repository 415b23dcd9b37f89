------------------------------ MODULE MCTableORM ------------------------------
(***************************************************************************)
(* TableORM for TLC: its threads, ids, fields and values are              *)
(* interchangeable.                                                        *)
(***************************************************************************)
EXTENDS TableORM, TLC

Symmetry == Permutations(Thread) \cup Permutations(Id)
            \cup Permutations(Field) \cup Permutations(Value)

=============================================================================
