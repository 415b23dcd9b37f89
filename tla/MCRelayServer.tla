---------------------------- MODULE MCRelayServer ----------------------------
(* RelayServer on a small instance.  Nodes are alike, and no liveness is      *)
(* checked here, so symmetry is sound.                                       *)
EXTENDS RelayServer, TLC

Interchangeable == Permutations(Node)

=============================================================================
