----------------------------- MODULE MCLocalStore -----------------------------
(* LocalStore on a small instance: clients and values are interchangeable,  *)
(* and states that differ in the last answer alone are explored once, for   *)
(* no step depends on it.                                                   *)
EXTENDS LocalStore, TLC

Interchangeable == Permutations(Client) \cup Permutations(Value)

AllButAnswer == <<store, disk, now, call, volatile, acked, issued>>

=============================================================================
