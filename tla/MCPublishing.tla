---------------------------- MODULE MCPublishing ----------------------------
(* Small instances of Publishing for TLC. *)
EXTENDS Publishing

CONSTANTS b1, j1

(* One job of the batch queue carries the one batch. *)
OneBatch == [j \in {j1} |-> b1]
=============================================================================
