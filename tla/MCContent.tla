------------------------------ MODULE MCContent ------------------------------
(* Small instances of Content for TLC. *)
EXTENDS Content

CONSTANTS a1, r1

(* One request that refers to the only asset. *)
OneAsset == [r \in {r1} |-> {a1}]
=============================================================================
