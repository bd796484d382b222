----------------------------- MODULE MCPipeline -----------------------------
(* A small instance of Pipeline for TLC. *)
EXTENDS Pipeline, TLC

CONSTANTS r1, r2, a1

(* One of two requests refers to an asset. *)
OneWithAsset == [r \in {r1, r2} |-> IF r = r1 THEN {a1} ELSE {}]
Symmetry == Permutations(Batches) \cup Permutations(Txs)
=============================================================================
