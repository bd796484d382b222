--------------------------- MODULE BatchDelivery ---------------------------
(***************************************************************************)
(* What the batching stage promises the stage behind it: every batch that  *)
(* reaches the batch queue is made once, from announcements that were      *)
(* stored, and no announcement is delivered in two batches unless its job  *)
(* was handed out twice.                                                   *)
(***************************************************************************)
CONSTANTS Jobs, BatchIds

VARIABLES
    stored,     \* announcements the stage has taken responsibility for
    repeated,   \* announcements whose job was handed out more than once
    delivered   \* batch id -> announcements, {} while there is no such batch

vars == <<stored, repeated, delivered>>

Init == /\ stored = {}
        /\ repeated = {}
        /\ delivered = [b \in BatchIds |-> {}]

Store(j) == /\ stored' = stored \cup {j}
            /\ UNCHANGED <<repeated, delivered>>

Repeat(j) == /\ repeated' = repeated \cup {j}
             /\ UNCHANGED <<stored, delivered>>

Deliver(b, S) ==
    /\ S # {} /\ S \subseteq stored
    /\ delivered[b] = {}
    /\ \A a \in BatchIds : delivered[a] \cap S \subseteq repeated
    /\ delivered' = [delivered EXCEPT ![b] = S]
    /\ UNCHANGED <<stored, repeated>>

Next == \/ \E j \in Jobs : Store(j) \/ Repeat(j)
        \/ \E b \in BatchIds, S \in SUBSET Jobs : Deliver(b, S)

Spec == Init /\ [][Next]_vars
=============================================================================
