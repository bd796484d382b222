---------------------------- MODULE Publication ----------------------------
(***************************************************************************)
(* What the announcer, the publisher and the monitor promise of the chain: *)
(* a batch is submitted only if it was ordered, and again only when its    *)
(* earlier transaction is lost or has failed, unless a call of its was cut *)
(* short or a block was replaced.                                          *)
(***************************************************************************)
CONSTANTS Batches, Txs

VARIABLES
    ordered,    \* batches to be published
    alive,      \* the transactions of a batch that are in the pool or stored
    disturbed   \* batches whose publication was disturbed

vars == <<ordered, alive, disturbed>>

Init == /\ ordered = {}
        /\ alive = [b \in Batches |-> {}]
        /\ disturbed = {}

Order(b) == /\ ordered' = ordered \cup {b}
            /\ UNCHANGED <<alive, disturbed>>

Disturb(b) == /\ disturbed' = disturbed \cup {b}
              /\ UNCHANGED <<ordered, alive>>

Submit(b, t) ==
    /\ b \in ordered
    /\ disturbed' \in {disturbed, disturbed \cup {b}}
    /\ alive[b] = {} \/ b \in disturbed'
    /\ \A a \in Batches : t \notin alive[a]
    /\ alive' = [alive EXCEPT ![b] = @ \cup {t}]
    /\ UNCHANGED ordered

Lose(b, t) == /\ alive' = [alive EXCEPT ![b] = @ \ {t}]
              /\ UNCHANGED <<ordered, disturbed>>

Next == \E b \in Batches : \/ Order(b) \/ Disturb(b)
                           \/ \E t \in Txs : Submit(b, t) \/ Lose(b, t)

Spec == Init /\ [][Next]_vars
=============================================================================
