----------------------------- MODULE Announcing -----------------------------
(***************************************************************************)
(* What the API and the request processor promise the batching stage: an   *)
(* announcement job is added for a request that was accepted, once as long *)
(* as the queues remember it, and when the assets it refers to are there.  *)
(***************************************************************************)
EXTENDS Naturals

CONSTANTS Requests, Assets, Refs

VARIABLES
    asked,      \* requests accepted and not forgotten
    available,  \* assets on IPFS
    noted       \* announcement jobs of a request

vars == <<asked, available, noted>>

Init == /\ asked = {}
        /\ available = {}
        /\ noted = [r \in Requests |-> 0]

Ask(r) == /\ asked' = asked \cup {r}
          /\ UNCHANGED <<available, noted>>

Pin(a) == /\ available' = available \cup {a}
          /\ UNCHANGED <<asked, noted>>

Note(r) == /\ r \in asked
           /\ noted[r] = 0
           /\ Refs[r] \subseteq available
           /\ noted' = [noted EXCEPT ![r] = 1]
           /\ UNCHANGED <<asked, available>>

(* Later requests push it out, and perhaps its announcement too. *)
Forget(r) == /\ asked' = asked \ {r}
             /\ noted' \in {noted, [noted EXCEPT ![r] = 0]}
             /\ UNCHANGED available

Next == \/ \E r \in Requests : Ask(r) \/ Note(r) \/ Forget(r)
        \/ \E a \in Assets : Pin(a)

Spec == Init /\ [][Next]_vars
=============================================================================
