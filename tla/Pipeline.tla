------------------------------ MODULE Pipeline ------------------------------
(***************************************************************************)
(* The whole way of a request: the API and the request processor           *)
(* (Announcing), the batching stage (BatchDelivery) and the publisher with *)
(* its monitor (Publication), each as what it promises, and joined by the  *)
(* three queues between them.  The id of a job travels along: a request's  *)
(* is its announcement's and its row's, a batch's is its publish job's.    *)
(***************************************************************************)
EXTENDS Naturals

CONSTANTS Requests, Assets, Refs, Batches, Txs

ASSUME PipelineAssumption == Refs \in [Requests -> SUBSET Assets]

VARIABLES asked, available, noted,       \* Announcing
          stored, repeated, delivered,   \* BatchDelivery
          ordered, alive, disturbed      \* Publication

A == INSTANCE Announcing
B == INSTANCE BatchDelivery WITH Jobs <- Requests, BatchIds <- Batches
P == INSTANCE Publication

front == <<asked, available, noted>>
middle == <<stored, repeated, delivered>>
back == <<ordered, alive, disturbed>>
vars == <<front, middle, back>>

Init == A!Init /\ B!Init /\ P!Init

-----------------------------------------------------------------------------
(* What a stage does by itself. *)

AskOrPin == /\ \/ \E r \in Requests : A!Ask(r) \/ A!Forget(r)
               \/ \E a \in Assets : A!Pin(a)
            /\ UNCHANGED <<middle, back>>

OnChain == /\ \E b \in Batches : \/ P!Disturb(b)
                                 \/ \E t \in Txs : P!Submit(b, t) \/ P!Lose(b, t)
           /\ UNCHANGED <<front, middle>>

-----------------------------------------------------------------------------
(* The queues in between. *)

(* An announcement added anew after it was forgotten is a job handed out again. *)
Note(r) == /\ A!Note(r)
           /\ IF r \in stored THEN B!Repeat(r) ELSE UNCHANGED middle
           /\ UNCHANGED back

(* The batching stage takes the jobs of the announcement queue, and finds some stalled. *)
Store(r) == /\ noted[r] > 0
            /\ B!Store(r) \/ B!Repeat(r)
            /\ UNCHANGED <<front, back>>

(* Mutant: the rows are read, but not taken away from the open batch. *)
EmitCopy(b, rows) ==
    /\ rows # {} /\ rows \subseteq stored
    /\ delivered[b] = {}
    /\ delivered' = [delivered EXCEPT ![b] = rows]
    /\ UNCHANGED <<stored, repeated, front, back>>

Emit(b, rows) == B!Deliver(b, rows) /\ UNCHANGED <<front, back>>

(* Mutant: the batch is announced when it is opened. *)
OrderOpen(b) == P!Order(b) /\ UNCHANGED <<front, middle>>

(* The announcer takes the jobs of the batch queue. *)
Order(b) == /\ delivered[b] # {}
            /\ P!Order(b)
            /\ UNCHANGED <<front, middle>>

Next == \/ AskOrPin
        \/ \E r \in Requests : Note(r) \/ Store(r)
        \/ \E b \in Batches, rows \in SUBSET Requests : Emit(b, rows)
        \/ \E b \in Batches : Order(b)
        \/ OnChain

Spec == Init /\ [][Next]_vars

-----------------------------------------------------------------------------
(* Properties. *)

(* Each variable has its type. *)
TypeOK ==
    /\ asked \subseteq Requests /\ available \subseteq Assets
    /\ noted \in [Requests -> 0 .. 1]
    /\ stored \subseteq Requests /\ repeated \subseteq Requests
    /\ delivered \in [Batches -> SUBSET Requests]
    /\ ordered \subseteq Batches /\ disturbed \subseteq Batches
    /\ alive \in [Batches -> SUBSET Txs]

(* From the API to the chain: a request is not on the chain twice, in two batches or in   *)
(* two transactions of one, unless its announcement was handed out twice (stalled, or     *)
(* asked for again after it was forgotten) or the publication of its batch was disturbed. *)
OnChainOnce ==
    \A r \in Requests \ repeated : \A a, b \in Batches :
        r \in delivered[a] \cap delivered[b] =>
            \A s \in alive[a], t \in alive[b] : s = t \/ a \in disturbed

(* Every batch on the chain has rows, and every row is a request the API accepted, with   *)
(* its assets on IPFS.                                                                    *)
OnChainIsAnswerable ==
    \A b \in Batches : alive[b] # {} =>
        /\ delivered[b] # {}
        /\ \A r \in delivered[b] : Refs[r] \subseteq available
=============================================================================
