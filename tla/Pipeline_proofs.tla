-------------------------- MODULE Pipeline_proofs --------------------------
(***************************************************************************)
(* What the stages promise one by one is enough for the whole way: proofs  *)
(* of Pipeline's invariants for any requests, batches and transactions.    *)
(***************************************************************************)
EXTENDS Pipeline, TLAPS

(* What the front has handed over has its assets. *)
HasAssets == \A r \in Requests : noted[r] > 0 \/ r \in stored => Refs[r] \subseteq available

(* A row in two batches is a repeated one. *)
OnceDelivered == \A a, b \in Batches : a # b => delivered[a] \cap delivered[b] \subseteq repeated

(* What is published was delivered, and what was delivered stored. *)
InOrder == /\ \A b \in Batches : alive[b] # {} => b \in ordered
           /\ \A b \in ordered : delivered[b] # {}
           /\ \A b \in Batches : delivered[b] \subseteq stored

(* One transaction at a time, until the publication is disturbed. *)
OneAlive == \A b \in Batches \ disturbed : \A s, t \in alive[b] : s = t

IInv == TypeOK /\ HasAssets /\ OnceDelivered /\ InOrder /\ OneAlive

-----------------------------------------------------------------------------
(* At the start nothing has been noted, delivered or sent. *)
LEMMA InitInv == Init => IInv
  BY DEF Init, A!Init, B!Init, P!Init, IInv, TypeOK, HasAssets, OnceDelivered, InOrder, OneAlive

(* Uploads, requests and forgotten jobs. *)
LEMMA FrontInv == IInv /\ AskOrPin => IInv'
  <1> USE DEF IInv, TypeOK, HasAssets, OnceDelivered, InOrder, OneAlive, middle, back
  <1>1. ASSUME IInv, NEW r \in Requests, A!Ask(r), UNCHANGED <<middle, back>>
        PROVE  IInv'
    BY <1>1 DEF A!Ask
  <1>2. ASSUME IInv, NEW r \in Requests, A!Forget(r), UNCHANGED <<middle, back>>
        PROVE  IInv'
    BY <1>2 DEF A!Forget
  <1>3. ASSUME IInv, NEW a \in Assets, A!Pin(a), UNCHANGED <<middle, back>>
        PROVE  IInv'
    BY <1>3 DEF A!Pin
  <1> QED BY <1>1, <1>2, <1>3 DEF AskOrPin

(* A request is noted with its assets, and its row waits for a batch. *)
LEMMA NoteInv == ASSUME IInv, NEW r \in Requests, Note(r) PROVE IInv'
  <1> USE DEF IInv, TypeOK, HasAssets, OnceDelivered, InOrder, OneAlive, back
  <1>1. CASE r \in stored
    BY <1>1 DEF Note, A!Note, B!Repeat
  <1>2. CASE r \notin stored
    BY <1>2 DEF Note, A!Note, middle
  <1> QED BY <1>1, <1>2

(* A batching worker takes an announcement. *)
LEMMA StoreInv == ASSUME IInv, NEW r \in Requests, Store(r) PROVE IInv'
  BY DEF IInv, TypeOK, HasAssets, OnceDelivered, InOrder, OneAlive, front, back,
         Store, B!Store, B!Repeat

(* A batch is delivered, with rows no other has unless they were repeated. *)
LEMMA EmitInv ==
  ASSUME IInv, NEW b \in Batches, NEW rows \in SUBSET Requests, Emit(b, rows)
  PROVE  IInv'
  <1>1. /\ rows # {} /\ rows \subseteq stored
        /\ \A a \in Batches : delivered[a] \cap rows \subseteq repeated
        /\ delivered' = [delivered EXCEPT ![b] = rows]
        /\ UNCHANGED <<asked, available, noted, stored, repeated, ordered, alive, disturbed>>
    BY DEF Emit, B!Deliver, front, back
  <1>2. OnceDelivered'
    BY <1>1 DEF IInv, TypeOK, OnceDelivered
  <1> QED BY <1>1, <1>2 DEF IInv, TypeOK, HasAssets, InOrder, OneAlive

(* The announcer orders a batch that was delivered. *)
LEMMA OrderInv == ASSUME IInv, NEW b \in Batches, Order(b) PROVE IInv'
  BY DEF IInv, TypeOK, HasAssets, OnceDelivered, InOrder, OneAlive, front, middle,
         Order, P!Order

(* Submissions, blocks, losses and disturbances. *)
LEMMA ChainInv == IInv /\ OnChain => IInv'
  <1> USE DEF IInv, TypeOK, HasAssets, OnceDelivered, InOrder, OneAlive, front, middle
  <1>1. ASSUME IInv, NEW b \in Batches, P!Disturb(b), UNCHANGED <<front, middle>>
        PROVE  IInv'
    BY <1>1 DEF P!Disturb
  <1>2. ASSUME IInv, NEW b \in Batches, NEW t \in Txs, P!Submit(b, t), UNCHANGED <<front, middle>>
        PROVE  IInv'
    BY <1>2 DEF P!Submit
  <1>3. ASSUME IInv, NEW b \in Batches, NEW t \in Txs, P!Lose(b, t), UNCHANGED <<front, middle>>
        PROVE  IInv'
    BY <1>3 DEF P!Lose
  <1> QED BY <1>1, <1>2, <1>3 DEF OnChain

(* Every step keeps the invariant. *)
LEMMA StepInv == IInv /\ [Next]_vars => IInv'
  <1>1. CASE UNCHANGED vars
    BY <1>1 DEF IInv, TypeOK, HasAssets, OnceDelivered, InOrder, OneAlive,
                vars, front, middle, back
  <1> QED BY <1>1, FrontInv, NoteInv, StoreInv, EmitInv, OrderInv, ChainInv DEF Next

(* The inductive invariant holds, for any constants that meet PipelineAssumption. *)
THEOREM Inductive == Spec => []IInv
  BY InitInv, StepInv, PTL DEF Spec

-----------------------------------------------------------------------------
(* A request reaches the chain once, whatever retries, crashes and resubmissions there    *)
(* are at any stage, except for the two causes OnChainOnce names.                          *)
THEOREM EndToEndOnce == Spec => []OnChainOnce
  <1>1. IInv => OnChainOnce
    BY DEF IInv, OnceDelivered, OneAlive, OnChainOnce
  <1> QED BY <1>1, Inductive, PTL

(* Whatever is on the chain was accepted by the API and has its assets on IPFS. *)
THEOREM EndToEndAnswerable == Spec => []OnChainIsAnswerable
  <1>1. IInv => OnChainIsAnswerable
    BY DEF IInv, TypeOK, HasAssets, InOrder, OnChainIsAnswerable
  <1> QED BY <1>1, Inductive, PTL
=============================================================================
