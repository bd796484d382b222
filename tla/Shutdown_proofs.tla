--------------------------- MODULE Shutdown_proofs ---------------------------
(* Theorems about Shutdown, for any ids, slots, polls and handlers. *)
EXTENDS Shutdown, TLAPS

USE ShutdownAssumption DEF jobs, history, Busy, Ends, UnTrack, GivesUpJob

-----------------------------------------------------------------------------
(* The inductive invariant. *)

(* One lock to an id, and none while the id waits; whoever has it works on a tracked id, or *)
(* on one whose earlier handler has untracked it, and only such an id has a handler still.  *)
LockShape(s) == /\ call[s] \notin waiting
                /\ call[s] \in actives \cup overlapped
                /\ handlers[call[s]] > 0 => call[s] \in overlapped
                /\ \A t \in locks : call[t] = call[s] => t = s

(* A handler's id is tracked, unless another handler of the same id has ended. *)
HandlerShape(i) == /\ handlers[i] > 0 => i \in actives \cup overlapped
                   /\ handlers[i] > 1 => i \in overlapped

(* Nothing is taken after the worker was closed. *)
WorkerIsIdle == phase \in {"polling", "closed"} => Busy = {}

IInv == /\ TypeOK
        /\ \A s \in locks : LockShape(s)
        /\ \A i \in Ids : HandlerShape(i)
        /\ WorkerIsIdle
        /\ HandlersAreAwaited
        /\ TrackedIsAlive

-----------------------------------------------------------------------------
(* Every step keeps the types. *)
LEMMA TypeStep ==
  ASSUME TypeOK, Next
  PROVE  TypeOK'
  <1> DEFINE Goal == TypeOK'
  <1> USE DEF TypeOK
  <1>1. ASSUME NEW i \in Ids, Add(i) PROVE Goal
    BY <1>1 DEF Add
  <1>2. ASSUME NEW i \in Ids, OnCompletedEnds(i) PROVE Goal
    BY <1>2 DEF OnCompletedEnds
  <1>3. ASSUME NEW s \in Slots, NEW i \in Ids, Take(s, i) PROVE Goal
    BY <1>3 DEF Take
  <1>4. ASSUME NEW s \in Slots, LoseLock(s) PROVE Goal
    BY <1>4 DEF LoseLock
  <1>5. ASSUME NEW s \in Slots, MoveToDelayed(s) PROVE Goal
    BY <1>5 DEF MoveToDelayed
  <1>6. ASSUME NEW s \in Slots, Completed(s) PROVE Goal
    BY <1>6 DEF Completed
  <1>7. ASSUME NEW s \in Slots, Failed(s) PROVE Goal
    BY <1>7 DEF Failed
  <1>8. ASSUME NEW s \in Slots, Unsettled(s) PROVE Goal
    BY <1>8 DEF Unsettled
  <1>9. CASE Destroy
    BY <1>9 DEF Destroy
  <1>10. CASE WorkerClosed
    BY <1>10 DEF WorkerClosed
  <1>11. CASE Poll
    BY <1>11 DEF Poll
  <1> QED
    BY <1>1, <1>2, <1>3, <1>4, <1>5, <1>6, <1>7, <1>8, <1>9, <1>10, <1>11
    DEF Next, CallEnds

(* Locks still belong to one slot each. *)
LEMMA LockStep ==
  ASSUME IInv, TypeOK', Next
  PROVE  \A t \in locks' : LockShape(t)'
  <1> DEFINE Goal == \A t \in locks' : LockShape(t)'
  <1> USE DEF IInv, TypeOK, LockShape, HandlerShape
  <1>1. ASSUME NEW i \in Ids, Add(i) PROVE Goal
    BY <1>1 DEF Add
  <1>2. ASSUME NEW i \in Ids, OnCompletedEnds(i) PROVE Goal
    BY <1>2 DEF OnCompletedEnds
  <1>3. ASSUME NEW s \in Slots, NEW i \in Ids, Take(s, i) PROVE Goal
    BY <1>3 DEF Take
  <1>4. ASSUME NEW s \in Slots, LoseLock(s) PROVE Goal
    BY <1>4 DEF LoseLock
  <1>5. ASSUME NEW s \in Slots, MoveToDelayed(s) PROVE Goal
    BY <1>5 DEF MoveToDelayed
  <1>6. ASSUME NEW s \in Slots, Completed(s) PROVE Goal
    BY <1>6 DEF Completed
  <1>7. ASSUME NEW s \in Slots, Failed(s) PROVE Goal
    BY <1>7 DEF Failed
  <1>8. ASSUME NEW s \in Slots, Unsettled(s) PROVE Goal
    BY <1>8 DEF Unsettled
  <1>9. CASE Destroy
    BY <1>9 DEF Destroy
  <1>10. CASE WorkerClosed
    BY <1>10 DEF WorkerClosed
  <1>11. CASE Poll
    BY <1>11 DEF Poll
  <1> QED
    BY <1>1, <1>2, <1>3, <1>4, <1>5, <1>6, <1>7, <1>8, <1>9, <1>10, <1>11
    DEF Next, CallEnds

(* Handlers' ids are still tracked. *)
LEMMA HandlerStep ==
  ASSUME IInv, TypeOK', Next
  PROVE  \A j \in Ids : HandlerShape(j)'
  <1> DEFINE Goal == \A j \in Ids : HandlerShape(j)'
  <1> USE DEF IInv, TypeOK, LockShape, HandlerShape
  <1>1. ASSUME NEW i \in Ids, Add(i) PROVE Goal
    BY <1>1 DEF Add
  <1>2. ASSUME NEW i \in Ids, OnCompletedEnds(i) PROVE Goal
    BY <1>2 DEF OnCompletedEnds
  <1>3. ASSUME NEW s \in Slots, NEW i \in Ids, Take(s, i) PROVE Goal
    BY <1>3 DEF Take
  <1>4. ASSUME NEW s \in Slots, LoseLock(s) PROVE Goal
    BY <1>4 DEF LoseLock
  <1>5. ASSUME NEW s \in Slots, MoveToDelayed(s) PROVE Goal
    BY <1>5 DEF MoveToDelayed
  <1>6. ASSUME NEW s \in Slots, Completed(s) PROVE Goal
    BY <1>6 DEF Completed
  <1>7. ASSUME NEW s \in Slots, Failed(s) PROVE Goal
    BY <1>7 DEF Failed
  <1>8. ASSUME NEW s \in Slots, Unsettled(s) PROVE Goal
    BY <1>8 DEF Unsettled
  <1>9. CASE Destroy
    BY <1>9 DEF Destroy
  <1>10. CASE WorkerClosed
    BY <1>10 DEF WorkerClosed
  <1>11. CASE Poll
    BY <1>11 DEF Poll
  <1> QED
    BY <1>1, <1>2, <1>3, <1>4, <1>5, <1>6, <1>7, <1>8, <1>9, <1>10, <1>11
    DEF Next, CallEnds

(* A closed worker stays idle. *)
LEMMA IdleStep ==
  ASSUME IInv, Next
  PROVE  WorkerIsIdle'
  <1> DEFINE Goal == WorkerIsIdle'
  <1> USE DEF IInv, TypeOK, WorkerIsIdle
  <1>1. ASSUME NEW i \in Ids, Add(i) PROVE Goal
    BY <1>1 DEF Add
  <1>2. ASSUME NEW i \in Ids, OnCompletedEnds(i) PROVE Goal
    BY <1>2 DEF OnCompletedEnds
  <1>3. ASSUME NEW s \in Slots, NEW i \in Ids, Take(s, i) PROVE Goal
    BY <1>3 DEF Take
  <1>4. ASSUME NEW s \in Slots, LoseLock(s) PROVE Goal
    BY <1>4 DEF LoseLock
  <1>5. ASSUME NEW s \in Slots, MoveToDelayed(s) PROVE Goal
    BY <1>5 DEF MoveToDelayed
  <1>6. ASSUME NEW s \in Slots, Completed(s) PROVE Goal
    BY <1>6 DEF Completed
  <1>7. ASSUME NEW s \in Slots, Failed(s) PROVE Goal
    BY <1>7 DEF Failed
  <1>8. ASSUME NEW s \in Slots, Unsettled(s) PROVE Goal
    BY <1>8 DEF Unsettled
  <1>9. CASE Destroy
    BY <1>9 DEF Destroy
  <1>10. CASE WorkerClosed
    BY <1>10 DEF WorkerClosed
  <1>11. CASE Poll
    BY <1>11 DEF Poll
  <1> QED
    BY <1>1, <1>2, <1>3, <1>4, <1>5, <1>6, <1>7, <1>8, <1>9, <1>10, <1>11
    DEF Next, CallEnds

(* The consumer is destroyed after its handlers. *)
LEMMA AwaitedStep ==
  ASSUME IInv, TypeOK', Next
  PROVE  HandlersAreAwaited'
  <1> DEFINE Goal == HandlersAreAwaited'
  <1> USE DEF IInv, TypeOK, HandlerShape, WorkerIsIdle, HandlersAreAwaited
  <1>1. ASSUME NEW i \in Ids, Add(i) PROVE Goal
    BY <1>1 DEF Add
  <1>2. ASSUME NEW i \in Ids, OnCompletedEnds(i) PROVE Goal
    BY <1>2 DEF OnCompletedEnds
  <1>3. ASSUME NEW s \in Slots, NEW i \in Ids, Take(s, i) PROVE Goal
    BY <1>3 DEF Take
  <1>4. ASSUME NEW s \in Slots, LoseLock(s) PROVE Goal
    BY <1>4 DEF LoseLock
  <1>5. ASSUME NEW s \in Slots, MoveToDelayed(s) PROVE Goal
    BY <1>5 DEF MoveToDelayed
  <1>6. ASSUME NEW s \in Slots, Completed(s) PROVE Goal
    BY <1>6 DEF Completed
  <1>7. ASSUME NEW s \in Slots, Failed(s) PROVE Goal
    BY <1>7 DEF Failed
  <1>8. ASSUME NEW s \in Slots, Unsettled(s) PROVE Goal
    BY <1>8 DEF Unsettled
  <1>9. CASE Destroy
    BY <1>9 DEF Destroy
  <1>10. CASE WorkerClosed
    BY <1>10 DEF WorkerClosed
  <1>11. CASE Poll
    BY <1>11 DEF Poll
  <1> QED
    BY <1>1, <1>2, <1>3, <1>4, <1>5, <1>6, <1>7, <1>8, <1>9, <1>10, <1>11
    DEF Next, CallEnds

(* What is tracked has a call or a handler. *)
LEMMA AliveStep ==
  ASSUME IInv, TypeOK', Next
  PROVE  TrackedIsAlive'
  <1> DEFINE Goal == TrackedIsAlive'
  <1> USE DEF IInv, TypeOK, TrackedIsAlive
  <1>1. ASSUME NEW i \in Ids, Add(i) PROVE Goal
    BY <1>1 DEF Add
  <1>2. ASSUME NEW i \in Ids, OnCompletedEnds(i) PROVE Goal
    BY <1>2 DEF OnCompletedEnds
  <1>3. ASSUME NEW s \in Slots, NEW i \in Ids, Take(s, i) PROVE Goal
    BY <1>3 DEF Take
  <1>4. ASSUME NEW s \in Slots, LoseLock(s) PROVE Goal
    BY <1>4 DEF LoseLock
  <1>5. ASSUME NEW s \in Slots, MoveToDelayed(s) PROVE Goal
    BY <1>5 DEF MoveToDelayed
  <1>6. ASSUME NEW s \in Slots, Completed(s) PROVE Goal
    BY <1>6 DEF Completed
  <1>7. ASSUME NEW s \in Slots, Failed(s) PROVE Goal
    BY <1>7 DEF Failed
  <1>8. ASSUME NEW s \in Slots, Unsettled(s) PROVE Goal
    BY <1>8 DEF Unsettled
  <1>9. CASE Destroy
    BY <1>9 DEF Destroy
  <1>10. CASE WorkerClosed
    BY <1>10 DEF WorkerClosed
  <1>11. CASE Poll
    BY <1>11 DEF Poll
  <1> QED
    BY <1>1, <1>2, <1>3, <1>4, <1>5, <1>6, <1>7, <1>8, <1>9, <1>10, <1>11
    DEF Next, CallEnds

(* The invariant holds at the start. *)
LEMMA InitInv == Init => IInv
  BY DEF Init, IInv, TypeOK, LockShape, HandlerShape, WorkerIsIdle, HandlersAreAwaited,
         TrackedIsAlive

(* Every step keeps the invariant. *)
LEMMA StepInv == IInv /\ [Next]_vars => IInv'
  <1> SUFFICES ASSUME IInv, [Next]_vars PROVE IInv'
    OBVIOUS
  <1>1. CASE Next
    <2>1. TypeOK'
      BY <1>1, TypeStep DEF IInv
    <2> QED
      BY <1>1, <2>1, LockStep, HandlerStep, IdleStep, AwaitedStep, AliveStep DEF IInv
  <1>2. CASE UNCHANGED vars
    BY <1>2 DEF vars, IInv, TypeOK, LockShape, HandlerShape, WorkerIsIdle, HandlersAreAwaited,
                TrackedIsAlive
  <1> QED BY <1>1, <1>2

(* The inductive invariant holds, for any constants that meet ShutdownAssumption. *)
THEOREM Inductive == Spec => []IInv
  BY InitInv, StepInv, PTL DEF Spec

(* Every variable keeps its type, and only slots at work have locks. *)
THEOREM TypeCorrect == Spec => []TypeOK
  <1>1. IInv => TypeOK
    BY DEF IInv
  <1> QED BY <1>1, Inductive, PTL

(* No consumer is destroyed under a completed handler it tracks, but after the last poll. *)
THEOREM HandlersSafety == Spec => []HandlersAreAwaited
  <1>1. IInv => HandlersAreAwaited
    BY DEF IInv
  <1> QED BY <1>1, Inductive, PTL

(* A shutdown waits only for ids whose call holds its job or whose handler runs, or whose      *)
(* lock was lost or whose request was put off since they were last untracked.                *)
THEOREM TrackedSafety == Spec => []TrackedIsAlive
  <1>1. IInv => TrackedIsAlive
    BY DEF IInv
  <1> QED BY <1>1, Inductive, PTL
=============================================================================
