--------------------------- MODULE Batching_proofs ---------------------------
(* Theorems about Batching, for any jobs, processes, calls, limits and faults: its        *)
(* invariants, and that it implements BatchDelivery.                                    *)
EXTENDS Batching, FiniteSetTheorems, TLAPS

USE BatchingAssumption

-----------------------------------------------------------------------------
(* Types.  What a call carries depends on its kind and on where it is. *)

CallShape(c) ==
    /\ call[c].pc = "idle" <=> call[c].kind = "none"
    /\ call[c].kind # "none" => call[c].host \in Workers
    /\ call[c].kind = "job" => call[c].job \in Jobs
    /\ call[c].pc \in {"add", "reply", "finish"} => call[c].kind = "job"
    /\ call[c].pc = "reply" /\ call[c].count = 1 => call[c].own \in BatchIds
    /\ Closing(c) => call[c].held \in BatchIds /\ call[c].rows # {}
    /\ ~Closing(c) => call[c].held = None /\ call[c].rows = {}

OpenKeys == /\ (openId = None) <=> (openRows = {})
            /\ (openId = None) <=> (rowCount = 0)
            /\ (lockId = None) <=> (lockRows = {})

TypeInv == TypeOK /\ OpenKeys /\ \A c \in Calls : CallShape(c)

(* What a call that does nothing looks like. *)
LEMMA IdleCall ==
  /\ Idle \in CallRec
  /\ Idle.pc = "idle" /\ Idle.kind = "none"
  /\ Idle.host = None /\ Idle.job = None /\ Idle.own = None
  /\ Idle.held = None /\ Idle.rows = {} /\ Idle.again = FALSE
  BY DEF Idle, NewCall, CallRec, Pcs

(* At the start nothing runs and no batch is open. *)
LEMMA TypeInit == Init => TypeInv
  <1> SUFFICES ASSUME Init PROVE TypeInv
    OBVIOUS
  <1>1. TypeOK
    BY IdleCall, BatchingAssumption DEF Init, TypeOK
  <1>2. OpenKeys
    BY DEF Init, OpenKeys
  <1>3. \A c \in Calls : CallShape(c)
    BY IdleCall DEF Init, CallShape, Closing
  <1> QED BY <1>1, <1>2, <1>3 DEF TypeInv

(* A call's new record has its type and shape, the other calls keep theirs. *)
LEMMA OneCallShape ==
  ASSUME TypeInv, NEW c \in Calls, NEW r \in CallRec, call' = [call EXCEPT ![c] = r],
         r.pc = "idle" <=> r.kind = "none",
         r.kind # "none" => r.host \in Workers,
         r.kind = "job" => r.job \in Jobs,
         r.pc \in {"add", "reply", "finish"} => r.kind = "job",
         r.pc = "reply" /\ r.count = 1 => r.own \in BatchIds,
         r.pc \in {"emit", "unlock"} => r.held \in BatchIds /\ r.rows # {},
         r.pc \notin {"emit", "unlock"} => r.held = None /\ r.rows = {}
  PROVE  call' \in [Calls -> CallRec] /\ \A d \in Calls : CallShape(d)'
  <1>1. call \in [Calls -> CallRec]
    BY DEF TypeInv, TypeOK
  <1>2. call' \in [Calls -> CallRec]
    BY <1>1
  <1>3. ASSUME NEW d \in Calls PROVE CallShape(d)'
    <2>1. CASE d = c
      <3>1. call'[d] = r
        BY <1>1, <2>1
      <3> QED BY <3>1 DEF CallShape, Closing
    <2>2. CASE d # c
      <3>1. call'[d] = call[d]
        BY <1>1, <2>2
      <3> QED BY <3>1 DEF TypeInv, CallShape, Closing
    <2> QED BY <2>1, <2>2
  <1> QED BY <1>2, <1>3

(* What the calls hold does not matter to the rest of the type invariant. *)
LEMMA ReturnedShape ==
  ASSUME TypeInv, NEW c \in Calls
  PROVE  /\ Returned(c) \in CallRec
         /\ Returned(c).pc \in {"idle", "finish"}
         /\ Returned(c).pc = "idle" <=> Returned(c).kind = "none"
         /\ Returned(c).kind \in {"none", "job"}
         /\ Returned(c).kind = "job" => /\ call[c].kind = "job"
                                        /\ Returned(c).job = call[c].job
                                        /\ Returned(c).host = call[c].host
                                        /\ Returned(c).pc = "finish"
         /\ Returned(c).held = None /\ Returned(c).rows = {}
         /\ Returned(c).own = None /\ Returned(c).again = FALSE
  <1>1. call[c] \in CallRec /\ CallShape(c)
    BY DEF TypeInv, TypeOK
  <1>2. CASE call[c].kind = "job"
    <2>1. call[c].host \in Workers /\ call[c].job \in Jobs
      BY <1>1, <1>2 DEF CallShape
    <2>2. Returned(c) = NewCall("finish", "job", call[c].host, call[c].job, None)
      BY <1>2 DEF Returned
    <2> QED BY <2>1, <2>2, <1>2 DEF NewCall, CallRec, Pcs
  <1>3. CASE call[c].kind # "job"
    BY <1>1, <1>3, IdleCall DEF Returned
  <1> QED BY <1>2, <1>3

(* A call that begins has the shape of a job's call. *)
LEMMA TypeStartJob ==
  ASSUME TypeInv, NEW c \in Calls, NEW w \in Workers, NEW j \in Jobs, StartJob(c, w, j)
  PROVE  TypeInv'
  <1> DEFINE r == NewCall("add", "job", w, j, None)
  <1>2. r \in CallRec /\ r.pc = "add" /\ r.kind = "job" /\ r.host = w /\ r.job = j
        /\ r.held = None /\ r.rows = {}
    BY DEF NewCall, CallRec, Pcs
  <1>3. call' = [call EXCEPT ![c] = r]
    BY DEF StartJob
  <1> HIDE DEF r
  <1>4. call' \in [Calls -> CallRec] /\ \A d \in Calls : CallShape(d)'
    BY <1>2, <1>3, OneCallShape
  <1>5. TypeOK' /\ OpenKeys'
    BY <1>4 DEF StartJob, TypeInv, TypeOK, OpenKeys, openBatch, lockedBatch, history
  <1> QED BY <1>4, <1>5 DEF TypeInv

(* The script opens a batch with all three keys, or counts one more row. *)
LEMMA TypeAddToBatch ==
  ASSUME TypeInv, NEW c \in Calls, AddToBatch(c)
  PROVE  TypeInv'
  <1> USE DEF TypeInv, TypeOK
  <1>1. call[c] \in CallRec /\ CallShape(c) /\ call[c].pc = "add"
    BY DEF AddToBatch
  <1>2. call[c].job \in Jobs /\ call[c].kind = "job" /\ call[c].host \in Workers
        /\ call[c].held = None /\ call[c].rows = {}
    BY <1>1 DEF CallShape, Closing
  <1>3. CASE OpenNewBatch(c)
    <2> DEFINE r == [call[c] EXCEPT !.pc = "reply", !.own = FreshId, !.count = 1]
    <2>1. FreshId \in BatchIds
      BY <1>3 DEF OpenNewBatch, FreshId
    <2>2. call' = [call EXCEPT ![c] = r]
      BY <1>1, <1>3 DEF OpenNewBatch
    <2>3. r \in CallRec /\ r.pc = "reply" /\ r.kind = "job" /\ r.host \in Workers
          /\ r.job \in Jobs /\ r.own = FreshId /\ r.held = None /\ r.rows = {}
      BY <1>1, <1>2, <2>1 DEF CallRec, Pcs
    <2> HIDE DEF r
    <2>4. call' \in [Calls -> CallRec] /\ \A d \in Calls : CallShape(d)'
      BY <2>1, <2>2, <2>3, OneCallShape
    <2> QED BY <1>2, <1>3, <2>1, <2>4
            DEF AddToBatch, OpenNewBatch, OpenKeys, lockedBatch, queue
  <1>4. CASE JoinOpenBatch(c)
    <2> DEFINE r == [call[c] EXCEPT !.pc = "reply", !.count = rowCount + 1]
    <2>1. rowCount + 1 \in Nat /\ rowCount + 1 # 1 /\ rowCount + 1 # 0
      BY <1>4 DEF JoinOpenBatch, OpenKeys
    <2>2. call' = [call EXCEPT ![c] = r]
      BY <1>1, <1>4 DEF JoinOpenBatch
    <2>3. r \in CallRec /\ r.pc = "reply" /\ r.kind = "job" /\ r.host \in Workers
          /\ r.job \in Jobs /\ r.count # 1 /\ r.held = None /\ r.rows = {}
      BY <1>1, <1>2, <2>1 DEF CallRec, Pcs
    <2> HIDE DEF r
    <2>4. call' \in [Calls -> CallRec] /\ \A d \in Calls : CallShape(d)'
      BY <2>1, <2>2, <2>3, OneCallShape
    <2> QED BY <1>2, <1>4, <2>1, <2>4
            DEF AddToBatch, JoinOpenBatch, OpenKeys, lockedBatch, queue
  <1> QED BY <1>3, <1>4 DEF AddToBatch

(* What the script replied leads to a timer, a closer or the end. *)
LEMMA TypeReply ==
  ASSUME TypeInv, NEW c \in Calls, Reply(c)
  PROVE  TypeInv'
  <1> USE DEF TypeInv, TypeOK
  <1>1. call[c] \in CallRec /\ CallShape(c) /\ call[c].pc = "reply"
    BY DEF Reply
  <1>2. call[c].job \in Jobs /\ call[c].kind = "job" /\ call[c].host \in Workers
        /\ call[c].held = None /\ call[c].rows = {}
    BY <1>1 DEF CallShape, Closing
  <1>3. PICK r \in CallRec :
          /\ call' = [call EXCEPT ![c] = r]
          /\ \/ r = Returned(c)
             \/ r = [call[c] EXCEPT !.pc = "lock", !.count = 0]
    <2>1. [call[c] EXCEPT !.pc = "lock", !.count = 0] \in CallRec
      BY <1>1 DEF CallRec, Pcs
    <2>2. Returned(c) \in CallRec
      BY ReturnedShape
    <2> QED BY <1>1, <2>1, <2>2 DEF Reply
  <1>4. call' \in [Calls -> CallRec] /\ \A d \in Calls : CallShape(d)'
    <2>1. CASE r = Returned(c)
      BY <1>2, <1>3, <2>1, ReturnedShape, OneCallShape
    <2>2. CASE r = [call[c] EXCEPT !.pc = "lock", !.count = 0]
      <3>1. r.pc = "lock" /\ r.kind = "job" /\ r.host \in Workers /\ r.job \in Jobs
            /\ r.held = None /\ r.rows = {}
        BY <1>1, <1>2, <2>2 DEF CallRec
      <3> QED BY <1>3, <3>1, OneCallShape
    <2> QED BY <1>3, <2>1, <2>2
  <1>5. timers' \subseteq Workers \X BatchIds
    BY <1>1, <1>2 DEF Reply, CallShape
  <1> QED BY <1>4, <1>5 DEF Reply, OpenKeys, openBatch, lockedBatch, queue, history

(* A call that is done becomes idle. *)
LEMMA TypeFinish ==
  ASSUME TypeInv, NEW c \in Calls, Finish(c)
  PROVE  TypeInv'
  <1> USE DEF TypeInv, TypeOK
  <1>1. call' \in [Calls -> CallRec] /\ \A d \in Calls : CallShape(d)'
    BY IdleCall, OneCallShape DEF Finish
  <1>2. call[c].job \in Jobs
    BY DEF Finish, CallShape
  <1>3. /\ jobState' \in [Jobs -> {"waiting", "active", "completed", "failed"}]
        /\ owner' \in [Jobs -> Calls \cup {None}]
    BY <1>2 DEF Finish
  <1> QED BY <1>1, <1>3 DEF Finish, OpenKeys, openBatch, lockedBatch, history

(* A closer that goes on has the rows and the id of a batch, from the lock or the open one. *)
LEMMA TypeLockBatch ==
  ASSUME TypeInv, NEW c \in Calls, LockBatch(c)
  PROVE  TypeInv'
  <1> USE DEF TypeInv, TypeOK
  <1>1. call[c] \in CallRec /\ CallShape(c) /\ call[c].pc = "lock"
    BY DEF LockBatch
  <1>2. CASE /\ call' = [call EXCEPT ![c] = Returned(c)]
             /\ UNCHANGED <<openBatch, lockedBatch>>
    <2>1. call' \in [Calls -> CallRec] /\ \A d \in Calls : CallShape(d)'
      BY <1>1, <1>2, ReturnedShape, OneCallShape DEF CallShape
    <2> QED BY <1>2, <2>1 DEF LockBatch, OpenKeys, openBatch, lockedBatch, queue, history
  <1>3. CASE /\ openId # None /\ lockId # None /\ lockExpired
             /\ call' = [call EXCEPT ![c].pc = "emit", ![c].held = lockId,
                                     ![c].rows = lockRows, ![c].again = TRUE]
             /\ UNCHANGED <<openBatch, lockedBatch>>
    <2> DEFINE r == [call[c] EXCEPT !.pc = "emit", !.held = lockId, !.rows = lockRows,
                                    !.again = TRUE]
    <2>1. r \in CallRec /\ r.pc = "emit" /\ r.kind = call[c].kind /\ r.host = call[c].host
          /\ r.job = call[c].job /\ r.held = lockId /\ r.rows = lockRows
      BY <1>1, <1>3 DEF CallRec, Pcs
    <2>2. call' = [call EXCEPT ![c] = r]
      BY <1>1, <1>3
    <2> HIDE DEF r
    <2>3. lockId \in BatchIds /\ lockRows # {}
      BY <1>3 DEF OpenKeys
    <2>4. call' \in [Calls -> CallRec] /\ \A d \in Calls : CallShape(d)'
      BY <1>1, <2>1, <2>2, <2>3, OneCallShape DEF CallShape
    <2> QED BY <1>3, <2>4 DEF LockBatch, OpenKeys, openBatch, lockedBatch, queue, history
  <1>4. CASE /\ openId # None /\ lockId = None
             /\ lockId' = openId /\ lockRows' = openRows /\ lockExpired' = FALSE
             /\ openId' = None /\ openRows' = {} /\ rowCount' = 0
             /\ call' = [call EXCEPT ![c].pc = "emit", ![c].held = openId,
                                     ![c].rows = openRows]
    <2> DEFINE r == [call[c] EXCEPT !.pc = "emit", !.held = openId, !.rows = openRows]
    <2>1. r \in CallRec /\ r.pc = "emit" /\ r.kind = call[c].kind /\ r.host = call[c].host
          /\ r.job = call[c].job /\ r.held = openId /\ r.rows = openRows
      BY <1>1, <1>4 DEF CallRec, Pcs
    <2>2. call' = [call EXCEPT ![c] = r]
      BY <1>1, <1>4
    <2> HIDE DEF r
    <2>3. openId \in BatchIds /\ openRows # {}
      BY <1>4 DEF OpenKeys
    <2>4. call' \in [Calls -> CallRec] /\ \A d \in Calls : CallShape(d)'
      BY <1>1, <2>1, <2>2, <2>3, OneCallShape DEF CallShape
    <2> QED BY <1>4, <2>3, <2>4 DEF LockBatch, OpenKeys, queue, history
  <1> QED BY <1>2, <1>3, <1>4 DEF LockBatch

(* A closer keeps its batch when it has added it to the batch queue. *)
LEMMA TypeEmit ==
  ASSUME TypeInv, NEW c \in Calls, Emit(c)
  PROVE  TypeInv'
  <1> USE DEF TypeInv, TypeOK
  <1>1. call[c] \in CallRec /\ CallShape(c) /\ call[c].pc = "emit"
    BY DEF Emit
  <1>2. call[c].held \in BatchIds /\ call[c].rows # {} /\ call[c].rows \subseteq Jobs
    BY <1>1 DEF CallShape, Closing, CallRec
  <1> DEFINE r == [call[c] EXCEPT !.pc = "unlock"]
  <1>3. r \in CallRec /\ r.pc = "unlock" /\ r.kind = call[c].kind /\ r.host = call[c].host
        /\ r.job = call[c].job /\ r.held = call[c].held /\ r.rows = call[c].rows
    BY <1>1 DEF CallRec, Pcs
  <1>4. call' = [call EXCEPT ![c] = r]
    BY <1>1 DEF Emit
  <1> HIDE DEF r
  <1>5. call' \in [Calls -> CallRec] /\ \A d \in Calls : CallShape(d)'
    BY <1>1, <1>2, <1>3, <1>4, OneCallShape DEF CallShape
  <1>6. out' \in [BatchIds -> SUBSET Jobs]
    BY <1>2 DEF Emit
  <1> QED BY <1>5, <1>6 DEF Emit, OpenKeys, openBatch, lockedBatch, queue, history

(* closeBatch calls itself, ends, or throws, and gives up its rows in each case. *)
LEMMA NextRoundShape ==
  ASSUME TypeInv, NEW c \in Calls, call[c].pc = "unlock"
  PROVE  /\ NextRound(c) \in CallRec
         /\ NextRound(c).pc \in {"lock", "idle", "finish"}
         /\ NextRound(c).pc = "idle" <=> NextRound(c).kind = "none"
         /\ NextRound(c).kind # "none" => /\ NextRound(c).kind = call[c].kind
                                          /\ NextRound(c).host = call[c].host
                                          /\ NextRound(c).job = call[c].job
         /\ NextRound(c).pc = "finish" => NextRound(c).kind = "job"
         /\ NextRound(c).held = None /\ NextRound(c).rows = {}
  <1>1. call[c] \in CallRec /\ CallShape(c)
    BY DEF TypeInv, TypeOK
  <1>2. CASE call[c].again
    <2> DEFINE r == [call[c] EXCEPT !.pc = "lock", !.held = None, !.rows = {},
                                    !.again = FALSE]
    <2>1. r \in CallRec /\ r.pc = "lock" /\ r.kind = call[c].kind /\ r.host = call[c].host
          /\ r.job = call[c].job /\ r.held = None /\ r.rows = {}
      BY <1>1 DEF CallRec, Pcs
    <2>2. NextRound(c) = r
      BY <1>2 DEF NextRound
    <2> HIDE DEF r
    <2> QED BY <1>1, <2>1, <2>2 DEF CallShape
  <1>3. CASE ~call[c].again
    BY <1>3, ReturnedShape DEF NextRound
  <1> QED BY <1>2, <1>3

(* The next round of a closer keeps the types of everything else. *)
LEMMA TypeNextRound ==
  ASSUME TypeInv, NEW c \in Calls, call[c].pc = "unlock",
         call' = [call EXCEPT ![c] = NextRound(c)]
  PROVE  call' \in [Calls -> CallRec] /\ \A d \in Calls : CallShape(d)'
  BY NextRoundShape, OneCallShape DEF TypeInv, CallShape

(* Deleting the lock leaves no rows without an id. *)
LEMMA TypeUnlock ==
  ASSUME TypeInv, NEW c \in Calls, Unlock(c)
  PROVE  TypeInv'
  <1> USE DEF TypeInv, TypeOK
  <1>1. call' \in [Calls -> CallRec] /\ \A d \in Calls : CallShape(d)'
    BY TypeNextRound DEF Unlock
  <1> QED BY <1>1 DEF Unlock, DeleteLock, OpenKeys, openBatch, queue

(* So does a failure while deleting it. *)
LEMMA TypeUnlockFails ==
  ASSUME TypeInv, NEW c \in Calls, UnlockFails(c)
  PROVE  TypeInv'
  <1> USE DEF TypeInv, TypeOK
  <1>1. call' \in [Calls -> CallRec] /\ \A d \in Calls : CallShape(d)'
    BY TypeNextRound DEF UnlockFails
  <1>2. faults' \in Nat
    BY DEF UnlockFails, Fault
  <1>3. /\ lockId' \in BatchIds \cup {None} /\ lockRows' \subseteq Jobs /\ lockExpired' \in BOOLEAN
        /\ orphaned' \subseteq Jobs
        /\ (lockId' = None) <=> (lockRows' = {})
    BY DEF UnlockFails, DeleteLock, OpenKeys, lockedBatch
  <1> QED BY <1>1, <1>2, <1>3 DEF UnlockFails, OpenKeys, openBatch, queue

(* An interval that passes under a slow closer is a mishap and is recorded. *)
LEMMA TypeInterval ==
  ASSUME TypeInv, NEW b \in BatchIds, IntervalPassed(b)
  PROVE  faults' \in Nat /\ untimed' \subseteq BatchIds
  BY DEF TypeInv, TypeOK, IntervalPassed, Fault

(* A timeout that fires starts a closer of its own. *)
LEMMA TypeFireTimer ==
  ASSUME TypeInv, NEW c \in Calls, NEW w \in Workers, NEW b \in BatchIds, FireTimer(c, w, b)
  PROVE  TypeInv'
  <1> USE DEF TypeInv, TypeOK
  <1> DEFINE r == NewCall("lock", "timer", w, None, b)
  <1>1. r \in CallRec /\ r.pc = "lock" /\ r.kind = "timer" /\ r.host = w
        /\ r.held = None /\ r.rows = {}
    BY DEF NewCall, CallRec, Pcs
  <1>2. call' = [call EXCEPT ![c] = r]
    BY DEF FireTimer
  <1> HIDE DEF r
  <1>3. call' \in [Calls -> CallRec] /\ \A d \in Calls : CallShape(d)'
    BY <1>1, <1>2, OneCallShape
  <1>4. faults' \in Nat /\ untimed' \subseteq BatchIds
    BY TypeInterval DEF FireTimer
  <1> QED BY <1>3, <1>4 DEF FireTimer, OpenKeys, openBatch, lockedBatch, queue

(* A process that starts sets up the timeout of the open batch. *)
LEMMA TypeRestart ==
  ASSUME TypeInv, NEW c \in Calls, NEW w \in Workers, Restart(w, c)
  PROVE  TypeInv'
  <1> USE DEF TypeInv, TypeOK
  <1> DEFINE r == NewCall("setup", "boot", w, None, None)
  <1>1. r \in CallRec /\ r.pc = "setup" /\ r.kind = "boot" /\ r.host = w
        /\ r.held = None /\ r.rows = {}
    BY DEF NewCall, CallRec, Pcs
  <1>2. call' = [call EXCEPT ![c] = r]
    BY DEF Restart
  <1> HIDE DEF r
  <1>3. call' \in [Calls -> CallRec] /\ \A d \in Calls : CallShape(d)'
    BY <1>1, <1>2, OneCallShape
  <1> QED BY <1>3 DEF Restart, OpenKeys, openBatch, lockedBatch, queue, history

(* The call that does so ends or becomes a closer. *)
LEMMA TypeSetup ==
  ASSUME TypeInv, NEW c \in Calls, SetupActiveBatchTimeout(c)
  PROVE  TypeInv'
  <1> USE DEF TypeInv, TypeOK
  <1>1. call[c] \in CallRec /\ CallShape(c) /\ call[c].pc = "setup"
    BY DEF SetupActiveBatchTimeout
  <1>2. call[c].host \in Workers
    BY <1>1 DEF CallShape
  <1>3. faults' \in Nat /\ untimed' \subseteq BatchIds
    <2>1. CASE openId # None /\ IntervalPassed(openId)
      BY <2>1, TypeInterval
    <2>2. CASE UNCHANGED <<faults, untimed>>
      BY <2>2
    <2> QED BY <2>1, <2>2 DEF SetupActiveBatchTimeout
  <1>4. CASE call' = [call EXCEPT ![c] = Idle]
    <2>1. call' \in [Calls -> CallRec] /\ \A d \in Calls : CallShape(d)'
      BY <1>4, IdleCall, OneCallShape
    <2>2. timers' \subseteq Workers \X BatchIds
      BY <1>2 DEF SetupActiveBatchTimeout
    <2> QED BY <1>3, <2>1, <2>2
            DEF SetupActiveBatchTimeout, OpenKeys, openBatch, lockedBatch, queue
  <1>5. CASE /\ openId # None
             /\ call' = [call EXCEPT ![c].pc = "lock", ![c].own = openId]
             /\ UNCHANGED timers
    <2> DEFINE r == [call[c] EXCEPT !.pc = "lock", !.own = openId]
    <2>1. r \in CallRec /\ r.pc = "lock" /\ r.kind = call[c].kind /\ r.host = call[c].host
          /\ r.job = call[c].job /\ r.held = call[c].held /\ r.rows = call[c].rows
      BY <1>1 DEF CallRec, Pcs
    <2>2. call' = [call EXCEPT ![c] = r]
      BY <1>1, <1>5
    <2> HIDE DEF r
    <2>3. call' \in [Calls -> CallRec] /\ \A d \in Calls : CallShape(d)'
      BY <1>1, <2>1, <2>2, OneCallShape DEF CallShape, Closing
    <2> QED BY <1>5, <1>3, <2>3
            DEF SetupActiveBatchTimeout, OpenKeys, openBatch, lockedBatch, queue
  <1> QED BY <1>4, <1>5 DEF SetupActiveBatchTimeout

(* The age of a lock is no other variable's business. *)
LEMMA TypeLockExpires == TypeInv /\ LockExpires => TypeInv'
  BY DEF TypeInv, Fault, TypeOK, LockExpires, OpenKeys, CallShape, Closing, openBatch, queue, history

(* The calls of a set that die: what is left of them is Idle. *)
LEMMA GoneShape ==
  ASSUME TypeInv, NEW S \in SUBSET Calls,
         call' = [c \in Calls |-> IF c \in S THEN Idle ELSE call[c]]
  PROVE  call' \in [Calls -> CallRec] /\ \A d \in Calls : CallShape(d)'
  <1>1. call' \in [Calls -> CallRec]
    BY IdleCall DEF TypeInv, TypeOK
  <1>2. ASSUME NEW d \in Calls PROVE CallShape(d)'
    <2>1. CASE d \in S
      <3>1. call'[d] = Idle
        BY <2>1
      <3> QED BY <3>1, IdleCall DEF CallShape, Closing
    <2>2. CASE d \notin S
      <3>1. call'[d] = call[d]
        BY <2>2
      <3> QED BY <3>1 DEF TypeInv, CallShape, Closing
    <2> QED BY <2>1, <2>2
  <1> QED BY <1>1, <1>2

(* What calls hold are rows. *)
LEMMA RowsHeldType ==
  ASSUME TypeInv, NEW S \in SUBSET Calls
  PROVE  RowsHeldBy(S) \subseteq Jobs
  <1>1. \A c \in S : call[c].rows \subseteq Jobs
    BY DEF TypeInv, TypeOK, CallRec
  <1> QED BY <1>1 DEF RowsHeldBy

(* A process that dies leaves idle calls and jobs to be handed out again. *)
LEMMA TypeDie ==
  ASSUME TypeInv, NEW w \in Workers, NEW kind, Fault(kind), Die(w)
  PROVE  TypeInv'
  <1> USE DEF TypeInv, TypeOK
  <1> DEFINE gone == {c \in Calls : call[c].host = w}
  <1>1. call' \in [Calls -> CallRec] /\ \A d \in Calls : CallShape(d)'
    <2>1. gone \in SUBSET Calls
      OBVIOUS
    <2>2. call' = [c \in Calls |-> IF c \in gone THEN Idle ELSE call[c]]
      BY DEF Die
    <2> HIDE DEF gone
    <2> QED BY ONLY <2>1, <2>2, TypeInv, GoneShape
  <1>2. RowsHeldBy(gone) \subseteq Jobs
    BY RowsHeldType
  <1>3. owner' \in [Jobs -> Calls \cup {None}]
    BY DEF Die
  <1>4. timers' \subseteq Workers \X BatchIds /\ up' \subseteq Workers
    BY DEF Die
  <1>5. faults' \in Nat
    BY DEF Fault
  <1> QED BY <1>1, <1>2, <1>3, <1>4, <1>5 DEF Die, OpenKeys, openBatch, lockedBatch

(* So does a call that throws. *)
LEMMA TypeThrows ==
  ASSUME TypeInv, NEW c \in Calls, JobThrows(c) \/ BootThrows(c)
  PROVE  TypeInv'
  <1> USE DEF TypeInv, TypeOK
  <1>1. call' = [call EXCEPT ![c] = Idle]
    BY DEF JobThrows, BootThrows
  <1>2. call' \in [Calls -> CallRec] /\ \A d \in Calls : CallShape(d)'
    BY <1>1, IdleCall, OneCallShape
  <1>3. RowsHeldBy({c}) \subseteq Jobs
    BY RowsHeldType
  <1>4. faults' \in Nat
    BY DEF JobThrows, BootThrows, Fault
  <1>5. CASE JobThrows(c)
    <2>1. call[c].job \in Jobs
      BY <1>5 DEF JobThrows, CallShape
    <2>2. /\ jobState' \in [Jobs -> {"waiting", "active", "completed", "failed"}]
          /\ owner' \in [Jobs -> Calls \cup {None}]
      BY <1>5, <2>1 DEF JobThrows
    <2> QED BY <1>2, <1>3, <1>4, <1>5, <2>2 DEF JobThrows, OpenKeys, openBatch, lockedBatch
  <1>6. CASE BootThrows(c)
    BY <1>2, <1>3, <1>4, <1>6 DEF BootThrows, OpenKeys, openBatch, lockedBatch, queue
  <1> QED BY <1>5, <1>6

(* A job whose lock is lost waits again, and its call goes on. *)
LEMMA TypeStallJob ==
  ASSUME TypeInv, NEW j \in Jobs, StallJob(j)
  PROVE  TypeInv'
  <1> USE DEF TypeInv, TypeOK
  <1>1. faults' \in Nat
    BY DEF StallJob, Fault
  <1>2. /\ jobState' \in [Jobs -> {"waiting", "active", "completed", "failed"}]
        /\ owner' \in [Jobs -> Calls \cup {None}]
        /\ stalls' \in [Jobs -> Nat]
    BY DEF StallJob
  <1>3. \A c \in Calls : CallShape(c)'
    BY DEF StallJob, CallShape, Closing
  <1> QED BY <1>1, <1>2, <1>3 DEF StallJob, OpenKeys, openBatch, lockedBatch, history

(* Steps that change nothing. *)
LEMMA TypeStutter == TypeInv /\ UNCHANGED vars => TypeInv'
  BY DEF TypeInv, TypeOK, OpenKeys, CallShape, Closing,
         vars, openBatch, lockedBatch, queue, history

(* The types and shapes are inductive. *)
LEMMA TypeNext == TypeInv /\ [Next]_vars => TypeInv'
  <1> SUFFICES ASSUME TypeInv, [Next]_vars PROVE TypeInv'
    OBVIOUS
  <1>1. ASSUME NEW c \in Calls, CallStep(c) PROVE TypeInv'
    BY <1>1, TypeAddToBatch, TypeReply, TypeFinish, TypeLockBatch, TypeEmit, TypeUnlock,
       TypeSetup DEF CallStep
  <1>2. ASSUME NEW c \in Calls, CallFails(c) PROVE TypeInv'
    <2>1. CASE TimerThrows(c)
      <3>1. call[c].host \in Workers
        BY <2>1 DEF TimerThrows, TypeInv, CallShape
      <3> QED BY <2>1, <3>1, TypeDie DEF TimerThrows
    <2> QED BY <1>2, <2>1, TypeThrows, TypeUnlockFails DEF CallFails
  <1>3. ASSUME NEW w \in Workers, Crash(w) PROVE TypeInv'
    BY <1>3, TypeDie DEF Crash
  <1> QED BY <1>1, <1>2, <1>3, TypeStartJob, TypeFireTimer, TypeRestart, TypeStallJob,
             TypeLockExpires, TypeStutter DEF Next

(* Every variable keeps its type in every reachable state. *)
THEOREM TypeCorrect == Spec => []TypeOK
  <1>1. Spec => []TypeInv
    BY TypeInit, TypeNext, PTL DEF Spec
  <1>2. TypeInv => TypeOK
    BY DEF TypeInv
  <1> QED BY <1>1, <1>2, PTL

-----------------------------------------------------------------------------
(* The rows of a batch, wherever its id occurs.  An id is minted before it occurs       *)
(* anywhere, the open batch is neither locked nor held nor emitted, and all copies of a  *)
(* batch that has been locked have the same rows.                                        *)

CloserContent(c) ==
    /\ call[c].held \in minted
    /\ call[c].held # openId
    /\ out[call[c].held] \in {{}, call[c].rows}
    /\ call[c].pc = "unlock" => out[call[c].held] = call[c].rows
    /\ lockId = call[c].held => lockRows = call[c].rows

Content ==
    /\ openId # None => openId \in minted /\ openId # lockId /\ out[openId] = {}
    /\ lockId # None => lockId \in minted /\ out[lockId] \in {{}, lockRows}
    /\ \A b \in BatchIds : out[b] # {} => b \in minted
    /\ \A c \in Calls : Closing(c) => CloserContent(c)
    /\ \A c, d \in Calls : Closing(c) /\ Closing(d) /\ call[c].held = call[d].held
                           => call[c].rows = call[d].rows

(* A closer of the next state that did the same in this one. *)
SameCloser(c) == /\ Closing(c)
                 /\ call'[c].pc = call[c].pc
                 /\ call'[c].held = call[c].held
                 /\ call'[c].rows = call[c].rows

(* Steps that leave the batches alone; closers may die. *)
Quiet == /\ UNCHANGED <<openId, openRows, lockId, lockRows, out, minted, accepted, orphaned>>
         /\ \A c \in Calls : Closing(c)' => SameCloser(c)
         /\ \A c \in Calls : call[c].pc = "emit" =>
               (call'[c].pc = "emit" /\ SameCloser(c)) \/ call[c].rows \subseteq dropped'
         /\ dropped \subseteq dropped'

(* A step that changes no batch keeps what is said of the batches. *)
LEMMA QuietContent == TypeInv /\ Content /\ Quiet => Content'
  <1> SUFFICES ASSUME TypeInv, Content, Quiet PROVE Content'
    OBVIOUS
  <1>1. ASSUME NEW c \in Calls, Closing(c)' PROVE CloserContent(c)'
    BY <1>1 DEF Content, Quiet, SameCloser, CloserContent
  <1>2. ASSUME NEW c \in Calls, NEW d \in Calls, Closing(c)', Closing(d)',
               call'[c].held = call'[d].held
        PROVE  call'[c].rows = call'[d].rows
    BY <1>2 DEF Content, Quiet, SameCloser
  <1> QED BY <1>1, <1>2 DEF Content, Quiet

(* One call moves on without becoming a closer, and without having held a batch. *)
LEMMA OneCallQuiet ==
  ASSUME TypeInv, NEW c \in Calls, NEW r \in CallRec, call' = [call EXCEPT ![c] = r],
         r.pc \notin {"emit", "unlock"},
         UNCHANGED <<openId, openRows, lockId, lockRows, out, minted, accepted, orphaned>>,
         dropped \subseteq dropped',
         call[c].pc = "emit" => call[c].rows \subseteq dropped'
  PROVE  Quiet
  <1>1. call'[c] = r /\ \A d \in Calls : d # c => call'[d] = call[d]
    BY DEF TypeInv, TypeOK
  <1> QED BY <1>1 DEF Quiet, SameCloser, Closing

(* A process that dies changes no batch. *)
LEMMA DieQuiet ==
  ASSUME TypeInv, NEW w \in Workers, Die(w)
  PROVE  Quiet
  <1> DEFINE gone == {c \in Calls : call[c].host = w}
  <1>1. /\ \A c \in Calls : c \notin gone => call'[c] = call[c]
        /\ \A c \in Calls : c \in gone => call'[c] = Idle
        /\ dropped' = dropped \cup RowsHeldBy(gone)
    BY DEF Die
  <1>2. \A c \in Calls : c \in gone /\ call[c].pc = "emit" => call[c].rows \subseteq dropped'
    BY <1>1 DEF RowsHeldBy
  <1>3. UNCHANGED <<openId, openRows, lockId, lockRows, out, minted, accepted, orphaned>>
    BY DEF Die, openBatch, lockedBatch
  <1> HIDE DEF gone
  <1> QED BY <1>1, <1>2, <1>3, IdleCall DEF Quiet, SameCloser, Closing

(* A call that throws changes no batch. *)
LEMMA ThrowsQuiet ==
  ASSUME TypeInv, NEW c \in Calls, JobThrows(c) \/ BootThrows(c)
  PROVE  Quiet
  <1>1. /\ call' = [call EXCEPT ![c] = Idle]
        /\ UNCHANGED <<openId, openRows, lockId, lockRows, out, minted, accepted, orphaned>>
        /\ dropped' = dropped \cup RowsHeldBy({c})
    BY DEF JobThrows, BootThrows, openBatch, lockedBatch
  <1>2. call[c].pc = "emit" => call[c].rows \subseteq dropped'
    BY <1>1 DEF RowsHeldBy
  <1> QED BY <1>1, <1>2, IdleCall, OneCallQuiet

(* The steps that are quiet: all but those of addToBatch, lockBatch, Emit and Unlock. *)
QuietStep ==
    \/ \E c \in Calls : \/ Reply(c) \/ Finish(c) \/ SetupActiveBatchTimeout(c)
                        \/ JobThrows(c) \/ BootThrows(c) \/ TimerThrows(c)
                        \/ LockBatch(c) /\ call' = [call EXCEPT ![c] = Returned(c)]
    \/ \E c \in Calls, w \in Workers, j \in Jobs : StartJob(c, w, j)
    \/ \E c \in Calls, w \in Workers, b \in BatchIds : FireTimer(c, w, b)
    \/ \E c \in Calls, w \in Workers : Restart(w, c)
    \/ \E w \in Workers : Crash(w)
    \/ \E j \in Jobs : StallJob(j)
    \/ LockExpires
    \/ UNCHANGED vars

(* None of the quiet steps changes a batch. *)
LEMMA QuietSteps == TypeInv /\ TypeInv' /\ QuietStep => Quiet
  <1> SUFFICES ASSUME TypeInv, TypeInv', QuietStep PROVE Quiet
    OBVIOUS
  <1> DEFINE Frame == /\ UNCHANGED <<openId, openRows, lockId, lockRows, out>>
                      /\ UNCHANGED <<minted, accepted, orphaned, dropped>>
  <1>1. ASSUME NEW c \in Calls, NEW r \in CallRec, call' = [call EXCEPT ![c] = r],
               r.pc \notin {"emit", "unlock"}, call[c].pc # "emit", Frame
        PROVE  Quiet
    BY <1>1, OneCallQuiet
  <1>2. ASSUME UNCHANGED call, Frame PROVE Quiet
    BY <1>2 DEF Quiet, SameCloser, Closing
  <1>3. ASSUME NEW c \in Calls, Reply(c) PROVE Quiet
    <2>1. Frame /\ call[c].pc = "reply"
      BY <1>3 DEF Reply, openBatch, lockedBatch, history
    <2>2. CASE call' = [call EXCEPT ![c] = Returned(c)]
      BY <1>1, <2>1, <2>2, ReturnedShape
    <2>3. CASE call' = [call EXCEPT ![c].pc = "lock", ![c].count = 0]
      <3> DEFINE r == [call[c] EXCEPT !.pc = "lock", !.count = 0]
      <3> call[c] \in CallRec
        BY DEF TypeInv, TypeOK
      <3>1. r \in CallRec /\ r.pc = "lock"
        BY DEF CallRec, Pcs
      <3>2. call' = [call EXCEPT ![c] = r]
        BY <2>3 DEF TypeInv, TypeOK
      <3> HIDE DEF r
      <3> QED BY <1>1, <2>1, <3>1, <3>2
    <2> QED BY <1>3, <2>2, <2>3 DEF Reply
  <1>4. ASSUME NEW c \in Calls, Finish(c) PROVE Quiet
    <2>1. Frame /\ call[c].pc = "finish" /\ call' = [call EXCEPT ![c] = Idle]
      BY <1>4 DEF Finish, openBatch, lockedBatch, history
    <2> QED BY <1>1, <2>1, IdleCall
  <1>5. ASSUME NEW c \in Calls, SetupActiveBatchTimeout(c) PROVE Quiet
    <2>1. Frame /\ call[c].pc = "setup"
      BY <1>5 DEF SetupActiveBatchTimeout, openBatch, lockedBatch, history
    <2>2. CASE call' = [call EXCEPT ![c] = Idle]
      BY <1>1, <2>1, <2>2, IdleCall
    <2>3. CASE call' = [call EXCEPT ![c].pc = "lock", ![c].own = openId]
      <3> DEFINE r == [call[c] EXCEPT !.pc = "lock", !.own = openId]
      <3> call[c] \in CallRec /\ openId \in BatchIds \cup {None}
        BY DEF TypeInv, TypeOK
      <3>1. r \in CallRec /\ r.pc = "lock"
        BY DEF CallRec, Pcs
      <3>2. call' = [call EXCEPT ![c] = r]
        BY <2>3 DEF TypeInv, TypeOK
      <3> HIDE DEF r
      <3> QED BY <1>1, <2>1, <3>1, <3>2
    <2> QED BY <1>5, <2>2, <2>3 DEF SetupActiveBatchTimeout
  <1>6. ASSUME NEW c \in Calls, LockBatch(c), call' = [call EXCEPT ![c] = Returned(c)]
        PROVE  Quiet
    <2>1. Returned(c) \in CallRec /\ Returned(c).pc \in {"idle", "finish"}
      BY ReturnedShape
    <2>2. call'[c].pc # "emit" /\ call[c].pc = "lock"
      BY <1>6, <2>1 DEF LockBatch, TypeInv, TypeOK
    <2>3. UNCHANGED <<openBatch, lockedBatch>>
      <3>1. CASE /\ lockId' = openId
                 /\ call' = [call EXCEPT ![c].pc = "emit", ![c].held = openId,
                                         ![c].rows = openRows]
        <4>1. call'[c].pc = "emit"
          BY <3>1 DEF TypeInv, TypeOK, CallRec
        <4> QED BY <2>2, <4>1
      <3> QED BY <1>6, <3>1 DEF LockBatch
    <2>4. Frame
      BY <1>6, <2>3 DEF LockBatch, openBatch, lockedBatch, history
    <2> QED BY <1>1, <1>6, <2>1, <2>2, <2>4
  <1>7. ASSUME NEW c \in Calls, NEW w \in Workers, NEW j \in Jobs, StartJob(c, w, j)
        PROVE  Quiet
    <2> DEFINE r == NewCall("add", "job", w, j, None)
    <2>1. r \in CallRec /\ r.pc = "add"
      BY DEF NewCall, CallRec, Pcs
    <2>2. Frame /\ call' = [call EXCEPT ![c] = r] /\ call[c] = Idle
      BY <1>7 DEF StartJob, openBatch, lockedBatch, history
    <2> HIDE DEF r
    <2> QED BY <1>1, <2>1, <2>2, IdleCall
  <1>8. ASSUME NEW c \in Calls, NEW w \in Workers, NEW b \in BatchIds, FireTimer(c, w, b)
        PROVE  Quiet
    <2> DEFINE r == NewCall("lock", "timer", w, None, b)
    <2>1. r \in CallRec /\ r.pc = "lock"
      BY DEF NewCall, CallRec, Pcs
    <2>2. Frame /\ call' = [call EXCEPT ![c] = r] /\ call[c] = Idle
      BY <1>8 DEF FireTimer, openBatch, lockedBatch, history
    <2> HIDE DEF r
    <2> QED BY <1>1, <2>1, <2>2, IdleCall
  <1>9. ASSUME NEW c \in Calls, NEW w \in Workers, Restart(w, c)
        PROVE  Quiet
    <2> DEFINE r == NewCall("setup", "boot", w, None, None)
    <2>1. r \in CallRec /\ r.pc = "setup"
      BY DEF NewCall, CallRec, Pcs
    <2>2. Frame /\ call' = [call EXCEPT ![c] = r] /\ call[c] = Idle
      BY <1>9 DEF Restart, openBatch, lockedBatch, history
    <2> HIDE DEF r
    <2> QED BY <1>1, <2>1, <2>2, IdleCall
  <1>10. ASSUME NEW c \in Calls, TimerThrows(c) PROVE Quiet
    <2>1. call[c].host \in Workers
      BY <1>10 DEF TimerThrows, TypeInv, CallShape
    <2> QED BY <1>10, <2>1, DieQuiet DEF TimerThrows
  <1>11. ASSUME NEW w \in Workers, Crash(w) PROVE Quiet
    BY <1>11, DieQuiet DEF Crash
  <1>12. ASSUME NEW j \in Jobs, StallJob(j) PROVE Quiet
    BY <1>2, <1>12 DEF StallJob, openBatch, lockedBatch, history
  <1>13. CASE LockExpires
    BY <1>2, <1>13 DEF LockExpires, openBatch, history
  <1>14. CASE UNCHANGED vars
    BY <1>2, <1>14 DEF vars, openBatch, lockedBatch, history
  <1> HIDE DEF Frame
  <1> QED BY <1>3, <1>4, <1>5, <1>6, <1>7, <1>8, <1>9, <1>10, <1>11, <1>12, <1>13, <1>14,
             ThrowsQuiet DEF QuietStep

(* The other steps, named for what they do to the batches. *)
TakesOver(c) == /\ LockBatch(c)
                /\ openId # None /\ lockId # None /\ lockExpired
                /\ call' = [call EXCEPT ![c].pc = "emit", ![c].held = lockId,
                                        ![c].rows = lockRows, ![c].again = TRUE]
                /\ UNCHANGED <<openBatch, lockedBatch>>

LocksOpen(c) == /\ LockBatch(c)
                /\ openId # None /\ lockId = None
                /\ lockId' = openId /\ lockRows' = openRows
                /\ openId' = None /\ openRows' = {}
                /\ call' = [call EXCEPT ![c].pc = "emit", ![c].held = openId,
                                        ![c].rows = openRows]

(* Every step is quiet, or does one of six things to the rows. *)
LEMMA StepCases ==
  [Next]_vars => \/ QuietStep
                 \/ \E c \in Calls : \/ AddToBatch(c) \/ TakesOver(c) \/ LocksOpen(c)
                                     \/ Emit(c) \/ Unlock(c) \/ UnlockFails(c)
  <1> SUFFICES ASSUME [Next]_vars
               PROVE  \/ QuietStep
                      \/ \E c \in Calls : \/ AddToBatch(c) \/ TakesOver(c) \/ LocksOpen(c)
                                          \/ Emit(c) \/ Unlock(c) \/ UnlockFails(c)
    OBVIOUS
  <1>1. ASSUME NEW c \in Calls, LockBatch(c)
        PROVE  call' = [call EXCEPT ![c] = Returned(c)] \/ TakesOver(c) \/ LocksOpen(c)
    BY <1>1 DEF LockBatch, TakesOver, LocksOpen
  <1>2. ASSUME NEW c \in Calls, CallStep(c)
        PROVE  \/ QuietStep
               \/ AddToBatch(c) \/ TakesOver(c) \/ LocksOpen(c) \/ Emit(c) \/ Unlock(c)
    BY <1>1, <1>2 DEF CallStep, QuietStep
  <1>3. ASSUME NEW c \in Calls, CallFails(c)
        PROVE  QuietStep \/ UnlockFails(c)
    BY <1>3 DEF CallFails, QuietStep
  <1>4. ASSUME Next
        PROVE  \/ QuietStep
               \/ \E c \in Calls : CallStep(c) \/ CallFails(c)
    BY <1>4 DEF Next, QuietStep
  <1> QED BY <1>2, <1>3, <1>4 DEF QuietStep

(* What the step of a closer does to the closers of the next state. *)
LEMMA TakesOverEffect ==
  ASSUME TypeInv, NEW c \in Calls, TakesOver(c)
  PROVE  /\ call'[c].pc = "emit" /\ call'[c].held = lockId /\ call'[c].rows = lockRows
         /\ \A d \in Calls : d # c => call'[d] = call[d]
         /\ lockId \in BatchIds /\ call[c].pc = "lock"
         /\ UNCHANGED <<openId, openRows, lockId, lockRows, out, minted, accepted, orphaned,
                        dropped>>
  <1>1. lockId \in BatchIds
    BY DEF TakesOver, TypeInv, TypeOK
  <1>2. UNCHANGED <<openId, openRows, lockId, lockRows, out, minted, accepted, orphaned, dropped>>
    BY DEF TakesOver, LockBatch, openBatch, lockedBatch, history
  <1>3. /\ call'[c].pc = "emit" /\ call'[c].held = lockId /\ call'[c].rows = lockRows
        /\ \A d \in Calls : d # c => call'[d] = call[d]
    BY DEF TakesOver, TypeInv, TypeOK, CallRec
  <1> QED BY <1>1, <1>2, <1>3 DEF TakesOver, LockBatch

(* A closer that locks the open batch has its rows, as has the lock. *)
LEMMA LocksOpenEffect ==
  ASSUME TypeInv, NEW c \in Calls, LocksOpen(c)
  PROVE  /\ call'[c].pc = "emit" /\ call'[c].held = openId /\ call'[c].rows = openRows
         /\ \A d \in Calls : d # c => call'[d] = call[d]
         /\ openId \in BatchIds /\ call[c].pc = "lock"
         /\ UNCHANGED <<out, minted, accepted, orphaned, dropped>>
  <1>1. openId \in BatchIds
    BY DEF LocksOpen, TypeInv, TypeOK
  <1>2. UNCHANGED <<out, minted, accepted, orphaned, dropped>>
    BY DEF LocksOpen, LockBatch, history
  <1>3. /\ call'[c].pc = "emit" /\ call'[c].held = openId /\ call'[c].rows = openRows
        /\ \A d \in Calls : d # c => call'[d] = call[d]
    BY DEF LocksOpen, TypeInv, TypeOK, CallRec
  <1> QED BY <1>1, <1>2, <1>3 DEF LocksOpen, LockBatch

(* A batch enters the batch queue unless its id is there already. *)
LEMMA EmitEffect ==
  ASSUME TypeInv, NEW c \in Calls, Emit(c)
  PROVE  /\ call'[c].pc = "unlock" /\ call'[c].held = call[c].held
         /\ call'[c].rows = call[c].rows
         /\ \A d \in Calls : d # c => call'[d] = call[d]
         /\ call[c].held \in BatchIds /\ call[c].pc = "emit" /\ call[c].rows # {}
         /\ out' = [out EXCEPT ![call[c].held] = IF @ = {} THEN call[c].rows ELSE @]
         /\ UNCHANGED <<openId, openRows, lockId, lockRows, minted, accepted, orphaned, dropped>>
  <1>1. call[c].held \in BatchIds /\ call[c].pc = "emit" /\ call[c].rows # {}
    BY DEF Emit, TypeInv, CallShape, Closing
  <1>2. /\ call'[c].pc = "unlock" /\ call'[c].held = call[c].held
        /\ call'[c].rows = call[c].rows
        /\ \A d \in Calls : d # c => call'[d] = call[d]
    BY DEF Emit, TypeInv, TypeOK, CallRec
  <1> QED BY <1>1, <1>2 DEF Emit, openBatch, lockedBatch, history

(* An unlocking deletes the lock, perhaps another batch's, or has no effect. *)
LEMMA UnlockEffect ==
  ASSUME TypeInv, NEW c \in Calls, Unlock(c) \/ UnlockFails(c)
  PROVE  /\ call'[c].pc \notin {"emit", "unlock"}
         /\ \A d \in Calls : d # c => call'[d] = call[d]
         /\ call[c].pc = "unlock"
         /\ \/ /\ lockId' = None /\ lockRows' = {}
               /\ orphaned' = orphaned \cup (IF lockId = call[c].held THEN {} ELSE lockRows)
            \/ UNCHANGED <<lockId, lockRows, orphaned>>
         /\ UNCHANGED <<openId, openRows, out, minted, accepted, dropped>>
  <1>1. call[c].pc = "unlock" /\ call' = [call EXCEPT ![c] = NextRound(c)]
    BY DEF Unlock, UnlockFails
  <1>2. call'[c] = NextRound(c) /\ \A d \in Calls : d # c => call'[d] = call[d]
    BY <1>1 DEF TypeInv, TypeOK
  <1>3. NextRound(c).pc \notin {"emit", "unlock"}
    BY <1>1, NextRoundShape
  <1> QED BY <1>1, <1>2, <1>3
          DEF Unlock, UnlockFails, DeleteLock, openBatch, lockedBatch, history

(* A row is added to the open batch, which is new or is not. *)
LEMMA AddToBatchEffect ==
  ASSUME TypeInv, NEW c \in Calls, AddToBatch(c)
  PROVE  /\ call'[c].pc = "reply" /\ call[c].pc = "add"
         /\ call[c].job \in Jobs /\ call[c].kind = "job"
         /\ \A d \in Calls : d # c => call'[d] = call[d]
         /\ openRows' = openRows \cup {call[c].job}
         /\ accepted' = accepted \cup {call[c].job}
         /\ UNCHANGED <<lockId, lockRows, out, orphaned, dropped>>
         /\ \/ /\ openId = None /\ openRows = {}
               /\ openId' \in BatchIds \ minted /\ minted' = minted \cup {openId'}
            \/ openId # None /\ UNCHANGED <<openId, minted>>
  <1>1. call[c].pc = "add" /\ call[c].kind = "job" /\ call[c].job \in Jobs
    BY DEF AddToBatch, TypeInv, CallShape
  <1>2. /\ call'[c].pc = "reply"
        /\ \A d \in Calls : d # c => call'[d] = call[d]
    BY DEF AddToBatch, OpenNewBatch, JoinOpenBatch, TypeInv, TypeOK, CallRec
  <1>3. OpenNewBatch(c) => FreshId \in BatchIds \ minted
    BY DEF OpenNewBatch, FreshId
  <1> QED BY <1>1, <1>2, <1>3
          DEF AddToBatch, OpenNewBatch, JoinOpenBatch, lockedBatch, TypeInv, OpenKeys

(* At the start there are no batches. *)
LEMMA ContentInit == Init => Content
  BY IdleCall DEF Init, Content, Closing

(* The batches of closers. *)
LEMMA HeldTypes ==
  ASSUME TypeInv
  PROVE  /\ \A c \in Calls : Closing(c) => /\ call[c].held \in BatchIds
                                           /\ call[c].held # None
                                           /\ call[c].rows # {}
                                           /\ call[c].rows \subseteq Jobs
         /\ \A c \in Calls : ~Closing(c) => call[c].rows = {}
         /\ minted \subseteq BatchIds /\ None \notin BatchIds
  BY DEF TypeInv, TypeOK, CallShape, CallRec

(* All copies of a batch stay equal. *)
LEMMA ContentNext ==
  ASSUME TypeInv, TypeInv', Content, [Next]_vars
  PROVE  Content'
  <1> USE HeldTypes
  <1>1. ASSUME NEW c \in Calls, AddToBatch(c) PROVE Content'
    <2>1. \A d \in Calls : Closing(d)' => d # c /\ Closing(d) /\ call'[d] = call[d]
      BY <1>1, AddToBatchEffect DEF Closing
    <2>2. ASSUME NEW d \in Calls, Closing(d)' PROVE CloserContent(d)'
      BY <1>1, <2>1, <2>2, AddToBatchEffect DEF Content, CloserContent
    <2>3. ASSUME NEW d \in Calls, NEW e \in Calls, Closing(d)', Closing(e)',
                 call'[d].held = call'[e].held
          PROVE  call'[d].rows = call'[e].rows
      BY <2>1, <2>3 DEF Content
    <2>4. openId' # None => openId' \in minted' /\ openId' # lockId' /\ out'[openId'] = {}
      BY <1>1, AddToBatchEffect DEF Content
    <2>5. lockId' # None => lockId' \in minted' /\ out'[lockId'] \in {{}, lockRows'}
      BY <1>1, AddToBatchEffect DEF Content
    <2>6. \A b \in BatchIds : out'[b] # {} => b \in minted'
      BY <1>1, AddToBatchEffect DEF Content
    <2> QED BY <2>2, <2>3, <2>4, <2>5, <2>6 DEF Content
  <1>2. ASSUME NEW c \in Calls, TakesOver(c) PROVE Content'
    <2>1. /\ \A d \in Calls : Closing(d)' /\ d # c => Closing(d) /\ call'[d] = call[d]
          /\ call'[c].pc = "emit" /\ call'[c].held = lockId /\ call'[c].rows = lockRows
      BY <1>2, TakesOverEffect DEF Closing
    <2>2. ASSUME NEW d \in Calls, Closing(d)' PROVE CloserContent(d)'
      BY <1>2, <2>1, <2>2, TakesOverEffect DEF Content, CloserContent
    <2>3. ASSUME NEW d \in Calls, NEW e \in Calls, Closing(d)', Closing(e)',
                 call'[d].held = call'[e].held
          PROVE  call'[d].rows = call'[e].rows
      BY <2>1, <2>3, HeldTypes DEF Content, CloserContent
    <2> QED BY <1>2, <2>2, <2>3, TakesOverEffect DEF Content
  <1>3. ASSUME NEW c \in Calls, LocksOpen(c) PROVE Content'
    <2>1. /\ \A d \in Calls : Closing(d)' /\ d # c => Closing(d) /\ call'[d] = call[d]
          /\ call'[c].pc = "emit" /\ call'[c].held = openId /\ call'[c].rows = openRows
          /\ openId # None /\ lockId' = openId /\ lockRows' = openRows /\ openId' = None
          /\ openRows' = {}
      BY <1>3, LocksOpenEffect DEF Closing, LocksOpen
    <2>2. ASSUME NEW d \in Calls, Closing(d)' PROVE CloserContent(d)'
      BY <1>3, <2>1, <2>2, LocksOpenEffect DEF Content, CloserContent
    <2>3. ASSUME NEW d \in Calls, NEW e \in Calls, Closing(d)', Closing(e)',
                 call'[d].held = call'[e].held
          PROVE  call'[d].rows = call'[e].rows
      BY <2>1, <2>3 DEF Content, CloserContent
    <2> QED BY <1>3, <2>1, <2>2, <2>3, LocksOpenEffect DEF Content
  <1>4. ASSUME NEW c \in Calls, Emit(c) PROVE Content'
    <2>1. /\ \A d \in Calls : /\ Closing(d)' <=> Closing(d)
                              /\ call'[d].held = call[d].held
                              /\ call'[d].rows = call[d].rows
                              /\ d # c => call'[d] = call[d]
          /\ Closing(c)
      BY <1>4, EmitEffect DEF Closing
    <2>2. /\ out'[call[c].held] = call[c].rows
          /\ \A b \in BatchIds : b # call[c].held => out'[b] = out[b]
      BY <1>4, <2>1, EmitEffect DEF Content, CloserContent, TypeInv, TypeOK
    <2>3. ASSUME NEW d \in Calls, Closing(d)' PROVE CloserContent(d)'
      <3>1. CASE call[d].held = call[c].held
        BY <1>4, <2>1, <2>2, <2>3, <3>1, EmitEffect DEF Content, CloserContent
      <3>2. CASE call[d].held # call[c].held
        BY <1>4, <2>1, <2>2, <2>3, <3>2, EmitEffect DEF Content, CloserContent
      <3> QED BY <3>1, <3>2
    <2>4. ASSUME NEW d \in Calls, NEW e \in Calls, Closing(d)', Closing(e)',
                 call'[d].held = call'[e].held
          PROVE  call'[d].rows = call'[e].rows
      BY <2>1, <2>4 DEF Content
    <2>5. lockId' # None => lockId' \in minted' /\ out'[lockId'] \in {{}, lockRows'}
      BY <1>4, <2>1, <2>2, EmitEffect DEF Content, CloserContent
    <2>6. openId' # None => openId' \in minted' /\ openId' # lockId' /\ out'[openId'] = {}
      BY <1>4, <2>1, <2>2, EmitEffect DEF Content, CloserContent
    <2>7. \A b \in BatchIds : out'[b] # {} => b \in minted'
      BY <1>4, <2>1, <2>2, EmitEffect DEF Content, CloserContent
    <2> QED BY <2>3, <2>4, <2>5, <2>6, <2>7 DEF Content
  <1>5. ASSUME NEW c \in Calls, Unlock(c) \/ UnlockFails(c) PROVE Content'
    <2>1. \A d \in Calls : Closing(d)' => d # c /\ Closing(d) /\ call'[d] = call[d]
      BY <1>5, UnlockEffect DEF Closing
    <2>2. ASSUME NEW d \in Calls, Closing(d)' PROVE CloserContent(d)'
      BY <1>5, <2>1, <2>2, UnlockEffect DEF Content, CloserContent
    <2>3. ASSUME NEW d \in Calls, NEW e \in Calls, Closing(d)', Closing(e)',
                 call'[d].held = call'[e].held
          PROVE  call'[d].rows = call'[e].rows
      BY <2>1, <2>3 DEF Content
    <2> QED BY <1>5, <2>2, <2>3, UnlockEffect DEF Content
  <1> QED BY <1>1, <1>2, <1>3, <1>4, <1>5, StepCases, QuietSteps, QuietContent

(* Deduplication by batch id loses nothing, whatever closers overlap and die. *)
THEOREM DedupSafety == Spec => []DedupIsSafe
  <1>1. Init => TypeInv /\ Content
    BY TypeInit, ContentInit
  <1>2. TypeInv /\ Content /\ [Next]_vars => (TypeInv /\ Content)'
    BY TypeNext, ContentNext
  <1>3. TypeInv /\ Content => DedupIsSafe
    BY HeldTypes DEF Content, CloserContent, DedupIsSafe
  <1> QED BY <1>1, <1>2, <1>3, PTL DEF Spec

-----------------------------------------------------------------------------
(* Where a stored row is.  A locked row is never only in Redis: it is also with a closer *)
(* that will emit it, or has been emitted, or was with one that died.                    *)

Safe == OutRows \cup HeldRows \cup dropped

Custody ==
    /\ lockRows \subseteq Safe
    /\ LossNeedsTwoMishaps

(* Rows in the batch queue and in closers, element by element. *)
LEMMA RowSets ==
  /\ \A j : j \in OutRows <=> \E b \in BatchIds : j \in out[b]
  /\ \A j : j \in HeldRows <=> \E c \in Calls : call[c].pc = "emit" /\ j \in call[c].rows
  BY DEF OutRows, HeldRows

(* The same of the next state. *)
LEMMA RowSetsPrimed ==
  /\ \A j : j \in OutRows' <=> \E b \in BatchIds : j \in out'[b]
  /\ \A j : j \in HeldRows' <=> \E c \in Calls : call'[c].pc = "emit" /\ j \in call'[c].rows
  BY DEF OutRows, HeldRows

(* Nothing emitted is taken back, and what a closer holds is emitted or dropped. *)
LEMMA SafeGrows ==
  ASSUME TypeInv, TypeInv', Content, [Next]_vars
  PROVE  OutRows \subseteq OutRows' /\ Safe \subseteq Safe'
  <1> USE RowSets, RowSetsPrimed
  <1>1. ASSUME Quiet PROVE OutRows \subseteq OutRows' /\ Safe \subseteq Safe'
    BY <1>1 DEF Quiet, SameCloser, Safe
  <1>2. ASSUME NEW c \in Calls, AddToBatch(c)
        PROVE  OutRows \subseteq OutRows' /\ Safe \subseteq Safe'
    BY <1>2, AddToBatchEffect DEF Safe
  <1>3. ASSUME NEW c \in Calls, TakesOver(c)
        PROVE  OutRows \subseteq OutRows' /\ Safe \subseteq Safe'
    BY <1>3, TakesOverEffect DEF Safe
  <1>4. ASSUME NEW c \in Calls, LocksOpen(c)
        PROVE  OutRows \subseteq OutRows' /\ Safe \subseteq Safe'
    BY <1>4, LocksOpenEffect DEF Safe
  <1>5. ASSUME NEW c \in Calls, Emit(c)
        PROVE  OutRows \subseteq OutRows' /\ Safe \subseteq Safe'
    <2>1. /\ out'[call[c].held] = call[c].rows
          /\ \A b \in BatchIds : out[b] \subseteq out'[b]
          /\ call[c].held \in BatchIds
      BY <1>5, EmitEffect DEF Content, CloserContent, Closing, TypeInv, TypeOK
    <2>2. OutRows \subseteq OutRows' /\ call[c].rows \subseteq OutRows'
      BY <2>1
    <2>3. \A j \in HeldRows : j \in call[c].rows \/ j \in HeldRows'
      BY <1>5, EmitEffect
    <2> QED BY <1>5, <2>2, <2>3, EmitEffect DEF Safe
  <1>6. ASSUME NEW c \in Calls, Unlock(c) \/ UnlockFails(c)
        PROVE  OutRows \subseteq OutRows' /\ Safe \subseteq Safe'
    BY <1>6, UnlockEffect DEF Safe
  <1> QED BY <1>1, <1>2, <1>3, <1>4, <1>5, <1>6, StepCases, QuietSteps

(* At the start there are no rows. *)
LEMMA CustodyInit == Init => Custody
  BY DEF Init, Custody, LossNeedsTwoMishaps

(* No step loses a row but the two mishaps. *)
LEMMA CustodyNext ==
  ASSUME TypeInv, TypeInv', Content, Custody, [Next]_vars
  PROVE  Custody'
  <1>1. OutRows \subseteq OutRows' /\ Safe \subseteq Safe'
    BY SafeGrows
  <1> DEFINE Redis == openRows \cup lockRows \cup OutRows
  (* It is enough that a row leaves Redis by an orphaning, and enters it otherwise. *)
  <1>2. ASSUME lockRows' \subseteq lockRows \/ lockRows' \subseteq Safe',
               orphaned \subseteq orphaned',
               \A j \in accepted' : j \in accepted \/ j \in openRows',
               \A j \in Redis : j \in Redis' \/ (j \in orphaned' /\ j \in Safe')
        PROVE  Custody'
    <2>1. lockRows' \subseteq Safe'
      BY <1>1, <1>2 DEF Custody
    <2>2. ASSUME NEW j \in accepted', j \notin Redis'
          PROVE  j \in orphaned' /\ j \in HeldRows' \cup dropped'
      <3>1. j \in accepted /\ j \notin OutRows'
        BY <1>2, <2>2
      <3>2. j \in Redis => j \in orphaned' /\ j \in Safe'
        BY <1>2, <2>2
      <3>3. j \notin Redis => j \in orphaned /\ j \in Safe
        BY <3>1 DEF Custody, LossNeedsTwoMishaps, Safe
      <3>4. j \in orphaned' /\ j \in Safe'
        BY <1>1, <1>2, <3>2, <3>3
      <3> QED BY <3>1, <3>4 DEF Safe
    <2> QED BY <2>1, <2>2 DEF Custody, LossNeedsTwoMishaps
  <1>3. CASE Quiet
    BY <1>1, <1>2, <1>3 DEF Quiet
  <1>4. ASSUME NEW c \in Calls, AddToBatch(c) PROVE Custody'
    BY <1>1, <1>2, <1>4, AddToBatchEffect
  <1>5. ASSUME NEW c \in Calls, TakesOver(c) PROVE Custody'
    BY <1>1, <1>2, <1>5, TakesOverEffect
  <1>6. ASSUME NEW c \in Calls, LocksOpen(c) PROVE Custody'
    <2>1. lockRows' = openRows /\ lockRows = {}
      BY <1>6 DEF LocksOpen, TypeInv, OpenKeys
    <2>2. lockRows' \subseteq Safe'
      BY <1>6, <2>1, LocksOpenEffect, RowSetsPrimed DEF Safe
    <2> QED BY <1>1, <1>2, <1>6, <2>1, <2>2, LocksOpenEffect
  <1>7. ASSUME NEW c \in Calls, Emit(c) PROVE Custody'
    BY <1>1, <1>2, <1>7, EmitEffect
  <1>8. ASSUME NEW c \in Calls, Unlock(c) \/ UnlockFails(c) PROVE Custody'
    <2>1. lockId = call[c].held => lockRows \subseteq OutRows
      BY <1>8, UnlockEffect, HeldTypes, RowSets DEF Content, CloserContent, Closing
    <2>2. lockRows \subseteq Safe'
      BY <1>1 DEF Custody
    <2> QED BY <1>1, <1>2, <1>8, <2>1, <2>2, UnlockEffect
  <1> QED BY <1>3, <1>4, <1>5, <1>6, <1>7, <1>8, StepCases, QuietSteps

(* A stored row can only be lost if its lock is deleted by a closer of another batch and *)
(* the closer that holds it dies: never by one mishap alone.                             *)
THEOREM CustodySafety == Spec => []LossNeedsTwoMishaps
  <1>1. Init => TypeInv /\ Content /\ Custody
    BY TypeInit, ContentInit, CustodyInit
  <1>2. TypeInv /\ Content /\ Custody /\ [Next]_vars => (TypeInv /\ Content /\ Custody)'
    BY TypeNext, ContentNext, CustodyNext
  <1>3. Custody => LossNeedsTwoMishaps
    BY DEF Custody
  <1> QED BY <1>1, <1>2, <1>3, PTL DEF Spec

-----------------------------------------------------------------------------
(* Who watches the open batch.  Its timeout fires or has been set, or somebody is about to *)
(* set it; or it has fired, and then every closer has taken its lock over from another one *)
(* and will come back for the open batch.                                                  *)

AllAgain == \A d \in Calls : Closing(d) => call[d].again

Timed == \/ \E w \in Workers : <<w, openId>> \in timers
         \/ \E c \in Calls : call[c].pc = "reply" /\ call[c].own = openId
         \/ \E c \in Calls : call[c].pc = "setup"

InTurn == AllAgain /\ (lockId # None \/ \E c \in Calls : call[c].pc = "lock")

(* Nobody closes a batch on its timeout while a closer is at work that will not come back. *)
Punctual(c) == call[c].pc \in {"lock", "emit", "unlock"} /\ call[c].own = openId
               /\ openId \notin untimed \cup {None} => AllAgain

OwnShape(c) ==
    /\ call[c].own # None => \/ call[c].kind # "job"
                             \/ call[c].pc = "reply" /\ call[c].count = 1
    /\ call[c].own \in minted \cup {None}
    /\ call[c].again => Closing(c)
    /\ call[c].pc = "setup" => call[c].kind # "job"

Owns == /\ \A c \in Calls : OwnShape(c) /\ Punctual(c)
        /\ \A w \in Workers, b \in BatchIds : <<w, b>> \in timers => b \in minted

WatchInv == openId \notin untimed \cup {None} /\ up = Workers => Timed \/ InTurn

(* Call c becomes a call that closes nothing and has no batch of its own. *)
Leaves(c) == /\ call'[c].pc \in {"idle", "finish"} /\ call'[c].own = None /\ ~call'[c].again
             /\ \A d \in Calls : d # c => call'[d] = call[d]

(* The batches of the step: the open one stays the open one. *)
SameBatch == /\ openId' = openId /\ minted' = minted /\ untimed \subseteq untimed'

(* The calls' shape when one of them changes and no closer starts that will not come back. *)
LEMMA OwnsKept ==
  ASSUME TypeInv, Owns, NEW c \in Calls,
         \A d \in Calls : d # c => call'[d] = call[d],
         SameBatch, OwnShape(c)',
         Closing(c)' => call'[c].again \/ (Closing(c) /\ ~call[c].again),
         \/ call'[c].own # openId \/ call'[c].pc \notin {"lock", "emit", "unlock"}
         \/ call[c].own = openId /\ call[c].pc \in {"lock", "emit", "unlock"}
         \/ AllAgain
         \/ openId \in untimed' \cup {None},
         \A w \in Workers, b \in BatchIds : <<w, b>> \in timers' => b \in minted
  PROVE  Owns' /\ (AllAgain => AllAgain')
  <1>1. AllAgain => AllAgain'
    BY DEF AllAgain, Closing
  <1>2. ASSUME NEW d \in Calls PROVE OwnShape(d)' /\ Punctual(d)'
    <2>1. CASE d = c
      BY <1>1, <2>1 DEF Owns, Punctual, SameBatch
    <2>2. CASE d # c
      BY <1>1, <2>2 DEF Owns, OwnShape, Punctual, SameBatch, Closing
    <2> QED BY <2>1, <2>2
  <1> QED BY <1>1, <1>2 DEF Owns, SameBatch

(* A call that leaves takes no watch with it, when another one stands in or none is needed. *)
LEMMA LeavingWatch ==
  ASSUME TypeInv, Owns, WatchInv, NEW c \in Calls, Leaves(c), SameBatch,
         up' = up, lockId' = lockId, timers \subseteq timers',
         \A w \in Workers, b \in BatchIds : <<w, b>> \in timers' => b \in minted,
         \/ openId \in untimed' \cup {None} \/ Timed'
         \/ call[c].pc \in {"add", "emit", "unlock", "finish"}
         \/ call[c].pc = "reply" /\ call[c].own # openId
         \/ call[c].pc = "lock" /\ lockId # None
  PROVE  Owns' /\ WatchInv'
  <1>1. OwnShape(c)' /\ ~Closing(c)'
    BY DEF Leaves, OwnShape, Closing
  <1>2. Owns' /\ (AllAgain => AllAgain')
    BY <1>1, OwnsKept DEF Leaves
  <1>3. openId \notin untimed' \cup {None} /\ Timed => Timed'
    BY DEF Timed, Leaves, SameBatch
  <1>4. openId \notin untimed' \cup {None} /\ InTurn => InTurn' \/ Timed'
    BY <1>2 DEF InTurn, Leaves
  <1> QED BY <1>2, <1>3, <1>4 DEF WatchInv, SameBatch

(* What the steps of a call do to its shape. *)
LEMMA ReturnedLeaves ==
  ASSUME TypeInv, NEW c \in Calls,
         call' = [call EXCEPT ![c] = Returned(c)] \/ call' = [call EXCEPT ![c] = Idle]
  PROVE  Leaves(c)
  <1> DEFINE r == call'[c]
  <1>1. r \in {Returned(c), Idle} /\ \A d \in Calls : d # c => call'[d] = call[d]
    BY DEF TypeInv, TypeOK
  <1>2. \A e \in {Returned(c), Idle} : e.pc \in {"idle", "finish"} /\ e.own = None /\ ~e.again
    BY ReturnedShape, IdleCall
  <1> QED BY ONLY <1>1, <1>2 DEF Leaves

(* The reply to the call that opened the batch is what times it. *)
LEMMA ReplyWatch ==
  ASSUME TypeInv, Owns, WatchInv, NEW c \in Calls, Reply(c)
  PROVE  Owns' /\ WatchInv'
  <1>1. /\ call[c] \in CallRec /\ call[c].pc = "reply" /\ call[c].kind = "job"
        /\ call[c].host \in Workers
        /\ call[c].count = 1 => call[c].own \in BatchIds
        /\ call[c].count # 1 => call[c].own = None
        /\ call[c].own \in minted \cup {None} /\ ~call[c].again
    BY DEF Reply, TypeInv, TypeOK, CallShape, Owns, OwnShape, Closing
  <1>2. SameBatch /\ up' = up /\ lockId' = lockId
    BY DEF Reply, SameBatch, openBatch, lockedBatch, history
  <1>3. CASE call[c].count = 1
    <2>1. /\ Leaves(c) /\ timers' = timers \cup {<<call[c].host, call[c].own>>}
      BY <1>3, ReturnedLeaves DEF Reply
    <2>2. call[c].own = openId => Timed'
      BY <1>1, <1>2, <2>1 DEF Timed, SameBatch
    <2>3. \A w \in Workers, b \in BatchIds : <<w, b>> \in timers' => b \in minted
      BY <1>1, <1>3, <2>1, BatchingAssumption DEF Owns
    <2> QED BY <1>1, <1>2, <2>1, <2>2, <2>3, LeavingWatch
  <1>4. CASE /\ call[c].count # 1 /\ timers' = timers
             /\ call' = [call EXCEPT ![c] = Returned(c)]
    BY <1>1, <1>2, <1>4, ReturnedLeaves, LeavingWatch DEF Owns
  <1>5. CASE /\ call[c].count # 1 /\ timers' = timers
             /\ call' = [call EXCEPT ![c].pc = "lock", ![c].count = 0]
    <2>1. /\ \A d \in Calls : d # c => call'[d] = call[d]
          /\ call'[c].pc = "lock" /\ call'[c].own = None /\ ~call'[c].again
      BY <1>1, <1>5 DEF TypeInv, TypeOK, CallRec
    <2>2. OwnShape(c)' /\ ~Closing(c)'
      BY <2>1 DEF OwnShape, Closing
    <2>3. Owns' /\ (AllAgain => AllAgain')
      BY <1>2, <1>5, <2>1, <2>2, OwnsKept DEF Owns
    <2>4. openId # None /\ Timed => Timed'
      <3>1. \A d \in Calls : /\ call[d].pc = "reply" /\ call[d].own = openId /\ openId # None
                                => call'[d].pc = "reply" /\ call'[d].own = openId
                             /\ call[d].pc = "setup" => call'[d].pc = "setup"
        BY <1>1, <1>5, <2>1
      <3> QED BY <1>2, <1>5, <3>1 DEF Timed, SameBatch
    <2>5. InTurn => InTurn'
      BY <1>1, <1>2, <2>1, <2>3 DEF InTurn
    <2> QED BY <1>2, <2>3, <2>4, <2>5 DEF WatchInv, SameBatch
  <1> QED BY <1>3, <1>4, <1>5 DEF Reply

(* A new batch belongs to the call that opened it and will time it. *)
LEMMA AddToBatchWatch ==
  ASSUME TypeInv, TypeInv', Content, Owns, WatchInv, NEW c \in Calls, AddToBatch(c)
  PROVE  Owns' /\ WatchInv'
  <1>1. /\ call[c] \in CallRec /\ call[c].pc = "add" /\ call[c].kind = "job"
        /\ call[c].own = None /\ ~call[c].again
    BY DEF AddToBatch, TypeInv, TypeOK, CallShape, Owns, OwnShape, Closing
  <1>2. up' = up /\ lockId' = lockId /\ timers' = timers /\ untimed' = untimed
    BY DEF AddToBatch, lockedBatch
  <1>3. CASE OpenNewBatch(c)
    <2>1. /\ \A d \in Calls : d # c => call'[d] = call[d]
          /\ call'[c].pc = "reply" /\ call'[c].own = FreshId /\ call'[c].count = 1
          /\ ~call'[c].again
          /\ openId' = FreshId /\ minted' = minted \cup {FreshId}
          /\ FreshId \in BatchIds \ minted
      <3>1. FreshId \in BatchIds \ minted
        BY <1>3 DEF OpenNewBatch, FreshId
      <3>2. call' = [call EXCEPT ![c].pc = "reply", ![c].own = FreshId, ![c].count = 1]
        BY <1>3 DEF OpenNewBatch
      <3>3. /\ \A d \in Calls : d # c => call'[d] = call[d]
            /\ call'[c].pc = "reply" /\ call'[c].own = FreshId /\ call'[c].count = 1
            /\ call'[c].again = call[c].again
        BY <1>1, <3>2 DEF TypeInv, TypeOK, CallRec
      <3> QED BY <1>1, <1>3, <3>1, <3>3 DEF OpenNewBatch
    <2>2. ASSUME NEW d \in Calls PROVE OwnShape(d)' /\ Punctual(d)'
      <3>1. CASE d = c
        BY <2>1, <3>1 DEF OwnShape, Punctual
      <3>2. CASE d # c
        <4>1. call'[d] = call[d] /\ call[d].own # FreshId
          BY <2>1, <3>2, BatchingAssumption DEF Owns, OwnShape
        <4> QED BY <2>1, <4>1 DEF Owns, OwnShape, Punctual, Closing
      <3> QED BY <3>1, <3>2
    <2>3. Owns'
      BY <1>2, <2>1, <2>2 DEF Owns
    <2>4. Timed'
      BY <2>1 DEF Timed
    <2> QED BY <2>3, <2>4 DEF WatchInv
  <1>4. CASE JoinOpenBatch(c)
    <2>1. /\ \A d \in Calls : d # c => call'[d] = call[d]
          /\ call'[c].pc = "reply" /\ call'[c].own = None /\ ~call'[c].again
          /\ SameBatch
      BY <1>1, <1>2, <1>4 DEF JoinOpenBatch, TypeInv, TypeOK, CallRec, SameBatch
    <2>2. OwnShape(c)' /\ ~Closing(c)'
      BY <2>1 DEF OwnShape, Closing
    <2>3. Owns' /\ (AllAgain => AllAgain')
      BY <1>2, <2>1, <2>2, OwnsKept DEF Owns
    <2>4. Timed => Timed'
      BY <1>1, <1>2, <2>1 DEF Timed, SameBatch
    <2>5. InTurn => InTurn'
      BY <1>1, <1>2, <2>1, <2>3 DEF InTurn
    <2> QED BY <1>2, <2>1, <2>3, <2>4, <2>5 DEF WatchInv, SameBatch
  <1> QED BY <1>3, <1>4 DEF AddToBatch

(* A call locks the open batch, takes the lock of another over, or returns. *)
LEMMA LockBatchWatch ==
  ASSUME TypeInv, Owns, WatchInv, NEW c \in Calls, LockBatch(c)
  PROVE  Owns' /\ WatchInv'
  <1>1. /\ call[c] \in CallRec /\ call[c].pc = "lock" /\ ~call[c].again /\ ~Closing(c)
        /\ up' = up /\ timers' = timers /\ minted' = minted /\ untimed' = untimed
    BY DEF LockBatch, TypeInv, TypeOK, Owns, OwnShape, Closing, history
  <1>2. CASE /\ openId = None \/ (lockId # None /\ ~lockExpired)
             /\ call' = [call EXCEPT ![c] = Returned(c)]
             /\ UNCHANGED <<openBatch, lockedBatch>>
    <2>1. Leaves(c) /\ SameBatch /\ lockId' = lockId
      BY <1>1, <1>2, ReturnedLeaves DEF SameBatch, openBatch, lockedBatch
    <2> QED BY <1>1, <1>2, <2>1, LeavingWatch DEF Owns
  <1>3. CASE TakesOver(c)
    <2>1. /\ \A d \in Calls : d # c => call'[d] = call[d]
          /\ call'[c].pc = "emit" /\ call'[c].own = call[c].own /\ call'[c].again
          /\ call'[c].kind = call[c].kind
          /\ lockId # None /\ lockId' = lockId /\ SameBatch
      BY <1>1, <1>3 DEF TakesOver, TypeInv, TypeOK, CallRec, SameBatch, openBatch, lockedBatch
    <2>2. OwnShape(c)'
      BY <1>1, <2>1 DEF Owns, OwnShape, Closing, SameBatch
    <2>3. Owns' /\ (AllAgain => AllAgain')
      BY <1>1, <2>1, <2>2, OwnsKept DEF Owns
    <2>4. Timed => Timed'
      BY <1>1, <2>1 DEF Timed, SameBatch
    <2> QED BY <1>1, <2>1, <2>3, <2>4 DEF WatchInv, SameBatch, InTurn
  <1>4. CASE LocksOpen(c)
    <2>1. /\ \A d \in Calls : d # c => call'[d] = call[d]
          /\ call'[c].pc = "emit" /\ call'[c].own = call[c].own /\ ~call'[c].again
          /\ call'[c].kind = call[c].kind /\ openId' = None
      BY <1>1, <1>4 DEF LocksOpen, TypeInv, TypeOK, CallRec
    <2>2. ASSUME NEW d \in Calls PROVE OwnShape(d)' /\ Punctual(d)'
      BY <1>1, <2>1 DEF Owns, OwnShape, Punctual, Closing
    <2> QED BY <1>1, <2>1, <2>2 DEF Owns, WatchInv
  <1> QED BY <1>2, <1>3, <1>4 DEF LockBatch, TakesOver, LocksOpen

(* A closer puts its batch on the batch queue. *)
LEMMA EmitWatch ==
  ASSUME TypeInv, Owns, WatchInv, NEW c \in Calls, Emit(c)
  PROVE  Owns' /\ WatchInv'
  <1>1. /\ \A d \in Calls : d # c => call'[d] = call[d]
        /\ call[c].pc = "emit" /\ call'[c].pc = "unlock" /\ call'[c].own = call[c].own
        /\ call'[c].again = call[c].again /\ call'[c].kind = call[c].kind
        /\ up' = up /\ timers' = timers /\ lockId' = lockId /\ SameBatch
    BY DEF Emit, TypeInv, TypeOK, CallRec, SameBatch, openBatch, lockedBatch, history
  <1>2. OwnShape(c)' /\ Closing(c)' /\ Closing(c)
    BY <1>1 DEF Owns, OwnShape, Closing, SameBatch
  <1>3. Owns' /\ (AllAgain => AllAgain')
    BY <1>1, <1>2, OwnsKept DEF Owns
  <1>4. Timed => Timed'
    BY <1>1 DEF Timed, SameBatch
  <1>5. InTurn => InTurn'
    BY <1>1, <1>3 DEF InTurn
  <1> QED BY <1>1, <1>3, <1>4, <1>5 DEF WatchInv, SameBatch

(* A closer is done.  Its own timeout is gone with it, but then it was a timeout of another *)
(* batch, or one that fired on time: who closes then has taken a lock over and comes back.  *)
LEMMA UnlockWatch ==
  ASSUME TypeInv, Owns, WatchInv, NEW c \in Calls, Unlock(c) \/ UnlockFails(c)
  PROVE  Owns' /\ WatchInv'
  <1>1. /\ call[c] \in CallRec /\ call[c].pc = "unlock" /\ Closing(c)
        /\ call' = [call EXCEPT ![c] = NextRound(c)]
        /\ up' = up /\ SameBatch /\ timers \ {<<call[c].host, call[c].own>>} \subseteq timers'
        /\ timers' \subseteq timers
    BY DEF Unlock, UnlockFails, TypeInv, TypeOK, Closing, SameBatch, openBatch
  <1>2. \A w \in Workers, b \in BatchIds : <<w, b>> \in timers' => b \in minted
    BY <1>1 DEF Owns
  <1>3. call'[c] = NextRound(c) /\ \A d \in Calls : d # c => call'[d] = call[d]
    BY <1>1 DEF TypeInv, TypeOK
  <1>4. CASE call[c].again
    <2>1. /\ call'[c].pc = "lock" /\ call'[c].own = call[c].own /\ ~call'[c].again
          /\ call'[c].kind = call[c].kind
      <3> DEFINE r == [call[c] EXCEPT !.pc = "lock", !.held = None, !.rows = {},
                                      !.again = FALSE]
      <3>1. r.pc = "lock" /\ r.own = call[c].own /\ ~r.again /\ r.kind = call[c].kind
        BY <1>1 DEF CallRec
      <3>2. call'[c] = r
        BY <1>3, <1>4 DEF NextRound
      <3> HIDE DEF r
      <3> QED BY <3>1, <3>2
    <2>2. OwnShape(c)' /\ ~Closing(c)'
      BY <1>1, <2>1 DEF Owns, OwnShape, Closing, SameBatch
    <2>3. Owns' /\ (AllAgain => AllAgain')
      BY <1>1, <1>2, <1>3, <2>1, <2>2, OwnsKept
    <2>4. AllAgain => InTurn'
      BY <2>1, <2>3 DEF InTurn
    <2>5. openId \notin untimed \cup {None} /\ call[c].own = openId => AllAgain
      BY <1>1 DEF Owns, Punctual
    <2>6. call[c].own # openId /\ Timed => Timed'
      BY <1>1, <1>3 DEF Timed, SameBatch
    <2> QED BY <1>1, <2>3, <2>4, <2>5, <2>6 DEF WatchInv, SameBatch, InTurn
  <1>5. CASE ~call[c].again
    <2>1. Leaves(c)
      BY <1>1, <1>5, ReturnedLeaves DEF NextRound
    <2>2. OwnShape(c)' /\ ~Closing(c)'
      BY <2>1 DEF Leaves, OwnShape, Closing
    <2>3. Owns'
      BY <1>1, <1>2, <1>3, <2>1, <2>2, OwnsKept DEF Leaves
    <2>4. ~AllAgain
      BY <1>1, <1>5 DEF AllAgain
    <2>5. openId \notin untimed \cup {None} => call[c].own # openId
      BY <1>1, <2>4 DEF Owns, Punctual
    <2>6. call[c].own # openId /\ Timed => Timed'
      BY <1>1, <1>3 DEF Timed, SameBatch
    <2> QED BY <1>1, <2>3, <2>4, <2>5, <2>6 DEF WatchInv, SameBatch, InTurn
  <1> QED BY <1>4, <1>5

(* A timeout that fires finds nobody closing, or counts as missed. *)
LEMMA IntervalWatch ==
  ASSUME Owns, NEW b \in BatchIds, IntervalPassed(b)
  PROVE  untimed \subseteq untimed' /\ (openId = b => AllAgain \/ openId \in untimed')
  BY DEF IntervalPassed, AllAgain

(* The timeout of a batch: its handler is about to lock it. *)
LEMMA FireTimerWatch ==
  ASSUME TypeInv, Owns, WatchInv, NEW c \in Calls, NEW w \in Workers, NEW b \in BatchIds,
         FireTimer(c, w, b)
  PROVE  Owns' /\ WatchInv'
  <1> DEFINE r == NewCall("lock", "timer", w, None, b)
  <1>1. /\ r.pc = "lock" /\ r.own = b /\ ~r.again /\ r.kind = "timer"
        /\ call[c] = Idle /\ call' = [call EXCEPT ![c] = r]
    BY DEF FireTimer, NewCall
  <1> HIDE DEF r
  <1>2. /\ \A d \in Calls : d # c => call'[d] = call[d]
        /\ call'[c].pc = "lock" /\ call'[c].own = b /\ ~call'[c].again
        /\ call'[c].kind = "timer" /\ call[c].pc = "idle"
    BY <1>1, IdleCall DEF TypeInv, TypeOK
  <1>3. /\ up' = up /\ lockId' = lockId /\ timers' = timers \ {<<w, b>>} /\ b \in minted
        /\ openId' = openId /\ minted' = minted
    BY DEF FireTimer, openBatch, lockedBatch, Owns
  <1>4. SameBatch /\ (openId = b => AllAgain \/ openId \in untimed')
    BY <1>3, IntervalWatch DEF FireTimer, SameBatch
  <1>5. OwnShape(c)' /\ ~Closing(c)'
    BY <1>2, <1>3 DEF OwnShape, Closing
  <1>6. Owns' /\ (AllAgain => AllAgain')
    BY <1>2, <1>3, <1>4, <1>5, OwnsKept DEF Owns
  <1>7. openId # b /\ Timed => Timed'
    BY <1>2, <1>3 DEF Timed
  <1>8. AllAgain => InTurn'
    BY <1>2, <1>6 DEF InTurn
  <1> QED BY <1>3, <1>4, <1>6, <1>7, <1>8 DEF WatchInv, SameBatch, InTurn

(* At boot the open batch of an earlier life is timed, or locked as its timeout would. *)
LEMMA SetupWatch ==
  ASSUME TypeInv, Content, Owns, WatchInv, NEW c \in Calls, SetupActiveBatchTimeout(c)
  PROVE  Owns' /\ WatchInv'
  <1>1. /\ call[c] \in CallRec /\ call[c].pc = "setup" /\ call[c].host \in Workers
        /\ call[c].kind # "job" /\ ~call[c].again /\ ~Closing(c)
        /\ openId' = openId /\ minted' = minted /\ lockId' = lockId /\ up' = up
    BY DEF SetupActiveBatchTimeout, TypeInv, TypeOK, CallShape, Owns, OwnShape, Closing,
           openBatch, lockedBatch
  <1>2. CASE /\ call' = [call EXCEPT ![c] = Idle] /\ UNCHANGED untimed
             /\ \/ openId = None /\ UNCHANGED timers
                \/ openId # None /\ timers' = timers \cup {<<call[c].host, openId>>}
    <2>1. Leaves(c) /\ SameBatch
      BY <1>1, <1>2, ReturnedLeaves DEF SameBatch
    <2>2. openId = None \/ Timed'
      BY <1>1, <1>2 DEF Timed
    <2>3. \A w \in Workers, b \in BatchIds : <<w, b>> \in timers' => b \in minted
      BY <1>2 DEF Owns, Content
    <2> QED BY <1>1, <1>2, <2>1, <2>2, <2>3, LeavingWatch
  <1>3. CASE /\ openId # None /\ IntervalPassed(openId) /\ UNCHANGED timers
             /\ call' = [call EXCEPT ![c].pc = "lock", ![c].own = openId]
    <2>1. /\ \A d \in Calls : d # c => call'[d] = call[d]
          /\ call'[c].pc = "lock" /\ call'[c].own = openId /\ ~call'[c].again
          /\ call'[c].kind = call[c].kind
      BY <1>1, <1>3 DEF TypeInv, TypeOK, CallRec
    <2>2. openId \in BatchIds /\ openId \in minted
      BY <1>3 DEF TypeInv, TypeOK, Content
    <2>3. SameBatch /\ (AllAgain \/ openId \in untimed')
      BY <1>1, <1>3, <2>2, IntervalWatch DEF SameBatch
    <2>4. OwnShape(c)' /\ ~Closing(c)'
      BY <1>1, <2>1, <2>2 DEF OwnShape, Closing
    <2>5. Owns' /\ (AllAgain => AllAgain')
      BY <1>1, <1>3, <2>1, <2>3, <2>4, OwnsKept DEF Owns
    <2>6. AllAgain => InTurn'
      BY <2>1, <2>5 DEF InTurn
    <2> QED BY <1>1, <2>3, <2>5, <2>6 DEF WatchInv
  <1> QED BY <1>2, <1>3 DEF SetupActiveBatchTimeout

(* A process boots and is about to look for an open batch. *)
LEMMA RestartWatch ==
  ASSUME TypeInv, Owns, WatchInv, NEW c \in Calls, NEW w \in Workers, Restart(w, c)
  PROVE  Owns' /\ WatchInv'
  <1> DEFINE r == NewCall("setup", "boot", w, None, None)
  <1>1. /\ r.pc = "setup" /\ r.own = None /\ ~r.again /\ r.kind = "boot"
        /\ call[c] = Idle /\ call' = [call EXCEPT ![c] = r]
    BY DEF Restart, NewCall
  <1> HIDE DEF r
  <1>2. /\ \A d \in Calls : d # c => call'[d] = call[d]
        /\ call'[c].pc = "setup" /\ call'[c].own = None /\ ~call'[c].again
        /\ call'[c].kind = "boot"
    BY <1>1 DEF TypeInv, TypeOK
  <1>3. timers' = timers /\ SameBatch
    BY DEF Restart, SameBatch, openBatch, history
  <1>4. OwnShape(c)' /\ ~Closing(c)'
    BY <1>2 DEF OwnShape, Closing
  <1>5. Owns' /\ (AllAgain => AllAgain')
    BY <1>2, <1>3, <1>4, OwnsKept DEF Owns
  <1>6. Timed'
    BY <1>2 DEF Timed
  <1> QED BY <1>5, <1>6 DEF WatchInv

(* A job's call begins. *)
LEMMA StartJobWatch ==
  ASSUME TypeInv, Owns, WatchInv, NEW c \in Calls, NEW w \in Workers, NEW j \in Jobs,
         StartJob(c, w, j)
  PROVE  Owns' /\ WatchInv'
  <1> DEFINE r == NewCall("add", "job", w, j, None)
  <1>1. /\ r.pc = "add" /\ r.own = None /\ ~r.again
        /\ call[c] = Idle /\ call' = [call EXCEPT ![c] = r]
    BY DEF StartJob, NewCall
  <1> HIDE DEF r
  <1>2. /\ \A d \in Calls : d # c => call'[d] = call[d]
        /\ call'[c].pc = "add" /\ call'[c].own = None /\ ~call'[c].again
        /\ call[c].pc = "idle"
    BY <1>1, IdleCall DEF TypeInv, TypeOK
  <1>3. timers' = timers /\ SameBatch /\ up' = up /\ lockId' = lockId
    BY DEF StartJob, SameBatch, openBatch, lockedBatch, history
  <1>4. OwnShape(c)' /\ ~Closing(c)'
    BY <1>2 DEF OwnShape, Closing
  <1>5. Owns' /\ (AllAgain => AllAgain')
    BY <1>2, <1>3, <1>4, OwnsKept DEF Owns
  <1>6. Timed => Timed'
    BY <1>2, <1>3 DEF Timed, SameBatch
  <1>7. InTurn => InTurn'
    BY <1>2, <1>3, <1>5 DEF InTurn
  <1> QED BY <1>3, <1>5, <1>6, <1>7 DEF WatchInv, SameBatch

(* The call of a finished job ends. *)
LEMMA FinishWatch ==
  ASSUME TypeInv, Owns, WatchInv, NEW c \in Calls, Finish(c)
  PROVE  Owns' /\ WatchInv'
  <1>1. /\ Leaves(c) /\ SameBatch /\ up' = up /\ lockId' = lockId /\ timers' = timers
        /\ call[c].pc = "finish"
    BY ReturnedLeaves DEF Finish, SameBatch, openBatch, lockedBatch, history
  <1> QED BY <1>1, LeavingWatch DEF Owns

(* A command throws: whoever was to time or to lock the open batch leaves it untimed. *)
LEMMA ThrowsWatch ==
  ASSUME TypeInv, Owns, WatchInv, NEW c \in Calls, JobThrows(c) \/ BootThrows(c)
  PROVE  Owns' /\ WatchInv'
  <1>1. /\ Leaves(c) /\ SameBatch /\ up' = up /\ lockId' = lockId /\ timers' = timers
    BY ReturnedLeaves DEF JobThrows, BootThrows, SameBatch, openBatch, lockedBatch
  <1>2. CASE JobThrows(c)
    <2>1. call[c].pc \in {"add", "emit", "unlock"} \/ openId \in untimed' \cup {None}
      <3>1. call[c] \in CallRec /\ CallShape(c) /\ OwnShape(c)
        BY DEF TypeInv, TypeOK, Owns
      <3> QED BY <1>2, <3>1 DEF JobThrows, CallRec, Pcs, CallShape, OwnShape
    <2> QED BY <1>1, <2>1, LeavingWatch DEF Owns
  <1>3. CASE BootThrows(c)
    <2>1. openId \in untimed' \cup {None}
      BY <1>3 DEF BootThrows
    <2> QED BY <1>1, <2>1, LeavingWatch DEF Owns
  <1> QED BY <1>2, <1>3

(* While a process is down nothing is promised. *)
LEMMA DieWatch ==
  ASSUME TypeInv, Owns, NEW w \in Workers, Die(w)
  PROVE  Owns' /\ WatchInv'
  <1>1. /\ \A c \in Calls : call'[c] = Idle \/ call'[c] = call[c]
        /\ up' = up \ {w} /\ timers' \subseteq timers
        /\ openId' = openId /\ minted' = minted /\ untimed' = untimed
    BY DEF Die, openBatch
  <1>2. AllAgain => AllAgain'
    BY <1>1, IdleCall DEF AllAgain, Closing
  <1>3. ASSUME NEW c \in Calls PROVE OwnShape(c)' /\ Punctual(c)'
    BY <1>1, <1>2, IdleCall DEF Owns, OwnShape, Punctual, Closing
  <1> QED BY <1>1, <1>3 DEF Owns, WatchInv

(* Steps that do not concern the open batch, its timeouts or the calls. *)
LEMMA OtherWatch ==
  ASSUME Owns, WatchInv, UNCHANGED <<openId, minted, untimed, up, timers, call>>,
         lockId' = lockId
  PROVE  Owns' /\ WatchInv'
  BY DEF Owns, OwnShape, Punctual, AllAgain, Closing, WatchInv, Timed, InTurn

(* At the start there is no open batch, no call and no timeout. *)
LEMMA WatchInit == Init => Owns /\ WatchInv
  BY IdleCall DEF Init, Owns, OwnShape, Punctual, AllAgain, Closing, WatchInv

(* Every step keeps the watch. *)
LEMMA WatchNext ==
  ASSUME TypeInv, TypeInv', Content, Owns, WatchInv, [Next]_vars
  PROVE  Owns' /\ WatchInv'
  <1>1. ASSUME NEW c \in Calls, CallStep(c) PROVE Owns' /\ WatchInv'
    BY <1>1, AddToBatchWatch, ReplyWatch, FinishWatch, LockBatchWatch, EmitWatch,
       UnlockWatch, SetupWatch DEF CallStep
  <1>2. ASSUME NEW c \in Calls, CallFails(c) PROVE Owns' /\ WatchInv'
    <2>1. CASE TimerThrows(c)
      <3>1. call[c].host \in Workers
        BY <2>1 DEF TimerThrows, TypeInv, CallShape
      <3> QED BY <2>1, <3>1, DieWatch DEF TimerThrows
    <2> QED BY <1>2, <2>1, ThrowsWatch, UnlockWatch DEF CallFails
  <1>3. ASSUME NEW w \in Workers, Crash(w) PROVE Owns' /\ WatchInv'
    BY <1>3, DieWatch DEF Crash
  <1>4. ASSUME (\E j \in Jobs : StallJob(j)) \/ LockExpires \/ UNCHANGED vars
        PROVE  Owns' /\ WatchInv'
    <2>1. UNCHANGED <<openId, minted, untimed, up, timers, call>> /\ lockId' = lockId
      BY <1>4 DEF StallJob, LockExpires, vars, openBatch, lockedBatch, history
    <2> QED BY <2>1, OtherWatch
  <1> QED BY <1>1, <1>2, <1>3, <1>4, StartJobWatch, FireTimerWatch, RestartWatch DEF Next

(* Whatever crashes, stalls, slow closers and errors have happened: with every process up  *)
(* and no lock left behind, an open batch has somebody who times it, has timed it or is    *)
(* about to lock it, unless its timeout was missed or failed.                              *)
THEOREM WatchSafety == Spec => []OpenBatchIsWatched
  <1>1. Init => TypeInv /\ Content /\ Owns /\ WatchInv
    BY TypeInit, ContentInit, WatchInit
  <1>2. TypeInv /\ Content /\ Owns /\ WatchInv /\ [Next]_vars
        => (TypeInv /\ Content /\ Owns /\ WatchInv)'
    BY TypeNext, ContentNext, WatchNext
  <1>3. WatchInv => OpenBatchIsWatched
    BY DEF WatchInv, Timed, InTurn, AllAgain, LockIsLeftBehind, OpenBatchIsWatched
  <1> QED BY <1>1, <1>2, <1>3, PTL DEF Spec

-----------------------------------------------------------------------------
(* Every copy of a row is of a row that was stored. *)

Stored ==
    /\ openRows \subseteq accepted
    /\ lockRows \subseteq accepted
    /\ \A c \in Calls : call[c].rows \subseteq accepted
    /\ \A b \in BatchIds : out[b] \subseteq accepted

(* Row j is in batch b: on the queue, open, locked, or with a closer. *)
In(j, b) == \/ j \in out[b]
            \/ openId = b /\ j \in openRows
            \/ lockId = b /\ j \in lockRows
            \/ \E c \in Calls : call[c].held = b /\ j \in call[c].rows

(* A job handed out once is with one call, and stores its row once. *)
Once(j) ==
    /\ \A a, b \in BatchIds : In(j, a) /\ In(j, b) => a = b
    /\ jobState[j] = "waiting" =>
          j \notin accepted /\ \A c \in Calls : ~(call[c].kind = "job" /\ call[c].job = j)
    /\ \A c \in Calls : call[c].pc = "add" /\ call[c].job = j => j \notin accepted
    /\ \A c, d \in Calls : /\ call[c].kind = "job" /\ call[c].job = j
                           /\ call[d].kind = "job" /\ call[d].job = j
                           => c = d

OnceInv == Stored /\ \A j \in Jobs : stalls[j] = 0 => Once(j)

(* At the start no row is in a batch. *)
LEMMA OnceInit == Init => OnceInv
  BY IdleCall DEF Init, OnceInv, Stored, Once, In

-----------------------------------------------------------------------------
(* What a step does to the rows. *)

(* Only AddToBatch puts a row where it was not. *)
LEMMA RowsStep ==
  ASSUME TypeInv, TypeInv', Content, Stored, [Next]_vars,
         ~ \E c \in Calls : AddToBatch(c)
  PROVE  /\ Stored'
         /\ accepted' = accepted
         /\ \A j \in Jobs, b \in BatchIds : In(j, b)' => In(j, b)
  <1> USE HeldTypes
  <1> DEFINE Goal == /\ Stored'
                     /\ accepted' = accepted
                     /\ \A j \in Jobs, b \in BatchIds : In(j, b)' => In(j, b)
  <1>1. ASSUME Quiet PROVE Goal
    <2>1. \A c \in Calls : \/ call'[c].rows = {}
                           \/ call'[c].rows = call[c].rows /\ call'[c].held = call[c].held
      BY <1>1, TypeInv' DEF Quiet, SameCloser, TypeInv, CallShape
    <2> QED BY <1>1, <2>1 DEF Quiet, Stored, In
  <1>2. ASSUME NEW c \in Calls, TakesOver(c) PROVE Goal
    BY <1>2, TakesOverEffect DEF Stored, In
  <1>3. ASSUME NEW c \in Calls, LocksOpen(c) PROVE Goal
    <2>1. lockId' = openId /\ lockRows' = openRows /\ openId' = None /\ openRows' = {}
      BY <1>3 DEF LocksOpen
    <2> QED BY <1>3, <2>1, LocksOpenEffect DEF Stored, In
  <1>4. ASSUME NEW c \in Calls, Emit(c) PROVE Goal
    <2>1. /\ out'[call[c].held] \in {out[call[c].held], call[c].rows}
          /\ \A b \in BatchIds : b # call[c].held => out'[b] = out[b]
          /\ \A d \in Calls : call'[d].held = call[d].held /\ call'[d].rows = call[d].rows
      BY <1>4, EmitEffect DEF TypeInv, TypeOK
    <2>2. Stored'
      BY <1>4, <2>1, EmitEffect DEF Stored
    <2>3. \A j \in Jobs, b \in BatchIds : In(j, b)' => In(j, b)
      BY <1>4, <2>1, EmitEffect DEF In
    <2> QED BY <1>4, <2>2, <2>3, EmitEffect
  <1>5. ASSUME NEW c \in Calls, Unlock(c) \/ UnlockFails(c) PROVE Goal
    <2>1. call'[c].rows = {}
      BY <1>5, UnlockEffect, TypeInv' DEF TypeInv, CallShape, Closing
    <2> QED BY <1>5, <2>1, UnlockEffect DEF Stored, In
  <1> QED BY <1>1, <1>2, <1>3, <1>4, <1>5, StepCases, QuietSteps

-----------------------------------------------------------------------------
(* What a step does to the jobs: only StartJob gives a call a job, and only a stall makes *)
(* a job wait again.                                                                      *)

SameJob(c) == /\ call'[c].kind = "job" => call[c].kind = "job" /\ call'[c].job = call[c].job
              /\ call'[c].pc = "add" => call[c].pc = "add"

Calm == /\ \A c \in Calls : SameJob(c)
        /\ \A j \in Jobs : stalls'[j] = 0 =>
              stalls[j] = 0 /\ (jobState'[j] = "waiting" => jobState[j] = "waiting")

(* A step of one call that keeps its job takes no job. *)
LEMMA OneCallCalm ==
  ASSUME TypeInv, NEW c \in Calls, NEW r \in CallRec, call' = [call EXCEPT ![c] = r],
         r.kind = "job" => call[c].kind = "job" /\ r.job = call[c].job,
         r.pc # "add",
         \A j \in Jobs : stalls'[j] = 0 =>
              stalls[j] = 0 /\ (jobState'[j] = "waiting" => jobState[j] = "waiting")
  PROVE  Calm
  <1>1. call'[c] = r /\ \A d \in Calls : d # c => call'[d] = call[d]
    BY DEF TypeInv, TypeOK
  <1> QED BY <1>1 DEF Calm, SameJob

(* Only StartJob takes a job. *)
LEMMA CalmSteps ==
  ASSUME TypeInv, TypeInv', [Next]_vars,
         ~ \E c \in Calls, w \in Workers, j \in Jobs : StartJob(c, w, j)
  PROVE  Calm
  <1> DEFINE JobsKept == \A j \in Jobs : stalls'[j] = 0 =>
              stalls[j] = 0 /\ (jobState'[j] = "waiting" => jobState[j] = "waiting")
  <1>t. /\ \A c \in Calls : call[c] \in CallRec /\ call'[c] \in CallRec
        /\ call \in [Calls -> CallRec]
        /\ openId \in BatchIds \cup {None} /\ lockId \in BatchIds \cup {None}
        /\ openRows \in SUBSET Jobs /\ lockRows \in SUBSET Jobs
        /\ jobState \in [Jobs -> {"waiting", "active", "completed", "failed"}]
    BY DEF TypeInv, TypeOK
  <1>a. ASSUME NEW c \in Calls, AddToBatch(c) PROVE Calm
    <2>1. /\ \A d \in Calls : d # c => call'[d] = call[d]
          /\ call'[c].pc = "reply" /\ call'[c].kind = call[c].kind
          /\ call'[c].job = call[c].job
      BY <1>t, <1>a DEF AddToBatch, OpenNewBatch, JoinOpenBatch, CallRec
    <2>2. JobsKept
      BY <1>a DEF AddToBatch, queue
    <2> QED BY <2>1, <2>2 DEF Calm, SameJob
  <1>b. ASSUME NEW c \in Calls, Reply(c) PROVE Calm
    <2>1. JobsKept /\ call[c].kind = "job"
      BY <1>b DEF Reply, queue, TypeInv, CallShape
    <2>2. CASE call' = [call EXCEPT ![c] = Returned(c)]
      BY <2>1, <2>2, ReturnedShape, OneCallCalm
    <2>3. CASE call' = [call EXCEPT ![c].pc = "lock", ![c].count = 0]
      <3>1. /\ \A d \in Calls : d # c => call'[d] = call[d]
            /\ call'[c].pc = "lock" /\ call'[c].kind = call[c].kind
            /\ call'[c].job = call[c].job
        BY <1>t, <2>3 DEF CallRec
      <3> QED BY <2>1, <3>1 DEF Calm, SameJob
    <2> QED BY <1>b, <2>2, <2>3 DEF Reply
  <1>c. ASSUME NEW c \in Calls, Finish(c) PROVE Calm
    <2>1. JobsKept /\ call' = [call EXCEPT ![c] = Idle]
      BY <1>t, <1>c DEF Finish
    <2> QED BY <2>1, IdleCall, OneCallCalm
  <1>d. ASSUME NEW c \in Calls, LockBatch(c) PROVE Calm
    <2>1. JobsKept
      BY <1>d DEF LockBatch, queue
    <2>2. CASE call' = [call EXCEPT ![c] = Returned(c)]
      BY <2>1, <2>2, ReturnedShape, OneCallCalm
    <2>3. CASE call' # [call EXCEPT ![c] = Returned(c)]
      <3>1. /\ \A d \in Calls : d # c => call'[d] = call[d]
            /\ call'[c].pc = "emit" /\ call'[c].kind = call[c].kind
            /\ call'[c].job = call[c].job
        BY <1>t, <1>d, <2>3 DEF LockBatch, CallRec
      <3> QED BY <2>1, <3>1 DEF Calm, SameJob
    <2> QED BY <2>2, <2>3
  <1>e. ASSUME NEW c \in Calls, Emit(c) PROVE Calm
    <2>1. /\ \A d \in Calls : d # c => call'[d] = call[d]
          /\ call'[c].pc = "unlock" /\ call'[c].kind = call[c].kind
          /\ call'[c].job = call[c].job
      BY <1>t, <1>e DEF Emit, CallRec
    <2> QED BY <1>e, <2>1 DEF Calm, SameJob, Emit, queue
  <1>f. ASSUME NEW c \in Calls, Unlock(c) \/ UnlockFails(c) PROVE Calm
    <2>1. /\ call[c].pc = "unlock" /\ call' = [call EXCEPT ![c] = NextRound(c)]
          /\ JobsKept
      BY <1>f DEF Unlock, UnlockFails, queue
    <2> QED BY <2>1, NextRoundShape, OneCallCalm
  <1>g. ASSUME NEW c \in Calls, SetupActiveBatchTimeout(c) PROVE Calm
    <2>1. JobsKept
      BY <1>g DEF SetupActiveBatchTimeout, queue
    <2>2. CASE call' = [call EXCEPT ![c] = Idle]
      BY <2>1, <2>2, IdleCall, OneCallCalm
    <2>3. CASE call' = [call EXCEPT ![c].pc = "lock", ![c].own = openId]
      <3>1. /\ \A d \in Calls : d # c => call'[d] = call[d]
            /\ call'[c].pc = "lock" /\ call'[c].kind = call[c].kind
            /\ call'[c].job = call[c].job
        BY <1>t, <2>3 DEF CallRec
      <3> QED BY <2>1, <3>1 DEF Calm, SameJob
    <2> QED BY <1>g, <2>2, <2>3 DEF SetupActiveBatchTimeout
  <1>h. ASSUME NEW c \in Calls, JobThrows(c) \/ BootThrows(c) PROVE Calm
    <2>1. JobsKept /\ call' = [call EXCEPT ![c] = Idle]
      BY <1>t, <1>h DEF JobThrows, BootThrows, queue
    <2> QED BY <2>1, IdleCall, OneCallCalm
  <1>i. ASSUME NEW w \in Workers, Die(w) PROVE Calm
    <2>1. \A d \in Calls : call'[d] = Idle \/ call'[d] = call[d]
      BY <1>i DEF Die
    <2> QED BY <1>i, <2>1, IdleCall DEF Calm, SameJob, Die
  <1>j. ASSUME NEW c \in Calls, TimerThrows(c) PROVE Calm
    <2>1. call[c].host \in Workers
      BY <1>j DEF TimerThrows, TypeInv, CallShape
    <2> QED BY <1>i, <1>j, <2>1 DEF TimerThrows
  <1>k. ASSUME NEW w \in Workers, Crash(w) PROVE Calm
    BY <1>i, <1>k DEF Crash
  <1>l. ASSUME NEW j \in Jobs, StallJob(j) PROVE Calm
    <2>1. /\ call' = call
          /\ stalls' = [stalls EXCEPT ![j] = @ + 1]
          /\ \A k \in Jobs : k # j => jobState'[k] = jobState[k]
          /\ stalls \in [Jobs -> Nat]
      BY <1>l DEF StallJob, TypeInv, TypeOK
    <2>2. JobsKept
      BY <2>1
    <2> QED BY <2>1, <2>2 DEF Calm, SameJob
  <1>m. ASSUME NEW c \in Calls, NEW w \in Workers, NEW b \in BatchIds, FireTimer(c, w, b)
        PROVE  Calm
    <2> DEFINE r == NewCall("lock", "timer", w, None, b)
    <2>1. r \in CallRec /\ r.pc = "lock" /\ r.kind = "timer"
      BY DEF NewCall, CallRec, Pcs
    <2>2. call' = [call EXCEPT ![c] = r] /\ JobsKept
      BY <1>m DEF FireTimer, queue
    <2> HIDE DEF r
    <2> QED BY <2>1, <2>2, OneCallCalm
  <1>n. ASSUME NEW c \in Calls, NEW w \in Workers, Restart(w, c) PROVE Calm
    <2> DEFINE r == NewCall("setup", "boot", w, None, None)
    <2>1. r \in CallRec /\ r.pc = "setup" /\ r.kind = "boot"
      BY DEF NewCall, CallRec, Pcs
    <2>2. call' = [call EXCEPT ![c] = r] /\ JobsKept
      BY <1>n DEF Restart, queue
    <2> HIDE DEF r
    <2> QED BY <2>1, <2>2, OneCallCalm
  <1>o. ASSUME LockExpires \/ UNCHANGED vars PROVE Calm
    BY <1>o DEF LockExpires, vars, queue, Calm, SameJob
  <1> HIDE DEF JobsKept
  <1> QED BY <1>a, <1>b, <1>c, <1>d, <1>e, <1>f, <1>g, <1>h, <1>j, <1>k, <1>l, <1>m, <1>n, <1>o
          DEF Next, CallStep, CallFails

-----------------------------------------------------------------------------
(* The invariant. *)

(* A row that was never added is in no batch. *)
LEMMA NotStoredNotIn ==
  ASSUME Stored, NEW j \in Jobs, j \notin accepted, NEW b \in BatchIds
  PROVE  ~In(j, b)
  BY DEF Stored, In

(* Steps that neither take a job nor add a row. *)
LEMMA OnceCalm ==
  ASSUME TypeInv, TypeInv', Content, OnceInv, [Next]_vars, Calm,
         ~ \E c \in Calls : AddToBatch(c)
  PROVE  OnceInv'
  <1>1. /\ Stored'
        /\ accepted' = accepted
        /\ \A j \in Jobs, b \in BatchIds : In(j, b)' => In(j, b)
    BY RowsStep DEF OnceInv
  <1>2. ASSUME NEW j \in Jobs, stalls'[j] = 0 PROVE Once(j)'
    <2>1. Once(j) /\ (jobState'[j] = "waiting" => jobState[j] = "waiting")
      BY <1>2 DEF Calm, OnceInv
    <2>2. \A a, b \in BatchIds : In(j, a)' /\ In(j, b)' => a = b
      BY <1>1, <2>1 DEF Once
    <2>3. \A c \in Calls : call'[c].pc = "add" => call'[c].kind = "job"
      BY DEF TypeInv, CallShape
    <2>4. \A c \in Calls : SameJob(c)
      BY DEF Calm
    <2>5. jobState'[j] = "waiting" =>
             j \notin accepted' /\ \A c \in Calls : ~(call'[c].kind = "job" /\ call'[c].job = j)
      BY <1>1, <2>1, <2>4 DEF Once, SameJob
    <2>6. \A c \in Calls : call'[c].pc = "add" /\ call'[c].job = j => j \notin accepted'
      BY <1>1, <2>1, <2>3, <2>4 DEF Once, SameJob
    <2>7. \A c, d \in Calls : /\ call'[c].kind = "job" /\ call'[c].job = j
                              /\ call'[d].kind = "job" /\ call'[d].job = j
                              => c = d
      BY <2>1, <2>4 DEF Once, SameJob
    <2> QED BY <2>2, <2>5, <2>6, <2>7 DEF Once
  <1> QED BY <1>1, <1>2 DEF OnceInv

(* A row is added by the one call that has its job, and so for the first time. *)
LEMMA OnceAdd ==
  ASSUME TypeInv, TypeInv', Content, OnceInv, Calm, NEW c \in Calls, AddToBatch(c)
  PROVE  OnceInv'
  <1> DEFINE k == call[c].job
  <1>1. /\ k \in Jobs /\ call[c].pc = "add" /\ call[c].kind = "job"
        /\ call'[c].pc = "reply"
        /\ \A d \in Calls : d # c => call'[d] = call[d]
        /\ openRows' = openRows \cup {k}
        /\ accepted' = accepted \cup {k}
        /\ UNCHANGED <<lockId, lockRows, out>>
        /\ \/ openId = None /\ openRows = {} /\ openId' \in BatchIds
           \/ openId' = openId
    BY AddToBatchEffect
  <1>2. \A d \in Calls : call'[d].rows \subseteq accepted /\ call'[d].rows = call[d].rows
                         /\ (call'[d].held = call[d].held \/ call'[d].rows = {})
    <2>1. call'[c].rows = {} /\ call[c].rows = {}
      BY <1>1, TypeInv' DEF TypeInv, CallShape, Closing
    <2> QED BY <1>1, <2>1 DEF OnceInv, Stored
  <1>3. Stored'
    BY <1>1, <1>2 DEF OnceInv, Stored
  <1>4. ASSUME NEW j \in Jobs, NEW b \in BatchIds, In(j, b)'
        PROVE  In(j, b) \/ (j = k /\ b = openId')
    BY <1>1, <1>2, <1>4 DEF In
  <1>5. ASSUME NEW j \in Jobs, stalls'[j] = 0 PROVE Once(j)'
    <2>1. Once(j) /\ (jobState'[j] = "waiting" => jobState[j] = "waiting")
      BY <1>5 DEF Calm, OnceInv
    <2>2. \A d \in Calls : SameJob(d)
      BY DEF Calm
    <2>3. \A d \in Calls : call'[d].pc = "add" => call'[d].kind = "job"
      BY DEF TypeInv, CallShape
    <2>4. \A a, b \in BatchIds : In(j, a)' /\ In(j, b)' => a = b
      <3>1. CASE j # k
        BY <1>4, <2>1, <3>1 DEF Once
      <3>2. CASE j = k
        <4>1. j \notin accepted
          BY <1>1, <2>1, <3>2 DEF Once
        <4> QED BY <1>4, <3>2, <4>1, NotStoredNotIn DEF OnceInv
      <3> QED BY <3>1, <3>2
    <2>5. jobState'[j] = "waiting" =>
             j \notin accepted' /\ \A d \in Calls : ~(call'[d].kind = "job" /\ call'[d].job = j)
      BY <1>1, <2>1, <2>2 DEF Once, SameJob
    <2>6. \A d \in Calls : call'[d].pc = "add" /\ call'[d].job = j => j \notin accepted'
      <3> SUFFICES ASSUME NEW d \in Calls, call'[d].pc = "add", call'[d].job = j
                   PROVE  j \notin accepted'
        OBVIOUS
      <3>1. d # c /\ call[d].pc = "add" /\ call[d].job = j /\ call[d].kind = "job"
        BY <1>1, <2>2, <2>3 DEF SameJob
      <3>2. j # k
        BY <1>1, <2>1, <3>1 DEF Once
      <3> QED BY <1>1, <2>1, <3>1, <3>2 DEF Once
    <2>7. \A d, e \in Calls : /\ call'[d].kind = "job" /\ call'[d].job = j
                              /\ call'[e].kind = "job" /\ call'[e].job = j
                              => d = e
      BY <2>1, <2>2 DEF Once, SameJob
    <2> QED BY <2>4, <2>5, <2>6, <2>7 DEF Once
  <1> QED BY <1>3, <1>5 DEF OnceInv

(* A job that is taken for the first time has no other call. *)
LEMMA OnceStart ==
  ASSUME TypeInv, TypeInv', Content, OnceInv, [Next]_vars,
         NEW c \in Calls, NEW w \in Workers, NEW k \in Jobs, StartJob(c, w, k)
  PROVE  OnceInv'
  <1> DEFINE r == NewCall("add", "job", w, k, None)
  <1>1. r.pc = "add" /\ r.kind = "job" /\ r.job = k
    BY DEF NewCall
  <1>2. /\ call[c] = Idle
        /\ call'[c] = r
        /\ \A d \in Calls : d # c => call'[d] = call[d]
        /\ jobState[k] = "waiting" /\ jobState'[k] = "active"
        /\ \A j \in Jobs : j # k => jobState'[j] = jobState[j]
        /\ stalls' = stalls
    BY DEF StartJob, TypeInv, TypeOK
  <1> HIDE DEF r
  <1>3. ~ \E d \in Calls : AddToBatch(d)
    <2> SUFFICES ASSUME NEW d \in Calls, AddToBatch(d) PROVE FALSE
      OBVIOUS
    <2>1. call[d].pc = "add" /\ call'[d].pc = "reply"
      BY AddToBatchEffect
    <2> QED BY <1>1, <1>2, <2>1, IdleCall
  <1>4. /\ Stored'
        /\ accepted' = accepted
        /\ \A j \in Jobs, b \in BatchIds : In(j, b)' => In(j, b)
    BY <1>3, RowsStep DEF OnceInv
  <1>5. ASSUME NEW j \in Jobs, stalls'[j] = 0 PROVE Once(j)'
    <2>1. Once(j)
      BY <1>2, <1>5 DEF OnceInv
    <2>2. \A a, b \in BatchIds : In(j, a)' /\ In(j, b)' => a = b
      BY <1>4, <2>1 DEF Once
    <2>3. jobState'[j] = "waiting" =>
             j \notin accepted' /\ \A d \in Calls : ~(call'[d].kind = "job" /\ call'[d].job = j)
      BY <1>1, <1>2, <1>4, <2>1 DEF Once
    <2>4. \A d \in Calls : call'[d].pc = "add" /\ call'[d].job = j => j \notin accepted'
      BY <1>1, <1>2, <1>4, <2>1 DEF Once
    <2>5. \A d, e \in Calls : /\ call'[d].kind = "job" /\ call'[d].job = j
                              /\ call'[e].kind = "job" /\ call'[e].job = j
                              => d = e
      BY <1>1, <1>2, <2>1 DEF Once
    <2> QED BY <2>2, <2>3, <2>4, <2>5 DEF Once
  <1> QED BY <1>4, <1>5 DEF OnceInv

(* A row of an unrepeated job stays in one batch. *)
LEMMA OnceNext ==
  ASSUME TypeInv, TypeInv', Content, OnceInv, [Next]_vars
  PROVE  OnceInv'
  <1>1. CASE \E c \in Calls, w \in Workers, k \in Jobs : StartJob(c, w, k)
    BY <1>1, OnceStart
  <1>2. CASE ~ \E c \in Calls, w \in Workers, k \in Jobs : StartJob(c, w, k)
    <2>1. Calm
      BY <1>2, CalmSteps
    <2> QED BY <2>1, OnceCalm, OnceAdd
  <1> QED BY <1>1, <1>2

AllInv == TypeInv /\ Content /\ OnceInv

(* The invariant that the properties below follow from. *)
LEMMA AllInvariant == Spec => []AllInv
  <1>1. Init => AllInv
    BY TypeInit, ContentInit, OnceInit DEF AllInv
  <1>2. AllInv /\ [Next]_vars => AllInv'
    BY TypeNext, ContentNext, OnceNext DEF AllInv
  <1> QED BY <1>1, <1>2, PTL DEF Spec

(* No announcement is put into two batches unless its job stalled. *)
THEOREM OnceSafety == Spec => []NoDoubleBatching
  <1>1. AllInv => NoDoubleBatching
    BY DEF AllInv, OnceInv, Once, In, NoDoubleBatching
  <1> QED BY <1>1, AllInvariant, PTL

-----------------------------------------------------------------------------
(* The count of the open batch. *)

Count == /\ IsFiniteSet(openRows)
         /\ Cardinality(openRows) <= rowCount
         /\ (\A j \in openRows : stalls[j] = 0) => rowCount = Cardinality(openRows)

(* Only addToBatch and lockBatch touch the open batch, and no step forgets a stall. *)
LEMMA OpenBatchStep ==
  ASSUME TypeInv, TypeInv', [Next]_vars, ~ \E c \in Calls : AddToBatch(c)
  PROVE  \/ openRows' = {} /\ rowCount' = 0
         \/ /\ openRows' = openRows /\ rowCount' = rowCount
            /\ \A j \in Jobs : stalls'[j] = 0 => stalls[j] = 0
  <1>1. \/ openRows' = {} /\ rowCount' = 0
        \/ openRows' = openRows /\ rowCount' = rowCount
    <2>1. ASSUME NEW c \in Calls, CallStep(c)
          PROVE  (openRows' = {} /\ rowCount' = 0) \/ UNCHANGED openBatch
      BY <2>1 DEF CallStep, Reply, Finish, LockBatch, Emit, Unlock, SetupActiveBatchTimeout
    <2>2. ASSUME NEW c \in Calls, CallFails(c) PROVE UNCHANGED openBatch
      BY <2>2 DEF CallFails, JobThrows, BootThrows, TimerThrows, UnlockFails, Die
    <2> QED BY <2>1, <2>2 DEF Next, StartJob, FireTimer, Restart, Crash, Die, StallJob,
                              LockExpires, vars, openBatch
  <1>2. \A j \in Jobs : stalls'[j] = 0 => stalls[j] = 0
    <2>1. CASE \E c \in Calls, w \in Workers, j \in Jobs : StartJob(c, w, j)
      BY <2>1 DEF StartJob
    <2>2. CASE ~ \E c \in Calls, w \in Workers, j \in Jobs : StartJob(c, w, j)
      BY <2>2, CalmSteps DEF Calm
    <2> QED BY <2>1, <2>2
  <1> QED BY <1>1, <1>2

(* A row that is stored a second time is counted a second time, but then its job stalled. *)
LEMMA CountAdd ==
  ASSUME TypeInv, OnceInv, Count, NEW c \in Calls, AddToBatch(c)
  PROVE  Count'
  <1> DEFINE k == call[c].job
  <1>1. /\ k \in Jobs /\ call[c].pc = "add" /\ openRows' = openRows \cup {k}
        /\ openRows \in SUBSET Jobs /\ rowCount \in Nat /\ stalls' = stalls
    BY AddToBatchEffect DEF AddToBatch, queue, TypeInv, TypeOK
  <1>2. rowCount' = rowCount + 1
    <2>1. openId = None => rowCount = 0
      BY DEF TypeInv, OpenKeys
    <2> QED BY <1>1, <2>1 DEF AddToBatch, OpenNewBatch, JoinOpenBatch
  <1> HIDE DEF k
  <1>3. /\ IsFiniteSet(openRows') /\ Cardinality(openRows) \in Nat
        /\ Cardinality(openRows') = IF k \in openRows THEN Cardinality(openRows)
                                                      ELSE Cardinality(openRows) + 1
    BY <1>1, FS_AddElement, FS_CardinalityType DEF Count
  <1>4. Cardinality(openRows') <= rowCount'
    BY <1>1, <1>2, <1>3 DEF Count
  <1>5. ASSUME \A j \in openRows' : stalls'[j] = 0 PROVE rowCount' = Cardinality(openRows')
    <2>1. k \notin accepted
      BY <1>1, <1>5 DEF OnceInv, Once, k
    <2>2. k \notin openRows
      BY <2>1 DEF OnceInv, Stored
    <2>3. \A j \in openRows : stalls[j] = 0
      BY <1>1, <1>5
    <2> QED BY <1>1, <1>2, <1>3, <2>2, <2>3 DEF Count
  <1> QED BY <1>3, <1>4, <1>5 DEF Count

(* Every step keeps the count. *)
LEMMA CountNext ==
  ASSUME TypeInv, TypeInv', OnceInv, Count, [Next]_vars
  PROVE  Count'
  <1>1. CASE \E c \in Calls : AddToBatch(c)
    BY <1>1, CountAdd
  <1>2. CASE openRows' = {} /\ rowCount' = 0
    BY <1>2, FS_EmptySet DEF Count
  <1>3. CASE /\ openRows' = openRows /\ rowCount' = rowCount
             /\ \A j \in Jobs : stalls'[j] = 0 => stalls[j] = 0
    BY <1>3 DEF Count, TypeInv, TypeOK
  <1> QED BY <1>1, <1>2, <1>3, OpenBatchStep

(* The metadata and the rows of a batch exist together, and the metadata's count is never  *)
(* below the number of rows; it is exact while no job of the batch was handed out twice.   *)
THEOREM KeysSafety == Spec => []KeysInStep
  <1>1. Init => Count
    BY FS_EmptySet DEF Init, Count
  <1>2. AllInv /\ AllInv' /\ Count /\ [Next]_vars => Count'
    BY CountNext DEF AllInv
  <1>3. Spec => []Count
    BY <1>1, <1>2, AllInvariant, PTL DEF Spec
  <1>4. AllInv /\ Count => KeysInStep
    BY DEF AllInv, TypeInv, OpenKeys, Count, KeysInStep
  <1> QED BY <1>3, <1>4, AllInvariant, PTL

-----------------------------------------------------------------------------
(* Refinement. *)

(* Only StallJob counts a repetition. *)
LEMMA StallsStep ==
  ASSUME [Next]_vars, ~ \E j \in Jobs : StallJob(j)
  PROVE  stalls' = stalls
  <1>1. \A c \in Calls : CallStep(c) => stalls' = stalls
    BY DEF CallStep, AddToBatch, Reply, Finish, LockBatch, Emit, Unlock,
           SetupActiveBatchTimeout, queue
  <1>2. \A c \in Calls : CallFails(c) => stalls' = stalls
    BY DEF CallFails, JobThrows, BootThrows, TimerThrows, UnlockFails, Die, queue
  <1>3. Next => stalls' = stalls
    BY <1>1, <1>2 DEF Next, StartJob, FireTimer, Restart, Crash, Die, LockExpires, queue
  <1> QED BY <1>3 DEF vars, queue

(* The initial states are BatchDelivery's. *)
LEMMA DeliveryInit == Init => Delivery!Init
  BY DEF Init, Delivery!Init

(* Every step is one of BatchDelivery's, or changes nothing it sees. *)
LEMMA DeliveryStep ==
  ASSUME AllInv, AllInv', [Next]_vars
  PROVE  [Delivery!Next]_(Delivery!vars)
  <1> USE DEF AllInv
  <1>1. ASSUME NEW c \in Calls, AddToBatch(c) PROVE Delivery!Next
    <2>1. /\ call[c].job \in Jobs
          /\ accepted' = accepted \cup {call[c].job}
          /\ out' = out
      BY <1>1, AddToBatchEffect
    <2>2. stalls' = stalls
      BY <1>1 DEF AddToBatch, queue
    <2>3. Delivery!Store(call[c].job)
      BY <2>1, <2>2 DEF Delivery!Store
    <2> QED BY <2>1, <2>3 DEF Delivery!Next
  <1>2. ASSUME NEW j \in Jobs, StallJob(j) PROVE Delivery!Next
    <2>1. accepted' = accepted /\ out' = out /\ stalls' = [stalls EXCEPT ![j] = @ + 1]
      BY <1>2 DEF StallJob, history
    <2>2. {k \in Jobs : stalls'[k] > 0} = {k \in Jobs : stalls[k] > 0} \cup {j}
      BY <2>1 DEF TypeInv, TypeOK
    <2>3. Delivery!Repeat(j)
      BY <2>1, <2>2 DEF Delivery!Repeat
    <2> QED BY <2>3 DEF Delivery!Next
  <1>3. ASSUME NEW c \in Calls, Emit(c)
        PROVE  Delivery!Next \/ UNCHANGED Delivery!vars
    <2> DEFINE b == call[c].held
               S == call[c].rows
    <2>1. /\ b \in BatchIds /\ S # {} /\ S \subseteq Jobs /\ S \subseteq accepted
          /\ accepted' = accepted
          /\ out' = [out EXCEPT ![b] = IF @ = {} THEN S ELSE @]
          /\ stalls' = stalls
      BY <1>3, EmitEffect, HeldTypes DEF Closing, OnceInv, Stored, Emit, queue
    <2>2. CASE out[b] # {}
      <3>1. out' = out
        BY <2>1, <2>2 DEF TypeInv, TypeOK
      <3> QED BY <2>1, <3>1 DEF Delivery!vars
    <2>3. CASE out[b] = {}
      <3>1. out' = [out EXCEPT ![b] = S]
        BY <2>1, <2>3
      <3>2. ASSUME NEW a \in BatchIds, NEW j \in out[a] \cap S
            PROVE  j \in Jobs /\ stalls[j] > 0
        <4>1. j \in Jobs /\ In(j, a) /\ In(j, b) /\ a # b /\ stalls[j] \in Nat
          BY <2>1, <2>3, <3>2 DEF In, TypeInv, TypeOK
        <4>2. stalls[j] # 0
          BY <2>1, <4>1 DEF OnceInv, Once
        <4> QED BY <4>1, <4>2
      <3>3. Delivery!Deliver(b, S)
        BY <2>1, <2>3, <3>1, <3>2 DEF Delivery!Deliver
      <3> QED BY <2>1, <3>3 DEF Delivery!Next
    <2> QED BY <2>2, <2>3
  <1>4. CASE /\ ~ \E c \in Calls : AddToBatch(c) \/ Emit(c)
             /\ ~ \E j \in Jobs : StallJob(j)
    <2>1. stalls' = stalls
      BY <1>4, StallsStep
    <2>2. out' = out /\ accepted' = accepted
      BY <1>4, StepCases, QuietSteps, TakesOverEffect, LocksOpenEffect, UnlockEffect DEF Quiet
    <2> QED BY <2>1, <2>2 DEF Delivery!vars
  <1> QED BY <1>1, <1>2, <1>3, <1>4

(* Batching implements BatchDelivery, whatever crashes, stalls, errors and delays occur. *)
THEOREM Refinement == Spec => ImplementsDelivery
  <1>1. AllInv /\ AllInv' /\ [Next]_vars => [Delivery!Next]_(Delivery!vars)
    BY DeliveryStep
  <1> QED BY <1>1, DeliveryInit, AllInvariant, PTL DEF Spec, ImplementsDelivery, Delivery!Spec
=============================================================================
