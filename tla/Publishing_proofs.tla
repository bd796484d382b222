-------------------------- MODULE Publishing_proofs --------------------------
(* Theorems about Publishing, for any batches, transactions, calls, limits and faults. *)
EXTENDS Publishing, FiniteSetTheorems, TLAPS

(* Taken apart in every step. *)
USE PublishingAssumption
    DEF Jobs, CallRec, Idle, InBlock, BatchOf, Goto, Throws, Mishap,
        queues, chain, history

-----------------------------------------------------------------------------
(* The inductive invariant. *)

(* What a call carries depends on where it is. *)
CallShape(c) ==
    /\ call[c].pc = "idle" => call[c] = Idle
    /\ call[c].pc # "idle" => call[c].job \in Jobs
    /\ call[c].pc \in {"announce", "enqueue"} => call[c].job \in BatchJobs
    /\ call[c].pc \in {"send", "track", "check"} => call[c].job \in Batches
    /\ call[c].pc \in {"crawl", "remove", "readd"} => call[c].job \in Txs
    /\ call[c].pc \notin {"check", "done"} => call[c].fate = "ok"
    /\ call[c].pc = "track" => call[c].tx # None
    /\ call[c].job \in Batches /\ call[c].pc \in {"check", "done"} /\ call[c].fate = "ok"
          => call[c].tx # None
    /\ call[c].tx # None => /\ call[c].pc \in {"track", "check", "done"}
                            /\ call[c].job \in Batches
                            /\ batchOf[call[c].tx] = call[c].job

(* A lock belongs to a call that works on the job. *)
LockShape(j) == owner[j] # None => /\ owner[j] \in Calls
                                   /\ state[j] = "active"
                                   /\ call[owner[j]].job = j

(* A receipt job is there for a transaction only, and from when it was added on. *)
ReceiptShape(t) ==
    /\ batchOf[t] = None <=> tx[t] = "none"
    /\ tx[t] = "none" => state[t] = "absent"
    /\ state[t] = "absent" => made[t] = 0
    /\ state[t] \in {"waiting", "active"} => made[t] < limit[t]
    /\ \A c \in Calls : call[c].job = t => state[t] # "absent"
    /\ \A c \in Calls : call[c].pc = "track" /\ call[c].tx = t => state[t] = "absent"
    /\ \A c, d \in Calls : call[c].pc = "track" /\ call[d].pc = "track"
                           /\ call[c].tx = t /\ call[d].tx = t => c = d

(* A batch job is never retried. *)
BatchShape(j) == limit[j] = RetryAttempts /\ state[j] # "absent"

Shape == /\ \A c \in Calls : CallShape(c)
         /\ \A j \in Jobs : LockShape(j)
         /\ \A t \in Txs : ReceiptShape(t)
         /\ \A j \in BatchJobs : BatchShape(j)

(* Until a call of the batch is cut short, each has its job's lock. *)
LockHeld ==
    \A c \in Calls : call[c].pc # "idle" /\ BatchOf(call[c].job) \notin interrupted
        => owner[call[c].job] = c

(* Once it has sent its transaction, only being cut short makes a call try again. *)
SentOnly == \A c \in Calls : call[c].tx # None /\ call[c].fate # "ok"
                => call[c].job \in interrupted

(* The announcer has not added the publish job yet. *)
Unannounced(j) ==
    \/ state[j] = "waiting"
    \/ state[j] = "active" /\ \A c \in Calls : call[c].job = j => call[c].pc # "done"

(* A publish job that is still to be sent. *)
Unsent(b) ==
    /\ state[b] \in {"waiting", "active"}
    /\ \A c \in Calls : call[c].job = b => call[c].tx = None

(* A transaction after which the monitor is still to publish again. *)
Unresolved(t) ==
    /\ tx[t] = "congested"
    /\ state[t] \notin {"completed", "failed"}
    /\ \A c \in Calls : call[c].job = t /\ call[c].pc = "done" => call[c].fate # "ok"

Clean == Batches \ (interrupted \cup reorged)

(* An undisturbed batch has at most one of these to send it: the batch job, the publish     *)
(* job, a transaction that may yet be stored, and a failed one that is to be replaced.      *)
FirstOnce == \A j \in BatchJobs : Carries[j] \in Clean /\ Unannounced(j)
                => state[Carries[j]] = "absent" /\ \A t \in Txs : batchOf[t] # Carries[j]
SentOnce(b) == Unsent(b) => Alive(b) = {}
AliveOnce(b) == \A s, t \in Alive(b) : s = t
ReplacedOnce(b) ==
    \A t \in Txs : batchOf[t] = b /\ Unresolved(t) =>
        /\ Alive(b) = {} /\ ~Unsent(b)
        /\ \A s \in Txs : batchOf[s] = b /\ Unresolved(s) => s = t

(* Only after a congested transaction the monitor publishes again. *)
ReplacesFailed ==
    \A c \in Calls : call[c].pc \in {"remove", "readd"} /\ batchOf[call[c].job] \in Clean
        => tx[call[c].job] = "congested"

Once == /\ FirstOnce /\ ReplacesFailed
        /\ \A b \in Clean : SentOnce(b) /\ AliveOnce(b) /\ ReplacedOnce(b)

IInv == TypeOK /\ Shape /\ LockHeld /\ SentOnly /\ Once

-----------------------------------------------------------------------------
(* The types and shapes. *)

(* An idle call has a call's type. *)
LEMMA IdleCall == Idle \in CallRec
  OBVIOUS

(* The transaction a publisher submits is one that was not there. *)
LEMMA FreshTxIsFresh ==
  (\E t \in Txs : tx[t] = "none") => FreshTx \in Txs /\ tx[FreshTx] = "none"
  BY DEF FreshTx

(* A call that goes on keeps its type. *)
LEMMA MovedCalls ==
  ASSUME call \in [Calls -> CallRec], NEW c \in Calls,
         NEW p \in {"check", "readd", "done"}
  PROVE  /\ [call EXCEPT ![c].pc = p] \in [Calls -> CallRec]
         /\ [call EXCEPT ![c].pc = p, ![c].fate = "retry"] \in [Calls -> CallRec]
  <1>1. call[c] \in CallRec
    OBVIOUS
  <1>2. [call EXCEPT ![c].pc = p] \in [Calls -> CallRec]
    BY <1>1
  <1>3. [call EXCEPT ![c].pc = p, ![c].fate = "retry"] \in [Calls -> CallRec]
    BY <1>1
  <1> QED BY <1>2, <1>3

(* Adding a publish job changes no type. *)
LEMMA AddedTypes ==
  ASSUME TypeOK, NEW b \in Batches, NEW n \in Nat, AddPublishJob(b, n)
  PROVE  /\ state' \in [Jobs -> {"absent", "waiting", "active", "completed", "failed"}]
         /\ made' \in [Jobs -> Nat] /\ limit' \in [Jobs -> Nat] /\ stalls' \in [Jobs -> Nat]
  <1>1. CASE state[b] = "absent"
    BY <1>1 DEF AddPublishJob, TypeOK
  <1>2. CASE state[b] # "absent"
    BY <1>2 DEF AddPublishJob, TypeOK
  <1> QED BY <1>1, <1>2

(* The monitor goes on to replace a batch only after a congested transaction, unless the   *)
(* receipt has no attempts left, and ends well only after one that is there for good.      *)
LEMMA CrawlEffect ==
  ASSUME TypeOK, Shape, NEW c \in Calls, Crawl(c)
  PROVE  /\ call' \in [Calls -> CallRec]
         /\ call[c].pc = "crawl" /\ call[c].job \in Txs
         /\ call'[c].job = call[c].job /\ call'[c].tx = None /\ call[c].tx = None
         /\ call'[c].pc \in {"remove", "done"}
         /\ \/ /\ call'[c].pc = "remove" /\ call'[c].fate = "ok"
               /\ \/ tx[call[c].job] = "congested"
                  \/ ~(made[call[c].job] < limit[call[c].job])
            \/ /\ call'[c].pc = "done" /\ call'[c].fate = "ok"
               /\ tx[call[c].job] \in {"stored", "erred"}
            \/ call'[c].pc = "done" /\ call'[c].fate # "ok"
         /\ \A d \in Calls : d # c => call'[d] = call[d]
         /\ UNCHANGED <<queues, chain, faults, history>>
  <1>1. /\ call \in [Calls -> CallRec] /\ CallShape(c)
        /\ call[c].pc = "crawl" /\ call[c].job \in Txs /\ call[c].tx = None
        /\ call[c].fate = "ok"
    BY DEF Crawl, TypeOK, Shape, CallShape
  <1>2. CASE NotFound(c)
    <2>1. \/ call' = [call EXCEPT ![c].pc = "done", ![c].fate = "retry"]
          \/ call' = [call EXCEPT ![c].pc = "remove"] /\ ~(made[call[c].job] < limit[call[c].job])
      BY <1>2 DEF NotFound
    <2> QED BY <1>1, <2>1 DEF Crawl
  <1>3. CASE Found(c)
    <2>1. \/ call' = [call EXCEPT ![c].pc = "done"] /\ tx[call[c].job] \in {"stored", "erred"}
          \/ call' = [call EXCEPT ![c].pc = "remove"] /\ tx[call[c].job] = "congested"
          \/ call' = [call EXCEPT ![c].pc = "done", ![c].fate = "fatal"]
      BY <1>3 DEF Found
    <2> QED BY <1>1, <2>1 DEF Crawl
  <1> QED BY <1>2, <1>3 DEF Crawl

(* Every step keeps the types. *)
LEMMA TypeStep ==
  ASSUME TypeOK, Shape, Next
  PROVE  TypeOK'
  <1> USE DEF TypeOK, Shape, CallShape, LockShape, ReceiptShape
  <1>1. ASSUME NEW c \in Calls, NEW j \in Jobs, Take(c, j) PROVE TypeOK'
    <2>1. [Idle EXCEPT !.job = j, !.pc = FirstStep(j)] \in CallRec
      BY DEF FirstStep
    <2>2. call' \in [Calls -> CallRec]
      BY <1>1, <2>1 DEF Take, TypeOK
    <2>3. faults' \in Nat
      BY <1>1 DEF Take, TypeOK
    <2> QED BY <1>1, <2>2, <2>3 DEF Take, FirstStep, TypeOK, Shape, CallShape
  <1>2. ASSUME NEW c \in Calls, Finish(c) PROVE TypeOK'
    <2> HIDE DEF Shape, TypeOK
    <2>1. call[c].job \in Jobs
      BY <1>2 DEF Finish, TypeOK, Shape, CallShape
    <2>2. call' \in [Calls -> CallRec]
      BY <1>2 DEF Finish, TypeOK
    <2>3. /\ state' \in [Jobs -> {"absent", "waiting", "active", "completed", "failed"}]
          /\ made' \in [Jobs -> Nat]
          /\ owner' \in [Jobs -> Calls \cup {None}]
      BY <1>2, <2>1, SMTT(30) DEF Finish, TypeOK
    <2> QED BY <1>2, <2>2, <2>3 DEF Finish, TypeOK
  <1>3. ASSUME NEW c \in Calls, Die(c) PROVE TypeOK'
    BY <1>3 DEF Die, HadEffect
  <1>4. ASSUME NEW j \in Jobs, StallJob(j) PROVE TypeOK'
    BY <1>4 DEF StallJob
  <1>5. ASSUME NEW b \in Batches, Evict(b) PROVE TypeOK'
    BY <1>5 DEF Evict
  <1>6. ASSUME NEW c \in Calls, Announce(c) PROVE TypeOK'
    BY <1>6 DEF Announce
  <1>7. ASSUME NEW c \in Calls, Enqueue(c) PROVE TypeOK'
    <2> HIDE DEF Shape, TypeOK
    <2>1. Carries[call[c].job] \in Batches
      BY <1>7 DEF Enqueue, TypeOK, Shape, CallShape, ReceiptShape
    <2>2. call' \in [Calls -> CallRec]
      BY <1>7, MovedCalls DEF Enqueue, TypeOK
    <2>3. /\ state' \in [Jobs -> {"absent", "waiting", "active", "completed", "failed"}]
          /\ made' \in [Jobs -> Nat] /\ limit' \in [Jobs -> Nat] /\ stalls' \in [Jobs -> Nat]
      BY <1>7, <2>1, AddedTypes DEF Enqueue
    <2> HIDE DEF Jobs, CallRec
    <2> QED BY <1>7, <2>2, <2>3 DEF Enqueue, TypeOK
  <1>8. ASSUME NEW c \in Calls, AnnounceThrows(c) PROVE TypeOK'
    BY <1>8 DEF AnnounceThrows, AddPublishJob
  <1>9. ASSUME NEW c \in Calls, Send(c) PROVE TypeOK'
    BY <1>9 DEF Send, Submit, FreshTx
  <1>10. ASSUME NEW c \in Calls, SendThrows(c) PROVE TypeOK'
    BY <1>10 DEF SendThrows, Submit, FreshTx
  <1>11. ASSUME NEW c \in Calls, CannotPay(c) PROVE TypeOK'
    BY <1>11 DEF CannotPay
  <1>12. ASSUME NEW c \in Calls, Track(c) PROVE TypeOK'
    BY <1>12, SMTT(30) DEF Track, AddReceipt
  <1>13. ASSUME NEW c \in Calls, TrackThrows(c) PROVE TypeOK'
    BY <1>13 DEF TrackThrows, AddReceipt
  <1>14. ASSUME NEW c \in Calls, Check(c) PROVE TypeOK'
    <2>1. call' \in [Calls -> CallRec]
      BY <1>14, MovedCalls DEF Check, TypeOK
    <2>2. paused' \in BOOLEAN
      BY <1>14 DEF Check, TypeOK
    <2>3. interrupted' \subseteq Batches
      BY <1>14 DEF Check, TypeOK, Shape, CallShape
    <2>4. faults' \in Nat
      BY <1>14 DEF Check, TypeOK
    <2> QED BY <1>14, <2>1, <2>2, <2>3, <2>4 DEF Check, TypeOK, Shape, CallShape
  <1>15. ASSUME NEW c \in Calls, CheckThrows(c) PROVE TypeOK'
    <2>1. call' \in [Calls -> CallRec]
      BY <1>15, MovedCalls DEF CheckThrows, TypeOK
    <2>2. paused' \in BOOLEAN
      BY <1>15 DEF CheckThrows, TypeOK
    <2>3. interrupted' \subseteq Batches
      BY <1>15 DEF CheckThrows, TypeOK, Shape, CallShape
    <2>4. faults' \in Nat
      BY <1>15 DEF CheckThrows, TypeOK
    <2> QED BY <1>15, <2>1, <2>2, <2>3, <2>4 DEF CheckThrows, TypeOK, Shape, CallShape
  <1>16. ASSUME NEW c \in Calls, Crawl(c) PROVE TypeOK'
    <2>1. call' \in [Calls -> CallRec] /\ UNCHANGED <<queues, chain, faults, history>>
      BY <1>16, CrawlEffect
    <2>2. CallShape(c) /\ call'[c].pc \in {"remove", "done"} /\ call'[c].job \in Txs
          /\ \A d \in Calls : d # c => call'[d] = call[d]
      BY <1>16, CrawlEffect DEF Shape
    <2> HIDE DEF CallRec
    <2> QED BY <2>1, <2>2 DEF TypeOK
  <1>17. ASSUME NEW c \in Calls, CrawlThrows(c) PROVE TypeOK'
    BY <1>17, SMTT(30) DEF CrawlThrows
  <1>18. ASSUME NEW c \in Calls, Remove(c) PROVE TypeOK'
    <2> HIDE DEF Shape, TypeOK
    <2>1. batchOf[call[c].job] \in Batches
      BY <1>18 DEF Remove, TypeOK, Shape, CallShape, ReceiptShape
    <2>2. call' \in [Calls -> CallRec]
      BY <1>18, MovedCalls DEF Remove, TypeOK
    <2>3. state' \in [Jobs -> {"absent", "waiting", "active", "completed", "failed"}]
          /\ kept' \subseteq Batches
      BY <1>18, <2>1 DEF Remove, TypeOK
    <2> QED BY <1>18, <2>2, <2>3 DEF Remove, TypeOK
  <1>19. ASSUME NEW c \in Calls, Readd(c) PROVE TypeOK'
    <2> HIDE DEF Shape, TypeOK
    <2>1. batchOf[call[c].job] \in Batches
      BY <1>19 DEF Readd, TypeOK, Shape, CallShape, ReceiptShape
    <2>2. call' \in [Calls -> CallRec]
      BY <1>19, MovedCalls DEF Readd, TypeOK
    <2>3. /\ state' \in [Jobs -> {"absent", "waiting", "active", "completed", "failed"}]
          /\ made' \in [Jobs -> Nat] /\ limit' \in [Jobs -> Nat] /\ stalls' \in [Jobs -> Nat]
      BY <1>19, <2>1, AddedTypes DEF Readd
    <2> HIDE DEF Jobs, CallRec
    <2> QED BY <1>19, <2>2, <2>3 DEF Readd, TypeOK
  <1>20. ASSUME NEW c \in Calls, RetryThrows(c) PROVE TypeOK'
    BY <1>20 DEF RetryThrows, AddPublishJob
  <1>21. ASSUME NEW t \in Txs, Include(t) PROVE TypeOK'
    BY <1>21 DEF Include
  <1>22. ASSUME NEW t \in Txs, Drop(t) PROVE TypeOK'
    BY <1>22 DEF Drop
  <1>23. ASSUME NEW t \in Txs, Finalize(t) PROVE TypeOK'
    BY <1>23 DEF Finalize
  <1>24. ASSUME NEW t \in Txs, Reorganise(t) PROVE TypeOK'
    BY <1>24 DEF Reorganise
  <1> QED
    BY <1>1, <1>2, <1>3, <1>4, <1>5, <1>6, <1>7, <1>8, <1>9, <1>10, <1>11, <1>12,
       <1>13, <1>14, <1>15, <1>16, <1>17, <1>18, <1>19, <1>20, <1>21, <1>22, <1>23, <1>24
       DEF Next, CallStep, CallFails

(* What a call carries still fits where it is. *)
LEMMA CallShapeStep ==
  ASSUME TypeOK, TypeOK', Shape, Next
  PROVE  \A d \in Calls : CallShape(d)'
  <1> USE DEF TypeOK, Shape, CallShape
  <1>1. ASSUME NEW c \in Calls, NEW j \in Jobs, Take(c, j) PROVE \A d \in Calls : CallShape(d)'
    BY <1>1 DEF Take, FirstStep
  <1>2. ASSUME NEW c \in Calls, Finish(c) PROVE \A d \in Calls : CallShape(d)'
    BY <1>2 DEF Finish
  <1>3. ASSUME NEW c \in Calls, Die(c) PROVE \A d \in Calls : CallShape(d)'
    BY <1>3 DEF Die, HadEffect
  <1>4. ASSUME NEW j \in Jobs, StallJob(j) PROVE \A d \in Calls : CallShape(d)'
    BY <1>4 DEF StallJob
  <1>5. ASSUME NEW b \in Batches, Evict(b) PROVE \A d \in Calls : CallShape(d)'
    BY <1>5 DEF Evict
  <1>6. ASSUME NEW c \in Calls, Announce(c) PROVE \A d \in Calls : CallShape(d)'
    BY <1>6 DEF Announce
  <1>7. ASSUME NEW c \in Calls, Enqueue(c) PROVE \A d \in Calls : CallShape(d)'
    BY <1>7 DEF Enqueue, AddPublishJob
  <1>8. ASSUME NEW c \in Calls, AnnounceThrows(c) PROVE \A d \in Calls : CallShape(d)'
    BY <1>8 DEF AnnounceThrows, AddPublishJob
  <1>9. ASSUME NEW c \in Calls, Send(c) PROVE \A d \in Calls : CallShape(d)'
    BY <1>9 DEF Send, Submit, FreshTx
  <1>10. ASSUME NEW c \in Calls, SendThrows(c) PROVE \A d \in Calls : CallShape(d)'
    BY <1>10 DEF SendThrows, Submit, FreshTx
  <1>11. ASSUME NEW c \in Calls, CannotPay(c) PROVE \A d \in Calls : CallShape(d)'
    BY <1>11 DEF CannotPay
  <1>12. ASSUME NEW c \in Calls, Track(c) PROVE \A d \in Calls : CallShape(d)'
    BY <1>12 DEF Track, AddReceipt
  <1>13. ASSUME NEW c \in Calls, TrackThrows(c) PROVE \A d \in Calls : CallShape(d)'
    BY <1>13 DEF TrackThrows, AddReceipt
  <1>14. ASSUME NEW c \in Calls, Check(c) PROVE \A d \in Calls : CallShape(d)'
    BY <1>14 DEF Check
  <1>15. ASSUME NEW c \in Calls, CheckThrows(c) PROVE \A d \in Calls : CallShape(d)'
    BY <1>15 DEF CheckThrows
  <1>16. ASSUME NEW c \in Calls, Crawl(c) PROVE \A d \in Calls : CallShape(d)'
    <2>1. /\ call'[c].pc \in {"remove", "done"} /\ call'[c].job \in Txs /\ call'[c].tx = None
          /\ call'[c].pc = "remove" => call'[c].fate = "ok"
      BY <1>16, CrawlEffect
    <2>2. CallShape(c)'
      BY <2>1 DEF CallShape
    <2>3. ASSUME NEW d \in Calls, d # c PROVE CallShape(d)'
      BY <1>16, <2>3, CrawlEffect DEF Shape, CallShape
    <2> QED BY <2>2, <2>3
  <1>17. ASSUME NEW c \in Calls, CrawlThrows(c) PROVE \A d \in Calls : CallShape(d)'
    BY <1>17 DEF CrawlThrows
  <1>18. ASSUME NEW c \in Calls, Remove(c) PROVE \A d \in Calls : CallShape(d)'
    BY <1>18 DEF Remove
  <1>19. ASSUME NEW c \in Calls, Readd(c) PROVE \A d \in Calls : CallShape(d)'
    BY <1>19 DEF Readd, AddPublishJob
  <1>20. ASSUME NEW c \in Calls, RetryThrows(c) PROVE \A d \in Calls : CallShape(d)'
    BY <1>20 DEF RetryThrows, AddPublishJob
  <1>21. ASSUME NEW t \in Txs, Include(t) PROVE \A d \in Calls : CallShape(d)'
    BY <1>21 DEF Include
  <1>22. ASSUME NEW t \in Txs, Drop(t) PROVE \A d \in Calls : CallShape(d)'
    BY <1>22 DEF Drop
  <1>23. ASSUME NEW t \in Txs, Finalize(t) PROVE \A d \in Calls : CallShape(d)'
    BY <1>23 DEF Finalize
  <1>24. ASSUME NEW t \in Txs, Reorganise(t) PROVE \A d \in Calls : CallShape(d)'
    BY <1>24 DEF Reorganise
  <1> QED
    BY <1>1, <1>2, <1>3, <1>4, <1>5, <1>6, <1>7, <1>8, <1>9, <1>10, <1>11, <1>12,
       <1>13, <1>14, <1>15, <1>16, <1>17, <1>18, <1>19, <1>20, <1>21, <1>22, <1>23, <1>24
       DEF Next, CallStep, CallFails

(* Locks still belong to calls that work on the job. *)
LEMMA LockShapeStep ==
  ASSUME TypeOK, TypeOK', Shape, Next
  PROVE  \A i \in Jobs : LockShape(i)'
  <1> USE DEF TypeOK, Shape, CallShape, LockShape, ReceiptShape
  <1>1. ASSUME NEW c \in Calls, NEW j \in Jobs, Take(c, j) PROVE \A i \in Jobs : LockShape(i)'
    BY <1>1 DEF Take, FirstStep
  <1>2. ASSUME NEW c \in Calls, Finish(c) PROVE \A i \in Jobs : LockShape(i)'
    BY <1>2 DEF Finish
  <1>3. ASSUME NEW c \in Calls, Die(c) PROVE \A i \in Jobs : LockShape(i)'
    BY <1>3 DEF Die, HadEffect
  <1>4. ASSUME NEW j \in Jobs, StallJob(j) PROVE \A i \in Jobs : LockShape(i)'
    BY <1>4 DEF StallJob
  <1>5. ASSUME NEW b \in Batches, Evict(b) PROVE \A i \in Jobs : LockShape(i)'
    BY <1>5 DEF Evict
  <1>6. ASSUME NEW c \in Calls, Announce(c) PROVE \A i \in Jobs : LockShape(i)'
    BY <1>6 DEF Announce
  <1>7. ASSUME NEW c \in Calls, Enqueue(c) PROVE \A i \in Jobs : LockShape(i)'
    BY <1>7 DEF Enqueue, AddPublishJob
  <1>8. ASSUME NEW c \in Calls, AnnounceThrows(c) PROVE \A i \in Jobs : LockShape(i)'
    BY <1>8 DEF AnnounceThrows, AddPublishJob
  <1>9. ASSUME NEW c \in Calls, Send(c) PROVE \A i \in Jobs : LockShape(i)'
    BY <1>9 DEF Send, Submit, FreshTx
  <1>10. ASSUME NEW c \in Calls, SendThrows(c) PROVE \A i \in Jobs : LockShape(i)'
    BY <1>10 DEF SendThrows, Submit, FreshTx
  <1>11. ASSUME NEW c \in Calls, CannotPay(c) PROVE \A i \in Jobs : LockShape(i)'
    BY <1>11 DEF CannotPay
  <1>12. ASSUME NEW c \in Calls, Track(c) PROVE \A i \in Jobs : LockShape(i)'
    BY <1>12 DEF Track, AddReceipt
  <1>13. ASSUME NEW c \in Calls, TrackThrows(c) PROVE \A i \in Jobs : LockShape(i)'
    BY <1>13 DEF TrackThrows, AddReceipt
  <1>14. ASSUME NEW c \in Calls, Check(c) PROVE \A i \in Jobs : LockShape(i)'
    BY <1>14 DEF Check
  <1>15. ASSUME NEW c \in Calls, CheckThrows(c) PROVE \A i \in Jobs : LockShape(i)'
    BY <1>15 DEF CheckThrows
  <1>16. ASSUME NEW c \in Calls, Crawl(c) PROVE \A i \in Jobs : LockShape(i)'
    BY <1>16, CrawlEffect
  <1>17. ASSUME NEW c \in Calls, CrawlThrows(c) PROVE \A i \in Jobs : LockShape(i)'
    BY <1>17 DEF CrawlThrows
  <1>18. ASSUME NEW c \in Calls, Remove(c) PROVE \A i \in Jobs : LockShape(i)'
    BY <1>18 DEF Remove
  <1>19. ASSUME NEW c \in Calls, Readd(c) PROVE \A i \in Jobs : LockShape(i)'
    BY <1>19 DEF Readd, AddPublishJob
  <1>20. ASSUME NEW c \in Calls, RetryThrows(c) PROVE \A i \in Jobs : LockShape(i)'
    BY <1>20 DEF RetryThrows, AddPublishJob
  <1>21. ASSUME NEW t \in Txs, Include(t) PROVE \A i \in Jobs : LockShape(i)'
    BY <1>21 DEF Include
  <1>22. ASSUME NEW t \in Txs, Drop(t) PROVE \A i \in Jobs : LockShape(i)'
    BY <1>22 DEF Drop
  <1>23. ASSUME NEW t \in Txs, Finalize(t) PROVE \A i \in Jobs : LockShape(i)'
    BY <1>23 DEF Finalize
  <1>24. ASSUME NEW t \in Txs, Reorganise(t) PROVE \A i \in Jobs : LockShape(i)'
    BY <1>24 DEF Reorganise
  <1> QED
    BY <1>1, <1>2, <1>3, <1>4, <1>5, <1>6, <1>7, <1>8, <1>9, <1>10, <1>11, <1>12,
       <1>13, <1>14, <1>15, <1>16, <1>17, <1>18, <1>19, <1>20, <1>21, <1>22, <1>23, <1>24
       DEF Next, CallStep, CallFails

(* A receipt job is still there for a transaction only. *)
LEMMA ReceiptShapeStep ==
  ASSUME TypeOK, TypeOK', Shape, Next
  PROVE  \A s \in Txs : ReceiptShape(s)'
  <1> USE DEF TypeOK, Shape, CallShape, ReceiptShape
  <1>1. ASSUME NEW c \in Calls, NEW j \in Jobs, Take(c, j) PROVE \A s \in Txs : ReceiptShape(s)'
    BY <1>1 DEF Take, FirstStep
  <1>2. ASSUME NEW c \in Calls, Finish(c) PROVE \A s \in Txs : ReceiptShape(s)'
    BY <1>2 DEF Finish
  <1>3. ASSUME NEW c \in Calls, Die(c) PROVE \A s \in Txs : ReceiptShape(s)'
    BY <1>3 DEF Die, HadEffect
  <1>4. ASSUME NEW j \in Jobs, StallJob(j) PROVE \A s \in Txs : ReceiptShape(s)'
    BY <1>4 DEF StallJob
  <1>5. ASSUME NEW b \in Batches, Evict(b) PROVE \A s \in Txs : ReceiptShape(s)'
    BY <1>5 DEF Evict
  <1>6. ASSUME NEW c \in Calls, Announce(c) PROVE \A s \in Txs : ReceiptShape(s)'
    BY <1>6 DEF Announce
  <1>7. ASSUME NEW c \in Calls, Enqueue(c) PROVE \A s \in Txs : ReceiptShape(s)'
    BY <1>7 DEF Enqueue, AddPublishJob
  <1>8. ASSUME NEW c \in Calls, AnnounceThrows(c) PROVE \A s \in Txs : ReceiptShape(s)'
    BY <1>8 DEF AnnounceThrows, AddPublishJob
  <1>9. ASSUME NEW c \in Calls, Send(c) PROVE \A s \in Txs : ReceiptShape(s)'
    BY <1>9 DEF Send, Submit, FreshTx
  <1>10. ASSUME NEW c \in Calls, SendThrows(c) PROVE \A s \in Txs : ReceiptShape(s)'
    <2>1. CASE UNCHANGED <<tx, batchOf>>
      BY <1>10, <2>1 DEF SendThrows, TypeOK, Shape, CallShape, ReceiptShape
    <2>2. CASE Submit(c)
      BY <1>10, <2>2 DEF SendThrows, Submit, FreshTx, TypeOK, Shape, CallShape, ReceiptShape
    <2> QED BY <1>10, <2>1, <2>2 DEF SendThrows
  <1>11. ASSUME NEW c \in Calls, CannotPay(c) PROVE \A s \in Txs : ReceiptShape(s)'
    BY <1>11 DEF CannotPay
  <1>12. ASSUME NEW c \in Calls, Track(c) PROVE \A s \in Txs : ReceiptShape(s)'
    BY <1>12 DEF Track, AddReceipt
  <1>13. ASSUME NEW c \in Calls, TrackThrows(c) PROVE \A s \in Txs : ReceiptShape(s)'
    BY <1>13 DEF TrackThrows, AddReceipt
  <1>14. ASSUME NEW c \in Calls, Check(c) PROVE \A s \in Txs : ReceiptShape(s)'
    BY <1>14 DEF Check
  <1>15. ASSUME NEW c \in Calls, CheckThrows(c) PROVE \A s \in Txs : ReceiptShape(s)'
    BY <1>15 DEF CheckThrows
  <1>16. ASSUME NEW c \in Calls, Crawl(c) PROVE \A s \in Txs : ReceiptShape(s)'
    <2> SUFFICES ASSUME NEW s \in Txs PROVE ReceiptShape(s)'
      OBVIOUS
    <2>1. ReceiptShape(s) /\ UNCHANGED <<state, made, limit, tx, batchOf>>
      BY <1>16, CrawlEffect DEF Shape
    <2>2. ASSUME NEW d \in Calls
          PROVE  /\ call'[d].job = call[d].job /\ call'[d].tx = call[d].tx
                 /\ call'[d].pc = "track" => call[d].pc = "track"
      <3>1. CASE d = c
        BY <1>16, <3>1, CrawlEffect
      <3>2. CASE d # c
        BY <1>16, <3>2, CrawlEffect
      <3> QED BY <3>1, <3>2
    <2> QED BY <2>1, <2>2 DEF ReceiptShape
  <1>17. ASSUME NEW c \in Calls, CrawlThrows(c) PROVE \A s \in Txs : ReceiptShape(s)'
    BY <1>17 DEF CrawlThrows
  <1>18. ASSUME NEW c \in Calls, Remove(c) PROVE \A s \in Txs : ReceiptShape(s)'
    BY <1>18 DEF Remove
  <1>19. ASSUME NEW c \in Calls, Readd(c) PROVE \A s \in Txs : ReceiptShape(s)'
    BY <1>19 DEF Readd, AddPublishJob
  <1>20. ASSUME NEW c \in Calls, RetryThrows(c) PROVE \A s \in Txs : ReceiptShape(s)'
    BY <1>20 DEF RetryThrows, AddPublishJob
  <1>21. ASSUME NEW t \in Txs, Include(t) PROVE \A s \in Txs : ReceiptShape(s)'
    BY <1>21 DEF Include
  <1>22. ASSUME NEW t \in Txs, Drop(t) PROVE \A s \in Txs : ReceiptShape(s)'
    BY <1>22 DEF Drop
  <1>23. ASSUME NEW t \in Txs, Finalize(t) PROVE \A s \in Txs : ReceiptShape(s)'
    BY <1>23 DEF Finalize
  <1>24. ASSUME NEW t \in Txs, Reorganise(t) PROVE \A s \in Txs : ReceiptShape(s)'
    BY <1>24 DEF Reorganise
  <1> QED
    BY <1>1, <1>2, <1>3, <1>4, <1>5, <1>6, <1>7, <1>8, <1>9, <1>10, <1>11, <1>12,
       <1>13, <1>14, <1>15, <1>16, <1>17, <1>18, <1>19, <1>20, <1>21, <1>22, <1>23, <1>24
       DEF Next, CallStep, CallFails

(* A batch job is still not retried. *)
LEMMA BatchShapeStep ==
  ASSUME TypeOK, TypeOK', Shape, Next
  PROVE  \A i \in BatchJobs : BatchShape(i)'
  <1> DEFINE Goal == \A i \in BatchJobs : BatchShape(i)'
  <1> USE DEF TypeOK, Shape, CallShape, BatchShape
  <1>1. ASSUME NEW c \in Calls, NEW j \in Jobs, Take(c, j) PROVE Goal
    BY <1>1 DEF Take, FirstStep
  <1>2. ASSUME NEW c \in Calls, Finish(c) PROVE Goal
    BY <1>2 DEF Finish
  <1>3. ASSUME NEW c \in Calls, Die(c) PROVE Goal
    BY <1>3 DEF Die, HadEffect
  <1>4. ASSUME NEW j \in Jobs, StallJob(j) PROVE Goal
    BY <1>4 DEF StallJob
  <1>5. ASSUME NEW b \in Batches, Evict(b) PROVE Goal
    BY <1>5 DEF Evict
  <1>6. ASSUME NEW c \in Calls, Announce(c) PROVE Goal
    BY <1>6 DEF Announce
  <1>7. ASSUME NEW c \in Calls, Enqueue(c) PROVE Goal
    BY <1>7 DEF Enqueue, AddPublishJob
  <1>8. ASSUME NEW c \in Calls, AnnounceThrows(c) PROVE Goal
    BY <1>8 DEF AnnounceThrows, AddPublishJob
  <1>9. ASSUME NEW c \in Calls, Send(c) PROVE Goal
    BY <1>9 DEF Send, Submit, FreshTx
  <1>10. ASSUME NEW c \in Calls, SendThrows(c) PROVE Goal
    BY <1>10 DEF SendThrows, Submit, FreshTx
  <1>11. ASSUME NEW c \in Calls, CannotPay(c) PROVE Goal
    BY <1>11 DEF CannotPay
  <1>12. ASSUME NEW c \in Calls, Track(c) PROVE Goal
    BY <1>12 DEF Track, AddReceipt
  <1>13. ASSUME NEW c \in Calls, TrackThrows(c) PROVE Goal
    BY <1>13 DEF TrackThrows, AddReceipt
  <1>14. ASSUME NEW c \in Calls, Check(c) PROVE Goal
    BY <1>14 DEF Check
  <1>15. ASSUME NEW c \in Calls, CheckThrows(c) PROVE Goal
    BY <1>15 DEF CheckThrows
  <1>16. ASSUME NEW c \in Calls, Crawl(c) PROVE Goal
    BY <1>16, CrawlEffect
  <1>17. ASSUME NEW c \in Calls, CrawlThrows(c) PROVE Goal
    BY <1>17 DEF CrawlThrows
  <1>18. ASSUME NEW c \in Calls, Remove(c) PROVE Goal
    BY <1>18 DEF Remove
  <1>19. ASSUME NEW c \in Calls, Readd(c) PROVE Goal
    BY <1>19 DEF Readd, AddPublishJob
  <1>20. ASSUME NEW c \in Calls, RetryThrows(c) PROVE Goal
    BY <1>20 DEF RetryThrows, AddPublishJob
  <1>21. ASSUME NEW t \in Txs, Include(t) PROVE Goal
    BY <1>21 DEF Include
  <1>22. ASSUME NEW t \in Txs, Drop(t) PROVE Goal
    BY <1>22 DEF Drop
  <1>23. ASSUME NEW t \in Txs, Finalize(t) PROVE Goal
    BY <1>23 DEF Finalize
  <1>24. ASSUME NEW t \in Txs, Reorganise(t) PROVE Goal
    BY <1>24 DEF Reorganise
  <1> QED
    BY <1>1, <1>2, <1>3, <1>4, <1>5, <1>6, <1>7, <1>8, <1>9, <1>10, <1>11, <1>12,
       <1>13, <1>14, <1>15, <1>16, <1>17, <1>18, <1>19, <1>20, <1>21, <1>22, <1>23, <1>24
       DEF Next, CallStep, CallFails

(* The types and shapes together are inductive. *)
LEMMA ShapeStep == TypeOK /\ Shape /\ [Next]_vars => TypeOK' /\ Shape'
  <1>1. CASE Next
    BY <1>1, TypeStep, CallShapeStep, LockShapeStep, ReceiptShapeStep, BatchShapeStep DEF Shape
  <1>2. CASE UNCHANGED vars
    BY <1>2 DEF vars, TypeOK, Shape, CallShape, LockShape, ReceiptShape, BatchShape
  <1> QED BY <1>1, <1>2

-----------------------------------------------------------------------------
(* Locks and interrupted calls. *)

(* A crawl moves one call, and neither its job nor its transaction. *)
LEMMA CrawlSame ==
  ASSUME TypeOK, Shape, NEW c \in Calls, Crawl(c), NEW d \in Calls
  PROVE  /\ call'[d].job = call[d].job /\ call'[d].tx = call[d].tx
         /\ (call'[d].pc = "idle") <=> (call[d].pc = "idle")
         /\ call'[d].fate = call[d].fate \/ call[d].job \in Txs
         /\ call'[d].pc = call[d].pc \/ d = c
  <1>1. CASE d = c
    BY <1>1, CrawlEffect
  <1>2. CASE d # c
    BY <1>2, CrawlEffect
  <1> QED BY <1>1, <1>2

(* Calls of a batch that was not interrupted keep their locks. *)
LEMMA LockHeldStep ==
  ASSUME TypeOK, TypeOK', Shape, Shape', LockHeld, Next
  PROVE  LockHeld'
  <1> USE DEF TypeOK, Shape, CallShape, LockShape, LockHeld
  <1>1. ASSUME NEW c \in Calls, NEW j \in Jobs, Take(c, j) PROVE LockHeld'
    BY <1>1 DEF Take, FirstStep
  <1>2. ASSUME NEW c \in Calls, Finish(c) PROVE LockHeld'
    BY <1>2 DEF Finish
  <1>3. ASSUME NEW c \in Calls, Die(c) PROVE LockHeld'
    BY <1>3, SMTT(30) DEF Die, HadEffect
  <1>4. ASSUME NEW j \in Jobs, StallJob(j) PROVE LockHeld'
    BY <1>4 DEF StallJob
  <1>5. ASSUME NEW b \in Batches, Evict(b) PROVE LockHeld'
    BY <1>5 DEF Evict
  <1>6. ASSUME NEW c \in Calls, Announce(c) PROVE LockHeld'
    BY <1>6 DEF Announce
  <1>7. ASSUME NEW c \in Calls, Enqueue(c) PROVE LockHeld'
    BY <1>7 DEF Enqueue, AddPublishJob
  <1>8. ASSUME NEW c \in Calls, AnnounceThrows(c) PROVE LockHeld'
    BY <1>8, SMTT(30) DEF AnnounceThrows, AddPublishJob
  <1>9. ASSUME NEW c \in Calls, Send(c) PROVE LockHeld'
    BY <1>9, SMTT(30) DEF Send, Submit, FreshTx
  <1>10. ASSUME NEW c \in Calls, SendThrows(c) PROVE LockHeld'
    BY <1>10 DEF SendThrows, Submit, FreshTx
  <1>11. ASSUME NEW c \in Calls, CannotPay(c) PROVE LockHeld'
    BY <1>11 DEF CannotPay
  <1>12. ASSUME NEW c \in Calls, Track(c) PROVE LockHeld'
    BY <1>12 DEF Track, AddReceipt
  <1>13. ASSUME NEW c \in Calls, TrackThrows(c) PROVE LockHeld'
    BY <1>13, SMTT(30) DEF TrackThrows, AddReceipt
  <1>14. ASSUME NEW c \in Calls, Check(c) PROVE LockHeld'
    BY <1>14 DEF Check
  <1>15. ASSUME NEW c \in Calls, CheckThrows(c) PROVE LockHeld'
    BY <1>15, SMTT(30) DEF CheckThrows
  <1>16. ASSUME NEW c \in Calls, Crawl(c) PROVE LockHeld'
    <2>1. UNCHANGED <<owner, interrupted, batchOf>>
      BY <1>16, CrawlEffect
    <2>2. \A d \in Calls : call'[d].job = call[d].job
              /\ (call'[d].pc = "idle" <=> call[d].pc = "idle")
      BY <1>16, CrawlSame
    <2> QED BY <2>1, <2>2 DEF LockHeld
  <1>17. ASSUME NEW c \in Calls, CrawlThrows(c) PROVE LockHeld'
    BY <1>17 DEF CrawlThrows
  <1>18. ASSUME NEW c \in Calls, Remove(c) PROVE LockHeld'
    BY <1>18 DEF Remove
  <1>19. ASSUME NEW c \in Calls, Readd(c) PROVE LockHeld'
    BY <1>19 DEF Readd, AddPublishJob
  <1>20. ASSUME NEW c \in Calls, RetryThrows(c) PROVE LockHeld'
    BY <1>20, SMTT(30) DEF RetryThrows, AddPublishJob
  <1>21. ASSUME NEW t \in Txs, Include(t) PROVE LockHeld'
    BY <1>21 DEF Include
  <1>22. ASSUME NEW t \in Txs, Drop(t) PROVE LockHeld'
    BY <1>22 DEF Drop
  <1>23. ASSUME NEW t \in Txs, Finalize(t) PROVE LockHeld'
    BY <1>23 DEF Finalize
  <1>24. ASSUME NEW t \in Txs, Reorganise(t) PROVE LockHeld'
    BY <1>24 DEF Reorganise
  <1> QED
    BY <1>1, <1>2, <1>3, <1>4, <1>5, <1>6, <1>7, <1>8, <1>9, <1>10, <1>11, <1>12,
       <1>13, <1>14, <1>15, <1>16, <1>17, <1>18, <1>19, <1>20, <1>21, <1>22, <1>23, <1>24
       DEF Next, CallStep, CallFails

(* A call that sent tries again only after it was cut short. *)
LEMMA SentOnlyStep ==
  ASSUME TypeOK, TypeOK', Shape, Shape', SentOnly, Next
  PROVE  SentOnly'
  <1> USE DEF TypeOK, Shape, CallShape, SentOnly
  <1>1. ASSUME NEW c \in Calls, NEW j \in Jobs, Take(c, j) PROVE SentOnly'
    BY <1>1 DEF Take, FirstStep
  <1>2. ASSUME NEW c \in Calls, Finish(c) PROVE SentOnly'
    BY <1>2 DEF Finish
  <1>3. ASSUME NEW c \in Calls, Die(c) PROVE SentOnly'
    BY <1>3 DEF Die, HadEffect
  <1>4. ASSUME NEW j \in Jobs, StallJob(j) PROVE SentOnly'
    BY <1>4 DEF StallJob
  <1>5. ASSUME NEW b \in Batches, Evict(b) PROVE SentOnly'
    BY <1>5 DEF Evict
  <1>6. ASSUME NEW c \in Calls, Announce(c) PROVE SentOnly'
    BY <1>6 DEF Announce
  <1>7. ASSUME NEW c \in Calls, Enqueue(c) PROVE SentOnly'
    BY <1>7 DEF Enqueue, AddPublishJob
  <1>8. ASSUME NEW c \in Calls, AnnounceThrows(c) PROVE SentOnly'
    BY <1>8 DEF AnnounceThrows, AddPublishJob
  <1>9. ASSUME NEW c \in Calls, Send(c) PROVE SentOnly'
    BY <1>9 DEF Send, Submit, FreshTx
  <1>10. ASSUME NEW c \in Calls, SendThrows(c) PROVE SentOnly'
    BY <1>10 DEF SendThrows, Submit, FreshTx
  <1>11. ASSUME NEW c \in Calls, CannotPay(c) PROVE SentOnly'
    BY <1>11 DEF CannotPay
  <1>12. ASSUME NEW c \in Calls, Track(c) PROVE SentOnly'
    BY <1>12 DEF Track, AddReceipt
  <1>13. ASSUME NEW c \in Calls, TrackThrows(c) PROVE SentOnly'
    BY <1>13 DEF TrackThrows, AddReceipt
  <1>14. ASSUME NEW c \in Calls, Check(c) PROVE SentOnly'
    BY <1>14 DEF Check
  <1>15. ASSUME NEW c \in Calls, CheckThrows(c) PROVE SentOnly'
    BY <1>15 DEF CheckThrows
  <1>16. ASSUME NEW c \in Calls, Crawl(c) PROVE SentOnly'
    BY <1>16, CrawlSame, CrawlEffect DEF SentOnly, Shape, CallShape
  <1>17. ASSUME NEW c \in Calls, CrawlThrows(c) PROVE SentOnly'
    BY <1>17 DEF CrawlThrows
  <1>18. ASSUME NEW c \in Calls, Remove(c) PROVE SentOnly'
    BY <1>18 DEF Remove
  <1>19. ASSUME NEW c \in Calls, Readd(c) PROVE SentOnly'
    BY <1>19 DEF Readd, AddPublishJob
  <1>20. ASSUME NEW c \in Calls, RetryThrows(c) PROVE SentOnly'
    BY <1>20, SMTT(30) DEF RetryThrows, AddPublishJob
  <1>21. ASSUME NEW t \in Txs, Include(t) PROVE SentOnly'
    BY <1>21 DEF Include
  <1>22. ASSUME NEW t \in Txs, Drop(t) PROVE SentOnly'
    BY <1>22 DEF Drop
  <1>23. ASSUME NEW t \in Txs, Finalize(t) PROVE SentOnly'
    BY <1>23 DEF Finalize
  <1>24. ASSUME NEW t \in Txs, Reorganise(t) PROVE SentOnly'
    BY <1>24 DEF Reorganise
  <1> QED
    BY <1>1, <1>2, <1>3, <1>4, <1>5, <1>6, <1>7, <1>8, <1>9, <1>10, <1>11, <1>12,
       <1>13, <1>14, <1>15, <1>16, <1>17, <1>18, <1>19, <1>20, <1>21, <1>22, <1>23, <1>24
       DEF Next, CallStep, CallFails

(* Before it is announced, an undisturbed batch has no publish job and no transaction. *)
LEMMA FirstOnceStep ==
  ASSUME TypeOK, TypeOK', Shape, Shape', LockHeld, LockHeld', FirstOnce, Next
  PROVE  FirstOnce'
  <1> USE DEF TypeOK, Shape, CallShape, LockShape, BatchShape, LockHeld, Clean, FirstOnce,
      Unannounced
  <1>1. ASSUME NEW c \in Calls, NEW j \in Jobs, Take(c, j) PROVE FirstOnce'
    BY <1>1 DEF Take, FirstStep
  <1>2. ASSUME NEW c \in Calls, Finish(c) PROVE FirstOnce'
    BY <1>2 DEF Finish
  <1>3. ASSUME NEW c \in Calls, Die(c) PROVE FirstOnce'
    BY <1>3, SMTT(30) DEF Die, HadEffect
  <1>4. ASSUME NEW j \in Jobs, StallJob(j) PROVE FirstOnce'
    BY <1>4 DEF StallJob
  <1>5. ASSUME NEW b \in Batches, Evict(b) PROVE FirstOnce'
    BY <1>5 DEF Evict
  <1>6. ASSUME NEW c \in Calls, Announce(c) PROVE FirstOnce'
    BY <1>6 DEF Announce
  <1>7. ASSUME NEW c \in Calls, Enqueue(c) PROVE FirstOnce'
    BY <1>7 DEF Enqueue, AddPublishJob
  <1>8. ASSUME NEW c \in Calls, AnnounceThrows(c) PROVE FirstOnce'
    BY <1>8, SMTT(30) DEF AnnounceThrows, AddPublishJob
  <1>9. ASSUME NEW c \in Calls, Send(c) PROVE FirstOnce'
    BY <1>9, SMTT(30) DEF Send, Submit, FreshTx
  <1>10. ASSUME NEW c \in Calls, SendThrows(c) PROVE FirstOnce'
    <2>1. CASE UNCHANGED <<tx, batchOf, interrupted>>
      BY <1>10, <2>1, SMTT(30) DEF SendThrows, TypeOK, Shape, CallShape, FirstOnce,
          Unannounced, Clean
    <2>2. CASE Submit(c) /\ interrupted' = interrupted \cup {call[c].job}
      <3>1. \A t \in Txs : batchOf'[t] = batchOf[t] \/ batchOf'[t] \in interrupted'
        BY <2>2 DEF Submit, TypeOK
      <3>2. UNCHANGED <<state, reorged>> /\ Clean' \subseteq Clean
        BY <1>10, <2>2 DEF SendThrows, Clean
      <3>3. \A d \in Calls : call'[d].job = call[d].job
                /\ (call'[d].pc = "done" <=> call[d].pc = "done")
        BY <1>10 DEF SendThrows, TypeOK
      <3>4. \A i \in BatchJobs : Unannounced(i)' => Unannounced(i)
        BY <3>2, <3>3 DEF Unannounced
      <3> QED BY <3>1, <3>2, <3>4 DEF FirstOnce, Clean
    <2> QED BY <1>10, <2>1, <2>2 DEF SendThrows
  <1>11. ASSUME NEW c \in Calls, CannotPay(c) PROVE FirstOnce'
    BY <1>11, SMTT(30) DEF CannotPay
  <1>12. ASSUME NEW c \in Calls, Track(c) PROVE FirstOnce'
    <2>1. call[c].tx \in Txs /\ call[c].job \in Batches
      BY <1>12 DEF Track, TypeOK, Shape, CallShape
    <2>2. /\ \A i \in BatchJobs \cup Batches : state'[i] = state[i]
          /\ UNCHANGED <<batchOf, interrupted, reorged>>
      BY <1>12, <2>1 DEF Track, AddReceipt, TypeOK
    <2>3. \A d \in Calls : call'[d].job = call[d].job
              /\ (call'[d].pc = "done" <=> call[d].pc = "done")
      BY <1>12 DEF Track, TypeOK
    <2>4. \A i \in BatchJobs : Unannounced(i)' => Unannounced(i)
      BY <2>2, <2>3 DEF Unannounced
    <2> QED BY <2>2, <2>4 DEF FirstOnce, Clean
  <1>13. ASSUME NEW c \in Calls, TrackThrows(c) PROVE FirstOnce'
    BY <1>13, SMTT(30) DEF TrackThrows, AddReceipt
  <1>14. ASSUME NEW c \in Calls, Check(c) PROVE FirstOnce'
    BY <1>14 DEF Check
  <1>15. ASSUME NEW c \in Calls, CheckThrows(c) PROVE FirstOnce'
    BY <1>15, SMTT(30) DEF CheckThrows
  <1>16. ASSUME NEW c \in Calls, Crawl(c) PROVE FirstOnce'
    <2>1. UNCHANGED <<state, batchOf, interrupted, reorged>> /\ call[c].job \in Txs
      BY <1>16, CrawlEffect
    <2>2. \A d \in Calls : /\ call'[d].job = call[d].job
                           /\ call'[d].pc = call[d].pc \/ call[d].job \in Txs
      BY <1>16, <2>1, CrawlSame
    <2>3. \A i \in BatchJobs : Unannounced(i)' => Unannounced(i)
      BY <2>1, <2>2 DEF Unannounced
    <2> QED BY <2>1, <2>3 DEF FirstOnce, Clean
  <1>17. ASSUME NEW c \in Calls, CrawlThrows(c) PROVE FirstOnce'
    BY <1>17, SMTT(30) DEF CrawlThrows
  <1>18. ASSUME NEW c \in Calls, Remove(c) PROVE FirstOnce'
    BY <1>18 DEF Remove
  <1>19. ASSUME NEW c \in Calls, Readd(c) PROVE FirstOnce'
    BY <1>19 DEF Readd, AddPublishJob
  <1>20. ASSUME NEW c \in Calls, RetryThrows(c) PROVE FirstOnce'
    BY <1>20, SMTT(30) DEF RetryThrows, AddPublishJob
  <1>21. ASSUME NEW t \in Txs, Include(t) PROVE FirstOnce'
    BY <1>21 DEF Include
  <1>22. ASSUME NEW t \in Txs, Drop(t) PROVE FirstOnce'
    BY <1>22 DEF Drop
  <1>23. ASSUME NEW t \in Txs, Finalize(t) PROVE FirstOnce'
    BY <1>23 DEF Finalize
  <1>24. ASSUME NEW t \in Txs, Reorganise(t) PROVE FirstOnce'
    BY <1>24 DEF Reorganise
  <1> QED
    BY <1>1, <1>2, <1>3, <1>4, <1>5, <1>6, <1>7, <1>8, <1>9, <1>10, <1>11, <1>12,
       <1>13, <1>14, <1>15, <1>16, <1>17, <1>18, <1>19, <1>20, <1>21, <1>22, <1>23, <1>24
       DEF Next, CallStep, CallFails

(* The monitor still publishes again only after a congested transaction. *)
LEMMA ReplacesFailedStep ==
  ASSUME TypeOK, TypeOK', Shape, Shape', LockHeld, ReplacesFailed, Next
  PROVE  ReplacesFailed'
  <1> USE DEF TypeOK, Shape, CallShape, LockHeld, Clean, ReplacesFailed
  <1>1. ASSUME NEW c \in Calls, NEW j \in Jobs, Take(c, j) PROVE ReplacesFailed'
    BY <1>1 DEF Take, FirstStep
  <1>2. ASSUME NEW c \in Calls, Finish(c) PROVE ReplacesFailed'
    BY <1>2 DEF Finish
  <1>3. ASSUME NEW c \in Calls, Die(c) PROVE ReplacesFailed'
    BY <1>3 DEF Die, HadEffect
  <1>4. ASSUME NEW j \in Jobs, StallJob(j) PROVE ReplacesFailed'
    BY <1>4 DEF StallJob
  <1>5. ASSUME NEW b \in Batches, Evict(b) PROVE ReplacesFailed'
    BY <1>5 DEF Evict
  <1>6. ASSUME NEW c \in Calls, Announce(c) PROVE ReplacesFailed'
    BY <1>6 DEF Announce
  <1>7. ASSUME NEW c \in Calls, Enqueue(c) PROVE ReplacesFailed'
    BY <1>7 DEF Enqueue, AddPublishJob
  <1>8. ASSUME NEW c \in Calls, AnnounceThrows(c) PROVE ReplacesFailed'
    BY <1>8, SMTT(30) DEF AnnounceThrows, AddPublishJob
  <1>9. ASSUME NEW c \in Calls, Send(c) PROVE ReplacesFailed'
    <2>1. FreshTx \in Txs /\ tx[FreshTx] = "none"
      BY <1>9, FreshTxIsFresh DEF Send, Submit
    <2>2. /\ \A t \in Txs \ {FreshTx} : tx'[t] = tx[t] /\ batchOf'[t] = batchOf[t]
          /\ UNCHANGED <<interrupted, reorged>>
      BY <1>9 DEF Send, Submit, TypeOK
    <2>3. ASSUME NEW d \in Calls, call'[d].pc \in {"remove", "readd"}
          PROVE  call[d].pc \in {"remove", "readd"} /\ call'[d].job = call[d].job
      BY <1>9, <2>3 DEF Send, TypeOK
    <2>4. \A d \in Calls : call[d].pc \in {"remove", "readd"} => call[d].job \in Txs \ {FreshTx}
      BY <2>1 DEF Shape, CallShape, ReceiptShape
    <2> QED BY <2>2, <2>3, <2>4 DEF ReplacesFailed, Clean
  <1>10. ASSUME NEW c \in Calls, SendThrows(c) PROVE ReplacesFailed'
    BY <1>10 DEF SendThrows, Submit, FreshTx
  <1>11. ASSUME NEW c \in Calls, CannotPay(c) PROVE ReplacesFailed'
    BY <1>11 DEF CannotPay
  <1>12. ASSUME NEW c \in Calls, Track(c) PROVE ReplacesFailed'
    BY <1>12 DEF Track, AddReceipt
  <1>13. ASSUME NEW c \in Calls, TrackThrows(c) PROVE ReplacesFailed'
    BY <1>13, SMTT(30) DEF TrackThrows, AddReceipt
  <1>14. ASSUME NEW c \in Calls, Check(c) PROVE ReplacesFailed'
    BY <1>14 DEF Check
  <1>15. ASSUME NEW c \in Calls, CheckThrows(c) PROVE ReplacesFailed'
    BY <1>15 DEF CheckThrows
  <1>16. ASSUME NEW c \in Calls, Crawl(c) PROVE ReplacesFailed'
    <2> HIDE DEF Shape, TypeOK
    <2>1. UNCHANGED <<state, made, limit, owner, tx, batchOf, interrupted, reorged>>
          /\ call[c].job \in Txs /\ call'[c].job = call[c].job /\ call[c].pc = "crawl"
      BY <1>16, CrawlEffect
    <2>2. ASSUME call'[c].pc \in {"remove", "readd"}, batchOf[call[c].job] \in Clean
          PROVE  tx[call[c].job] = "congested"
      <3>1. owner[call[c].job] = c
        BY <2>1, <2>2 DEF LockHeld, Clean
      <3>2. made[call[c].job] < limit[call[c].job]
        BY <2>1, <3>1 DEF Shape, LockShape, ReceiptShape
      <3> QED BY <1>16, <2>2, <3>2, CrawlEffect
    <2>3. \A d \in Calls : d # c => call'[d] = call[d]
      BY <1>16, CrawlEffect
    <2> QED BY <2>1, <2>2, <2>3 DEF ReplacesFailed, Clean
  <1>17. ASSUME NEW c \in Calls, CrawlThrows(c) PROVE ReplacesFailed'
    BY <1>17 DEF CrawlThrows
  <1>18. ASSUME NEW c \in Calls, Remove(c) PROVE ReplacesFailed'
    BY <1>18 DEF Remove
  <1>19. ASSUME NEW c \in Calls, Readd(c) PROVE ReplacesFailed'
    BY <1>19 DEF Readd, AddPublishJob
  <1>20. ASSUME NEW c \in Calls, RetryThrows(c) PROVE ReplacesFailed'
    BY <1>20, SMTT(30) DEF RetryThrows, AddPublishJob
  <1>21. ASSUME NEW t \in Txs, Include(t) PROVE ReplacesFailed'
    BY <1>21 DEF Include
  <1>22. ASSUME NEW t \in Txs, Drop(t) PROVE ReplacesFailed'
    BY <1>22 DEF Drop
  <1>23. ASSUME NEW t \in Txs, Finalize(t) PROVE ReplacesFailed'
    BY <1>23 DEF Finalize
  <1>24. ASSUME NEW t \in Txs, Reorganise(t) PROVE ReplacesFailed'
    BY <1>24 DEF Reorganise
  <1> QED
    BY <1>1, <1>2, <1>3, <1>4, <1>5, <1>6, <1>7, <1>8, <1>9, <1>10, <1>11, <1>12,
       <1>13, <1>14, <1>15, <1>16, <1>17, <1>18, <1>19, <1>20, <1>21, <1>22, <1>23, <1>24
       DEF Next, CallStep, CallFails

-----------------------------------------------------------------------------
(* Steps that send nothing. *)

(* A step that gives an undisturbed batch nothing more to be sent by. *)
Quiet(b) == b \in Clean' =>
    /\ b \in Clean
    /\ Alive(b)' \subseteq Alive(b)
    /\ Unsent(b)' => Unsent(b)
    /\ \A t \in Txs : batchOf'[t] = b /\ Unresolved(t)' => batchOf[t] = b /\ Unresolved(t)

(* A step that is quiet for a batch keeps what is true of that batch. *)
LEMMA QuietOnce ==
  ASSUME Once, NEW b \in Clean', Quiet(b)
  PROVE  SentOnce(b)' /\ AliveOnce(b)' /\ ReplacedOnce(b)'
  <1>1. SentOnce(b)'
    BY DEF Once, Quiet, SentOnce
  <1>2. AliveOnce(b)'
    BY DEF Once, Quiet, AliveOnce
  <1>3. ReplacedOnce(b)'
    <2> SUFFICES ASSUME NEW t \in Txs, batchOf'[t] = b, Unresolved(t)'
                 PROVE  /\ Alive(b)' = {} /\ ~Unsent(b)'
                        /\ \A s \in Txs : batchOf'[s] = b /\ Unresolved(s)' => s = t
      BY DEF ReplacedOnce
    <2>1. batchOf[t] = b /\ b \in Clean /\ Unresolved(t)
      BY DEF Quiet
    <2>2. /\ Alive(b) = {} /\ ~Unsent(b)
          /\ \A s \in Txs : batchOf[s] = b /\ Unresolved(s) => s = t
      BY <2>1 DEF Once, ReplacedOnce
    <2> QED BY <2>2 DEF Quiet
  <1> QED BY <1>1, <1>2, <1>3

(* The steps of the other kind: the publish job is added, sent, or in a block. *)
Noisy == \/ \E c \in Calls : Enqueue(c) \/ AnnounceThrows(c) \/ Send(c) \/ Readd(c)
         \/ \E t \in Txs : Include(t)

(* A quiet step gives no undisturbed batch a transaction that may be stored. *)
LEMMA QuietAlive ==
  ASSUME TypeOK, TypeOK', Shape, Shape', LockHeld, SentOnly, ~Noisy, Next
  PROVE  Clean' \subseteq Clean /\ \A a \in Clean' : Alive(a)' \subseteq Alive(a)
  <1> DEFINE Goal == Clean' \subseteq Clean /\ \A a \in Clean' : Alive(a)' \subseteq Alive(a)
  <1> USE DEF TypeOK, Shape, CallShape, LockHeld, SentOnly, Clean, Alive
  <1>1. ASSUME NEW c \in Calls, NEW j \in Jobs, Take(c, j) PROVE Goal
    BY <1>1 DEF Take, FirstStep
  <1>2. ASSUME NEW c \in Calls, Finish(c) PROVE Goal
    BY <1>2 DEF Finish
  <1>3. ASSUME NEW c \in Calls, Die(c) PROVE Goal
    BY <1>3 DEF Die, HadEffect
  <1>4. ASSUME NEW j \in Jobs, StallJob(j) PROVE Goal
    BY <1>4 DEF StallJob
  <1>5. ASSUME NEW b \in Batches, Evict(b) PROVE Goal
    BY <1>5 DEF Evict
  <1>6. ASSUME NEW c \in Calls, Announce(c) PROVE Goal
    BY <1>6 DEF Announce
  <1>7. ASSUME NEW c \in Calls, SendThrows(c) PROVE Goal
    <2>1. CASE UNCHANGED <<tx, batchOf, interrupted>>
      BY <1>7, <2>1 DEF SendThrows, Alive, Clean
    <2>2. CASE Submit(c) /\ interrupted' = interrupted \cup {call[c].job}
      <3>1. \A t \in Txs : \/ batchOf'[t] = batchOf[t] /\ tx'[t] = tx[t]
                          \/ batchOf'[t] \in interrupted'
        BY <2>2 DEF Submit, TypeOK
      <3>2. UNCHANGED reorged
        BY <1>7 DEF SendThrows
      <3> QED BY <2>2, <3>1, <3>2 DEF Alive, Clean
    <2> QED BY <1>7, <2>1, <2>2 DEF SendThrows
  <1>8. ASSUME NEW c \in Calls, CannotPay(c) PROVE Goal
    BY <1>8 DEF CannotPay
  <1>9. ASSUME NEW c \in Calls, Track(c) PROVE Goal
    BY <1>9 DEF Track, AddReceipt
  <1>10. ASSUME NEW c \in Calls, TrackThrows(c) PROVE Goal
    BY <1>10 DEF TrackThrows, AddReceipt
  <1>11. ASSUME NEW c \in Calls, Check(c) PROVE Goal
    BY <1>11 DEF Check
  <1>12. ASSUME NEW c \in Calls, CheckThrows(c) PROVE Goal
    BY <1>12 DEF CheckThrows
  <1>13. ASSUME NEW c \in Calls, Crawl(c) PROVE Goal
    BY <1>13, CrawlEffect DEF Clean, Alive
  <1>14. ASSUME NEW c \in Calls, CrawlThrows(c) PROVE Goal
    BY <1>14 DEF CrawlThrows
  <1>15. ASSUME NEW c \in Calls, Remove(c) PROVE Goal
    BY <1>15 DEF Remove
  <1>16. ASSUME NEW c \in Calls, RetryThrows(c) PROVE Goal
    BY <1>16 DEF RetryThrows, AddPublishJob
  <1>17. ASSUME NEW t \in Txs, Drop(t) PROVE Goal
    BY <1>17 DEF Drop
  <1>18. ASSUME NEW t \in Txs, Finalize(t) PROVE Goal
    BY <1>18 DEF Finalize
  <1>19. ASSUME NEW t \in Txs, Reorganise(t) PROVE Goal
    BY <1>19 DEF Reorganise
  <1> QED
    BY <1>1, <1>2, <1>3, <1>4, <1>5, <1>6, <1>7, <1>8, <1>9, <1>10, <1>11, <1>12,
       <1>13, <1>14, <1>15, <1>16, <1>17, <1>18, <1>19
       DEF Noisy, Next, CallStep, CallFails

(* A quiet step gives no undisturbed batch a publish job that is to be sent. *)
LEMMA QuietUnsent ==
  ASSUME TypeOK, TypeOK', Shape, Shape', LockHeld, SentOnly, ~Noisy, Next
  PROVE  \A a \in Clean' : Unsent(a)' => Unsent(a)
  <1> DEFINE Goal == \A a \in Clean' : Unsent(a)' => Unsent(a)
  <1> USE DEF TypeOK, Shape, CallShape, LockShape, LockHeld, SentOnly, Clean, Unsent
  <1>1. ASSUME NEW c \in Calls, NEW j \in Jobs, Take(c, j) PROVE Goal
    BY <1>1 DEF Take, FirstStep
  <1>2. ASSUME NEW c \in Calls, Finish(c) PROVE Goal
    BY <1>2 DEF Finish
  <1>3. ASSUME NEW c \in Calls, Die(c) PROVE Goal
    BY <1>3 DEF Die, HadEffect
  <1>4. ASSUME NEW j \in Jobs, StallJob(j) PROVE Goal
    BY <1>4 DEF StallJob
  <1>5. ASSUME NEW b \in Batches, Evict(b) PROVE Goal
    BY <1>5 DEF Evict
  <1>6. ASSUME NEW c \in Calls, Announce(c) PROVE Goal
    BY <1>6 DEF Announce
  <1>7. ASSUME NEW c \in Calls, SendThrows(c) PROVE Goal
    BY <1>7 DEF SendThrows, Submit, FreshTx
  <1>8. ASSUME NEW c \in Calls, CannotPay(c) PROVE Goal
    BY <1>8 DEF CannotPay
  <1>9. ASSUME NEW c \in Calls, Track(c) PROVE Goal
    BY <1>9 DEF Track, AddReceipt
  <1>10. ASSUME NEW c \in Calls, TrackThrows(c) PROVE Goal
    BY <1>10 DEF TrackThrows, AddReceipt
  <1>11. ASSUME NEW c \in Calls, Check(c) PROVE Goal
    BY <1>11 DEF Check
  <1>12. ASSUME NEW c \in Calls, CheckThrows(c) PROVE Goal
    BY <1>12 DEF CheckThrows
  <1>13. ASSUME NEW c \in Calls, Crawl(c) PROVE Goal
    BY <1>13, CrawlEffect, CrawlSame DEF Clean, Unsent
  <1>14. ASSUME NEW c \in Calls, CrawlThrows(c) PROVE Goal
    BY <1>14 DEF CrawlThrows
  <1>15. ASSUME NEW c \in Calls, Remove(c) PROVE Goal
    BY <1>15, SMTT(30) DEF Remove
  <1>16. ASSUME NEW c \in Calls, RetryThrows(c) PROVE Goal
    BY <1>16, SMTT(30) DEF RetryThrows, AddPublishJob
  <1>17. ASSUME NEW t \in Txs, Drop(t) PROVE Goal
    BY <1>17 DEF Drop
  <1>18. ASSUME NEW t \in Txs, Finalize(t) PROVE Goal
    BY <1>18 DEF Finalize
  <1>19. ASSUME NEW t \in Txs, Reorganise(t) PROVE Goal
    BY <1>19 DEF Reorganise
  <1> QED
    BY <1>1, <1>2, <1>3, <1>4, <1>5, <1>6, <1>7, <1>8, <1>9, <1>10, <1>11, <1>12,
       <1>13, <1>14, <1>15, <1>16, <1>17, <1>18, <1>19
       DEF Noisy, Next, CallStep, CallFails

(* A quiet step leaves no undisturbed batch a transaction that is to be replaced. *)
LEMMA QuietUnresolved ==
  ASSUME TypeOK, TypeOK', Shape, Shape', LockHeld, SentOnly, ~Noisy, Next
  PROVE  \A s \in Txs : batchOf'[s] \in Clean' /\ Unresolved(s)'
            => batchOf'[s] = batchOf[s] /\ Unresolved(s)
  <1> DEFINE Goal == \A s \in Txs : batchOf'[s] \in Clean' /\ Unresolved(s)'
                     => batchOf'[s] = batchOf[s] /\ Unresolved(s)
  <1> USE DEF TypeOK, Shape, CallShape, LockShape, ReceiptShape, LockHeld, SentOnly, Clean,
      Unresolved
  <1>1. ASSUME NEW c \in Calls, NEW j \in Jobs, Take(c, j) PROVE Goal
    <2>1. UNCHANGED <<tx, batchOf>>
              /\ \A s \in Txs : state'[s] \in {"completed", "failed"}
                                <=> state[s] \in {"completed", "failed"}
      BY <1>1 DEF Take, TypeOK
    <2>2. \A d \in Calls : call[d].pc = "done" => call'[d] = call[d]
      BY <1>1 DEF Take, TypeOK
    <2> QED BY <2>1, <2>2 DEF Unresolved
  <1>2. ASSUME NEW c \in Calls, Finish(c) PROVE Goal
    BY <1>2 DEF Finish
  <1>3. ASSUME NEW c \in Calls, Die(c) PROVE Goal
    BY <1>3 DEF Die, HadEffect
  <1>4. ASSUME NEW j \in Jobs, StallJob(j) PROVE Goal
    BY <1>4 DEF StallJob
  <1>5. ASSUME NEW b \in Batches, Evict(b) PROVE Goal
    BY <1>5 DEF Evict
  <1>6. ASSUME NEW c \in Calls, Announce(c) PROVE Goal
    BY <1>6 DEF Announce
  <1>7. ASSUME NEW c \in Calls, SendThrows(c) PROVE Goal
    BY <1>7 DEF SendThrows, Submit, FreshTx
  <1>8. ASSUME NEW c \in Calls, CannotPay(c) PROVE Goal
    BY <1>8 DEF CannotPay
  <1>9. ASSUME NEW c \in Calls, Track(c) PROVE Goal
    <2>1. call[c].tx \in Txs /\ state[call[c].tx] = "absent"
      BY <1>9 DEF Track, TypeOK, Shape, CallShape, ReceiptShape
    <2>2. /\ UNCHANGED <<tx, batchOf>>
          /\ \A s \in Txs : state[s] \in {"completed", "failed"} => state'[s] = state[s]
      BY <1>9, <2>1 DEF Track, AddReceipt, TypeOK
    <2>3. \A d \in Calls : call[d].pc = "done" => call'[d] = call[d]
      BY <1>9 DEF Track, TypeOK
    <2> QED BY <2>2, <2>3 DEF Unresolved
  <1>10. ASSUME NEW c \in Calls, TrackThrows(c) PROVE Goal
    BY <1>10, SMTT(30) DEF TrackThrows, AddReceipt
  <1>11. ASSUME NEW c \in Calls, Check(c) PROVE Goal
    BY <1>11 DEF Check
  <1>12. ASSUME NEW c \in Calls, CheckThrows(c) PROVE Goal
    BY <1>12 DEF CheckThrows
  <1>13. ASSUME NEW c \in Calls, Crawl(c) PROVE Goal
    <2>1. UNCHANGED <<state, tx, batchOf>> /\ call[c].pc = "crawl"
          /\ \A d \in Calls : d # c => call'[d] = call[d]
      BY <1>13, CrawlEffect
    <2> QED BY <2>1 DEF Unresolved
  <1>14. ASSUME NEW c \in Calls, CrawlThrows(c) PROVE Goal
    BY <1>14 DEF CrawlThrows
  <1>15. ASSUME NEW c \in Calls, Remove(c) PROVE Goal
    BY <1>15 DEF Remove
  <1>16. ASSUME NEW c \in Calls, RetryThrows(c) PROVE Goal
    <2>1. batchOf[call[c].job] \in Batches
      BY <1>16, SMTT(30) DEF RetryThrows, TypeOK, Shape, CallShape, ReceiptShape
    <2>2. UNCHANGED <<tx, batchOf>> /\ \A s \in Txs : state'[s] = state[s]
      BY <1>16, <2>1, SMTT(30) DEF RetryThrows, AddPublishJob, TypeOK
    <2>3. \A d \in Calls : call[d].pc = "done" => call'[d] = call[d]
      BY <1>16 DEF RetryThrows, TypeOK
    <2> QED BY <2>2, <2>3 DEF Unresolved
  <1>17. ASSUME NEW t \in Txs, Drop(t) PROVE Goal
    BY <1>17 DEF Drop
  <1>18. ASSUME NEW t \in Txs, Finalize(t) PROVE Goal
    BY <1>18 DEF Finalize
  <1>19. ASSUME NEW t \in Txs, Reorganise(t) PROVE Goal
    BY <1>19 DEF Reorganise
  <1> QED
    BY <1>1, <1>2, <1>3, <1>4, <1>5, <1>6, <1>7, <1>8, <1>9, <1>10, <1>11, <1>12,
       <1>13, <1>14, <1>15, <1>16, <1>17, <1>18, <1>19
       DEF Noisy, Next, CallStep, CallFails

(* Every step that is not noisy is quiet for all batches. *)
LEMMA QuietStep ==
  ASSUME TypeOK, TypeOK', Shape, Shape', LockHeld, SentOnly, Next, ~Noisy
  PROVE  \A b \in Batches : Quiet(b)
  BY QuietAlive, QuietUnsent, QuietUnresolved DEF Quiet, Clean

-----------------------------------------------------------------------------
(* Steps that add, send or include. *)

(* Such a step is about one batch and quiet for the others. *)
LEMMA NoisyOnce ==
  ASSUME Once, NEW b, \A a \in Batches : a # b => Quiet(a),
         b \in Clean' => SentOnce(b)' /\ AliveOnce(b)' /\ ReplacedOnce(b)'
  PROVE  \A a \in Clean' : SentOnce(a)' /\ AliveOnce(a)' /\ ReplacedOnce(a)'
  <1>1. ASSUME NEW a \in Clean', a # b PROVE SentOnce(a)' /\ AliveOnce(a)' /\ ReplacedOnce(a)'
    <2>1. a \in Batches
      BY <1>1 DEF Clean
    <2> QED BY <1>1, <2>1, QuietOnce
  <1> QED BY <1>1

(* A publish job is added, or not: the chain, and what becomes of receipts, is the same. *)
LEMMA AddedSame ==
  ASSUME TypeOK, NEW b \in Batches, NEW n, AddPublishJob(b, n) \/ UNCHANGED state
  PROVE  /\ \A j \in Jobs : j # b => state'[j] = state[j]
         /\ state[b] # "absent" => state'[b] = state[b]
         /\ state[b] = "absent" => state'[b] \in {"absent", "waiting"}
  BY DEF AddPublishJob, TypeOK

(* The announcer adds the job of a batch that nothing has been sent of. *)
LEMMA AnnouncerOnce ==
  ASSUME TypeOK, Shape, LockHeld, Once, NEW c \in Calls, Enqueue(c) \/ AnnounceThrows(c)
  PROVE  \A a \in Clean' : SentOnce(a)' /\ AliveOnce(a)' /\ ReplacedOnce(a)'
  <1>0. call[c].job \in BatchJobs /\ call[c].pc # "done" /\ call[c].pc # "idle"
    BY DEF Enqueue, AnnounceThrows, Shape, CallShape
  <1>1. PICK b \in Batches : b = Carries[call[c].job]
    BY <1>0
  <1>2. /\ \A j \in Jobs : j # b => state'[j] = state[j]
        /\ UNCHANGED <<tx, batchOf, interrupted, reorged>>
    BY <1>0, <1>1, AddedSame DEF Enqueue, AnnounceThrows
  <1>3. \A d \in Calls : /\ call'[d].job = call[d].job /\ call'[d].tx = call[d].tx
                         /\ call[d].pc = "done" => call'[d] = call[d]
    BY DEF Enqueue, AnnounceThrows, TypeOK
  <1>4. ASSUME NEW a \in Batches, a # b PROVE Quiet(a)
    BY <1>2, <1>3, <1>4 DEF Quiet, Clean, Alive, Unsent, Unresolved
  <1>5. ASSUME b \in Clean' PROVE SentOnce(b)' /\ AliveOnce(b)' /\ ReplacedOnce(b)'
    <2>1. owner[call[c].job] = c /\ b \in Clean
      BY <1>0, <1>1, <1>2, <1>5 DEF LockHeld, Clean
    <2>2. Unannounced(call[c].job)
      <3>1. state[call[c].job] = "active"
        BY <1>0, <1>1, <2>1 DEF Shape, LockShape
      <3>2. \A d \in Calls : call[d].job = call[c].job => d = c
        BY <1>0, <1>1, <2>1 DEF LockHeld, Clean, Shape, CallShape
      <3> QED BY <1>0, <1>1, <3>1, <3>2 DEF Unannounced
    <2>3. \A t \in Txs : batchOf[t] # b
      BY <1>0, <1>1, <2>1, <2>2 DEF Once, FirstOnce
    <2> QED BY <1>2, <2>3 DEF SentOnce, AliveOnce, ReplacedOnce, Alive
  <1> QED BY <1>4, <1>5, NoisyOnce

(* The publisher sends a batch that is still to be sent. *)
LEMMA SendOnce ==
  ASSUME TypeOK, Shape, LockHeld, Once, NEW c \in Calls, Send(c)
  PROVE  \A a \in Clean' : SentOnce(a)' /\ AliveOnce(a)' /\ ReplacedOnce(a)'
  <1>0. /\ call[c].pc = "send" /\ call[c].job \in Batches /\ call[c].tx = None
        /\ FreshTx \in Txs /\ tx[FreshTx] = "none" /\ batchOf[FreshTx] = None
    BY FreshTxIsFresh DEF Send, Submit, Shape, CallShape, ReceiptShape
  <1>1. PICK b \in Batches, n \in Txs :
           /\ b = call[c].job /\ n = FreshTx
           /\ call[c].pc = "send" /\ call[c].tx = None /\ tx[n] = "none" /\ batchOf[n] = None
    BY <1>0
  <1>2. /\ UNCHANGED <<state, interrupted, reorged>>
        /\ tx'[n] = "pool" /\ batchOf'[n] = b
        /\ \A t \in Txs : t # n => tx'[t] = tx[t] /\ batchOf'[t] = batchOf[t]
    BY <1>1 DEF Send, Submit, TypeOK
  <1>3. /\ call'[c].job = b /\ call'[c].tx = n /\ call'[c].pc = "track"
        /\ \A d \in Calls : d # c => call'[d] = call[d]
    BY <1>1 DEF Send, TypeOK
  <1>4. \A d \in Calls : call'[d].job = call[d].job
            /\ (call[d].pc = "done" <=> call'[d].pc = "done")
                         /\ call'[d].fate = call[d].fate
    BY <1>1 DEF Send, TypeOK
  <1>5. \A t \in Txs : Unresolved(t)' => t # n /\ Unresolved(t)
    BY <1>2, <1>4 DEF Unresolved
  <1>6. ASSUME NEW a \in Batches, a # b PROVE Quiet(a)
    <2>1. Alive(a)' \subseteq Alive(a)
      BY <1>2, <1>6 DEF Alive
    <2>2. Unsent(a)' => Unsent(a)
      BY <1>1, <1>2, <1>3, <1>6 DEF Unsent
    <2>3. \A t \in Txs : batchOf'[t] = a /\ Unresolved(t)' => batchOf[t] = a /\ Unresolved(t)
      BY <1>2, <1>5
    <2> QED BY <1>2, <2>1, <2>2, <2>3 DEF Quiet, Clean
  <1>7. ASSUME b \in Clean' PROVE SentOnce(b)' /\ AliveOnce(b)' /\ ReplacedOnce(b)'
    <2>1. owner[b] = c /\ b \in Clean
      BY <1>1, <1>2, <1>7 DEF LockHeld, Clean
    <2>2. Unsent(b)
      <3>1. state[b] = "active"
        BY <1>1, <2>1 DEF Shape, LockShape
      <3>2. \A d \in Calls : call[d].job = b => d = c
        BY <1>1, <2>1 DEF LockHeld, Clean, Shape, CallShape
      <3> QED BY <1>1, <3>1, <3>2 DEF Unsent
    <2>3. Alive(b) = {} /\ \A t \in Txs : batchOf[t] = b => ~Unresolved(t)
      BY <2>1, <2>2 DEF Once, SentOnce, ReplacedOnce
    <2>4. \A t \in Alive(b)' : t = n
      BY <1>2, <2>3 DEF Alive
    <2>5. ~Unsent(b)' /\ \A t \in Txs : batchOf'[t] = b => ~Unresolved(t)'
      BY <1>1, <1>2, <1>3, <1>5, <2>3 DEF Unsent
    <2> QED BY <2>4, <2>5 DEF SentOnce, AliveOnce, ReplacedOnce
  <1> QED BY <1>6, <1>7, NoisyOnce

(* The monitor adds the publish job again in place of the receipt it is about. *)
LEMMA ReaddOnce ==
  ASSUME TypeOK, Shape, LockHeld, Once, NEW c \in Calls, Readd(c)
  PROVE  \A a \in Clean' : SentOnce(a)' /\ AliveOnce(a)' /\ ReplacedOnce(a)'
  <1>0. /\ call[c].job \in Txs /\ batchOf[call[c].job] \in Batches
        /\ call[c].pc = "readd" /\ call[c].fate = "ok"
    BY DEF Readd, TypeOK, Shape, CallShape, ReceiptShape
  <1>1. PICK t \in Txs, b \in Batches :
           t = call[c].job /\ b = batchOf[t] /\ call[c].pc = "readd" /\ call[c].fate = "ok"
    BY <1>0
  <1>2. /\ \A j \in Jobs : j # b => state'[j] = state[j]
        /\ UNCHANGED <<tx, batchOf, interrupted, reorged>>
    BY <1>1, AddedSame DEF Readd
  <1>3. /\ call'[c].pc = "done" /\ call'[c].fate = "ok" /\ call'[c].job = t
        /\ \A d \in Calls : /\ call'[d].job = call[d].job /\ call'[d].tx = call[d].tx
                            /\ call[d].pc = "done" => call'[d] = call[d]
    BY <1>1 DEF Readd, TypeOK
  <1>4. \A s \in Txs : Unresolved(s)' => Unresolved(s) /\ s # t
    BY <1>1, <1>2, <1>3 DEF Unresolved
  <1>5. ASSUME NEW a \in Batches, a # b PROVE Quiet(a)
    BY <1>2, <1>3, <1>4, <1>5 DEF Quiet, Clean, Alive, Unsent
  <1>6. ASSUME b \in Clean' PROVE SentOnce(b)' /\ AliveOnce(b)' /\ ReplacedOnce(b)'
    <2>1. owner[t] = c /\ b \in Clean
      BY <1>1, <1>2, <1>6 DEF LockHeld, Clean
    <2>2. Unresolved(t)
      <3>1. state[t] = "active" /\ tx[t] = "congested"
        BY <1>1, <2>1 DEF Shape, LockShape, Once, ReplacesFailed
      <3>2. \A d \in Calls : call[d].job = t => d = c
        BY <1>1, <2>1 DEF LockHeld, Clean, Shape, CallShape
      <3> QED BY <1>1, <3>1, <3>2 DEF Unresolved
    <2>3. Alive(b) = {} /\ \A s \in Txs : batchOf[s] = b /\ Unresolved(s) => s = t
      BY <1>1, <2>1, <2>2 DEF Once, ReplacedOnce
    <2>4. Alive(b)' = {} /\ \A s \in Txs : batchOf'[s] = b => ~Unresolved(s)'
      BY <1>2, <1>4, <2>3 DEF Alive
    <2> QED BY <2>4 DEF SentOnce, AliveOnce, ReplacedOnce
  <1> QED BY <1>5, <1>6, NoisyOnce

(* A block takes the transaction out of the pool, congested or not. *)
LEMMA IncludeOnce ==
  ASSUME TypeOK, Shape, Once, NEW t \in Txs, Include(t)
  PROVE  \A a \in Clean' : SentOnce(a)' /\ AliveOnce(a)' /\ ReplacedOnce(a)'
  <1>0. PICK b \in Batches : b = batchOf[t]
    BY DEF Include, TypeOK, Shape, ReceiptShape
  <1>1. /\ tx[t] = "pool" /\ \A s \in Txs : s # t => tx'[s] = tx[s]
        /\ UNCHANGED <<state, batchOf, call, interrupted, reorged>>
    BY DEF Include, TypeOK
  <1>2. ASSUME NEW a \in Batches PROVE Alive(a)' \subseteq Alive(a) /\ (Unsent(a)' => Unsent(a))
    BY <1>1 DEF Alive, Unsent
  <1>3. \A s \in Txs : Unresolved(s)' => s = t \/ Unresolved(s)
    BY <1>1 DEF Unresolved
  <1>4. ASSUME NEW a \in Batches, a # b PROVE Quiet(a)
    BY <1>0, <1>1, <1>2, <1>3, <1>4 DEF Quiet, Clean
  <1>5. ASSUME b \in Clean' PROVE SentOnce(b)' /\ AliveOnce(b)' /\ ReplacedOnce(b)'
    <2>1. b \in Clean /\ t \in Alive(b)
      BY <1>0, <1>1, <1>5 DEF Clean, Alive
    <2>2. Alive(b) \subseteq {t} /\ ~Unsent(b) /\ \A s \in Txs : batchOf[s] = b => ~Unresolved(s)
      BY <2>1 DEF Once, SentOnce, AliveOnce, ReplacedOnce
    <2>3. Alive(b)' \subseteq {t} /\ ~Unsent(b)'
      BY <1>2, <2>1, <2>2 DEF Clean
    <2>4. ASSUME NEW s \in Txs, batchOf'[s] = b, Unresolved(s)' PROVE s = t /\ Alive(b)' = {}
      BY <1>0, <1>1, <1>3, <2>2, <2>3, <2>4 DEF Unresolved, Alive
    <2> QED BY <2>3, <2>4 DEF SentOnce, AliveOnce, ReplacedOnce
  <1> QED BY <1>4, <1>5, NoisyOnce

(* An undisturbed batch still has one way to be sent. *)
LEMMA OnceStep ==
  ASSUME TypeOK, TypeOK', Shape, Shape', LockHeld, LockHeld', SentOnly, Once, Next
  PROVE  Once'
  <1>1. FirstOnce' /\ ReplacesFailed'
    BY FirstOnceStep, ReplacesFailedStep DEF Once
  <1>2. \A b \in Clean' : SentOnce(b)' /\ AliveOnce(b)' /\ ReplacedOnce(b)'
    <2>1. CASE ~Noisy
      <3>1. \A b \in Batches : Quiet(b)
        BY <2>1, QuietStep
      <3> QED BY <3>1, QuietOnce DEF Clean
    <2>2. CASE Noisy
      BY <2>2, AnnouncerOnce, SendOnce, ReaddOnce, IncludeOnce DEF Noisy
    <2> QED BY <2>1, <2>2
  <1> QED BY <1>1, <1>2 DEF Once

(* The invariant holds at the start. *)
LEMMA InitInv == Init => IInv
  <1> SUFFICES ASSUME Init PROVE IInv
    OBVIOUS
  <1>1. TypeOK
    BY DEF Init, TypeOK
  <1>2. Shape
    BY DEF Init, Shape, CallShape, LockShape, ReceiptShape, BatchShape
  <1>3. LockHeld /\ SentOnly
    BY DEF Init, LockHeld, SentOnly
  <1>4. Once
    BY DEF Init, Once, FirstOnce, ReplacesFailed, SentOnce, AliveOnce, ReplacedOnce,
           Alive, Unsent, Unresolved, Clean
  <1> QED BY <1>1, <1>2, <1>3, <1>4 DEF IInv

(* Every step keeps the invariant. *)
LEMMA StepInv == IInv /\ [Next]_vars => IInv'
  <1>1. ASSUME IInv, Next PROVE IInv'
    <2>1. TypeOK' /\ Shape'
      BY <1>1, ShapeStep DEF IInv
    <2>2. LockHeld' /\ SentOnly'
      BY <1>1, <2>1, LockHeldStep, SentOnlyStep DEF IInv
    <2> QED BY <1>1, <2>1, <2>2, OnceStep DEF IInv
  <1>2. ASSUME IInv, UNCHANGED vars PROVE IInv'
    <2>1. TypeOK' /\ Shape'
      BY <1>2, ShapeStep DEF IInv
    <2>2. LockHeld' /\ SentOnly' /\ Clean' = Clean
      BY <1>2 DEF vars, IInv, LockHeld, SentOnly, Clean
    <2>3. FirstOnce' /\ ReplacesFailed'
      BY <1>2, <2>2 DEF vars, IInv, Once, FirstOnce, ReplacesFailed, Unannounced
    <2>4. \A b \in Batches : Quiet(b)
      BY <1>2, <2>2 DEF vars, Quiet, Alive, Unsent, Unresolved
    <2> QED BY <1>2, <2>1, <2>2, <2>3, <2>4, QuietOnce DEF IInv, Once, Clean
  <1> QED BY <1>1, <1>2

(* The inductive invariant holds, for any constants that meet PublishingAssumption. *)
THEOREM Inductive == Spec => []IInv
  BY InitInv, StepInv, PTL DEF Spec

-----------------------------------------------------------------------------
(* What the calls send is followed, and nothing else completes a publish job. *)

(* A step leaves no transaction without its receipt job, unless a call is cut short. *)
LEMMA SentIsTrackedStep ==
  ASSUME TypeOK, TypeOK', Shape, Shape', SentIsTracked, Next
  PROVE  SentIsTracked'
  <1> USE DEF TypeOK, Shape, CallShape, LockShape, ReceiptShape, BatchShape, SentIsTracked
  <1>1. ASSUME NEW c \in Calls, NEW j \in Jobs, Take(c, j) PROVE SentIsTracked'
    BY <1>1 DEF Take, FirstStep
  <1>2. ASSUME NEW c \in Calls, Finish(c) PROVE SentIsTracked'
    BY <1>2 DEF Finish
  <1>3. ASSUME NEW c \in Calls, Die(c) PROVE SentIsTracked'
    BY <1>3 DEF Die, HadEffect
  <1>4. ASSUME NEW j \in Jobs, StallJob(j) PROVE SentIsTracked'
    BY <1>4 DEF StallJob
  <1>5. ASSUME NEW b \in Batches, Evict(b) PROVE SentIsTracked'
    BY <1>5 DEF Evict
  <1>6. ASSUME NEW c \in Calls, Announce(c) PROVE SentIsTracked'
    BY <1>6 DEF Announce
  <1>7. ASSUME NEW c \in Calls, Enqueue(c) PROVE SentIsTracked'
    BY <1>7 DEF Enqueue, AddPublishJob
  <1>8. ASSUME NEW c \in Calls, AnnounceThrows(c) PROVE SentIsTracked'
    BY <1>8, SMTT(30) DEF AnnounceThrows, AddPublishJob
  <1>9. ASSUME NEW c \in Calls, Send(c) PROVE SentIsTracked'
    BY <1>9 DEF Send, Submit, FreshTx
  <1>10. ASSUME NEW c \in Calls, SendThrows(c) PROVE SentIsTracked'
    BY <1>10, SMTT(30) DEF SendThrows, Submit, FreshTx
  <1>11. ASSUME NEW c \in Calls, CannotPay(c) PROVE SentIsTracked'
    BY <1>11 DEF CannotPay
  <1>12. ASSUME NEW c \in Calls, Track(c) PROVE SentIsTracked'
    BY <1>12 DEF Track, AddReceipt
  <1>13. ASSUME NEW c \in Calls, TrackThrows(c) PROVE SentIsTracked'
    BY <1>13 DEF TrackThrows, AddReceipt
  <1>14. ASSUME NEW c \in Calls, Check(c) PROVE SentIsTracked'
    BY <1>14 DEF Check
  <1>15. ASSUME NEW c \in Calls, CheckThrows(c) PROVE SentIsTracked'
    BY <1>15 DEF CheckThrows
  <1>16. ASSUME NEW c \in Calls, Crawl(c) PROVE SentIsTracked'
    <2>1. UNCHANGED <<state, tx, batchOf, interrupted>> /\ call[c].pc = "crawl"
          /\ \A d \in Calls : d # c => call'[d] = call[d]
      BY <1>16, CrawlEffect
    <2> QED BY <2>1 DEF SentIsTracked
  <1>17. ASSUME NEW c \in Calls, CrawlThrows(c) PROVE SentIsTracked'
    BY <1>17 DEF CrawlThrows
  <1>18. ASSUME NEW c \in Calls, Remove(c) PROVE SentIsTracked'
    BY <1>18 DEF Remove
  <1>19. ASSUME NEW c \in Calls, Readd(c) PROVE SentIsTracked'
    BY <1>19 DEF Readd, AddPublishJob
  <1>20. ASSUME NEW c \in Calls, RetryThrows(c) PROVE SentIsTracked'
    BY <1>20, SMTT(30) DEF RetryThrows, AddPublishJob
  <1>21. ASSUME NEW t \in Txs, Include(t) PROVE SentIsTracked'
    BY <1>21 DEF Include
  <1>22. ASSUME NEW t \in Txs, Drop(t) PROVE SentIsTracked'
    BY <1>22 DEF Drop
  <1>23. ASSUME NEW t \in Txs, Finalize(t) PROVE SentIsTracked'
    BY <1>23 DEF Finalize
  <1>24. ASSUME NEW t \in Txs, Reorganise(t) PROVE SentIsTracked'
    BY <1>24 DEF Reorganise
  <1> QED
    BY <1>1, <1>2, <1>3, <1>4, <1>5, <1>6, <1>7, <1>8, <1>9, <1>10, <1>11, <1>12,
       <1>13, <1>14, <1>15, <1>16, <1>17, <1>18, <1>19, <1>20, <1>21, <1>22, <1>23, <1>24
       DEF Next, CallStep, CallFails

(* A step completes a publish job only after its call sent a transaction. *)
LEMMA CompletedWasSentStep ==
  ASSUME TypeOK, TypeOK', Shape, Shape', CompletedWasSent, Next
  PROVE  CompletedWasSent'
  <1> USE DEF TypeOK, Shape, CallShape, CompletedWasSent
  <1>1. ASSUME NEW c \in Calls, NEW j \in Jobs, Take(c, j) PROVE CompletedWasSent'
    BY <1>1 DEF Take, FirstStep
  <1>2. ASSUME NEW c \in Calls, Finish(c) PROVE CompletedWasSent'
    BY <1>2 DEF Finish
  <1>3. ASSUME NEW c \in Calls, Die(c) PROVE CompletedWasSent'
    BY <1>3 DEF Die, HadEffect
  <1>4. ASSUME NEW j \in Jobs, StallJob(j) PROVE CompletedWasSent'
    BY <1>4 DEF StallJob
  <1>5. ASSUME NEW b \in Batches, Evict(b) PROVE CompletedWasSent'
    BY <1>5 DEF Evict
  <1>6. ASSUME NEW c \in Calls, Announce(c) PROVE CompletedWasSent'
    BY <1>6 DEF Announce
  <1>7. ASSUME NEW c \in Calls, Enqueue(c) PROVE CompletedWasSent'
    BY <1>7 DEF Enqueue, AddPublishJob
  <1>8. ASSUME NEW c \in Calls, AnnounceThrows(c) PROVE CompletedWasSent'
    BY <1>8 DEF AnnounceThrows, AddPublishJob
  <1>9. ASSUME NEW c \in Calls, Send(c) PROVE CompletedWasSent'
    BY <1>9 DEF Send, Submit, FreshTx
  <1>10. ASSUME NEW c \in Calls, SendThrows(c) PROVE CompletedWasSent'
    BY <1>10 DEF SendThrows, Submit, FreshTx
  <1>11. ASSUME NEW c \in Calls, CannotPay(c) PROVE CompletedWasSent'
    BY <1>11 DEF CannotPay
  <1>12. ASSUME NEW c \in Calls, Track(c) PROVE CompletedWasSent'
    BY <1>12 DEF Track, AddReceipt
  <1>13. ASSUME NEW c \in Calls, TrackThrows(c) PROVE CompletedWasSent'
    BY <1>13 DEF TrackThrows, AddReceipt
  <1>14. ASSUME NEW c \in Calls, Check(c) PROVE CompletedWasSent'
    BY <1>14 DEF Check
  <1>15. ASSUME NEW c \in Calls, CheckThrows(c) PROVE CompletedWasSent'
    BY <1>15 DEF CheckThrows
  <1>16. ASSUME NEW c \in Calls, Crawl(c) PROVE CompletedWasSent'
    BY <1>16, CrawlEffect DEF CompletedWasSent
  <1>17. ASSUME NEW c \in Calls, CrawlThrows(c) PROVE CompletedWasSent'
    BY <1>17 DEF CrawlThrows
  <1>18. ASSUME NEW c \in Calls, Remove(c) PROVE CompletedWasSent'
    BY <1>18 DEF Remove
  <1>19. ASSUME NEW c \in Calls, Readd(c) PROVE CompletedWasSent'
    BY <1>19 DEF Readd, AddPublishJob
  <1>20. ASSUME NEW c \in Calls, RetryThrows(c) PROVE CompletedWasSent'
    BY <1>20, SMTT(30) DEF RetryThrows, AddPublishJob
  <1>21. ASSUME NEW t \in Txs, Include(t) PROVE CompletedWasSent'
    BY <1>21 DEF Include
  <1>22. ASSUME NEW t \in Txs, Drop(t) PROVE CompletedWasSent'
    BY <1>22 DEF Drop
  <1>23. ASSUME NEW t \in Txs, Finalize(t) PROVE CompletedWasSent'
    BY <1>23 DEF Finalize
  <1>24. ASSUME NEW t \in Txs, Reorganise(t) PROVE CompletedWasSent'
    BY <1>24 DEF Reorganise
  <1> QED
    BY <1>1, <1>2, <1>3, <1>4, <1>5, <1>6, <1>7, <1>8, <1>9, <1>10, <1>11, <1>12,
       <1>13, <1>14, <1>15, <1>16, <1>17, <1>18, <1>19, <1>20, <1>21, <1>22, <1>23, <1>24
       DEF Next, CallStep, CallFails

Sent == SentIsTracked /\ CompletedWasSent

(* Nothing was sent at the start. *)
LEMMA SentInit == Init => Sent
  BY DEF Init, Sent, SentIsTracked, CompletedWasSent

(* Both facts about what was sent are kept. *)
LEMMA SentStep == IInv /\ IInv' /\ Sent /\ [Next]_vars => Sent'
  <1>1. ASSUME IInv, IInv', Sent, Next PROVE Sent'
    BY <1>1, SentIsTrackedStep, CompletedWasSentStep DEF IInv, Sent
  <1>2. ASSUME Sent, UNCHANGED vars PROVE Sent'
    BY <1>2 DEF vars, Sent, SentIsTracked, CompletedWasSent
  <1> QED BY <1>1, <1>2

(* What was sent is tracked, and what is completed was sent. *)
THEOREM SentInvariant == Spec => []Sent
  BY SentInit, SentStep, Inductive, PTL DEF Spec

-----------------------------------------------------------------------------
(* The properties. *)

(* Every variable keeps its type, and a call has the kind of job its step is about. *)
THEOREM TypeCorrect == Spec => []TypeOK
  <1>1. IInv => TypeOK
    BY DEF IInv
  <1> QED BY <1>1, Inductive, PTL

(* A set whose members are all equal has one member. *)
LEMMA SingletonSet ==
  ASSUME NEW S, NEW t \in S, \A s, r \in S : s = r
  PROVE  S = {t}
  OBVIOUS

(* A batch is in the pool or stored twice only if a call of its was cut short or a block   *)
(* was replaced, for any number of batches, calls, retries and mishaps.                    *)
THEOREM PublishedOnceSafety == Spec => []PublishedOnce
  <1>1. ASSUME IInv, NEW b \in Batches \ (interrupted \cup reorged)
        PROVE  Cardinality(Alive(b)) <= 1
    <2>1. \A s, t \in Alive(b) : s = t
      BY <1>1 DEF IInv, Once, AliveOnce, Clean
    <2>2. CASE Alive(b) = {}
      BY <2>2, FS_EmptySet
    <2>3. CASE Alive(b) # {}
      <3>1. PICK t \in Alive(b) : TRUE
        BY <2>3
      <3>2. Alive(b) = {t}
        BY <2>1, <3>1, SingletonSet
      <3>3. Cardinality({t}) = 1
        BY FS_Singleton
      <3> QED BY <3>2, <3>3
    <2> QED BY <2>2, <2>3
  <1>2. IInv => PublishedOnce
    BY <1>1 DEF PublishedOnce
  <1> QED BY <1>2, Inductive, PTL

(* Whatever the node was given has a receipt job, or a call about to leave one, unless the *)
(* call that sent it was cut short.                                                        *)
THEOREM SentIsTrackedSafety == Spec => []SentIsTracked
  <1>1. Sent => SentIsTracked
    BY DEF Sent
  <1> QED BY <1>1, SentInvariant, PTL

(* A publish job is completed only by way of a transaction of its batch. *)
THEOREM CompletedWasSentSafety == Spec => []CompletedWasSent
  <1>1. Sent => CompletedWasSent
    BY DEF Sent
  <1> QED BY <1>1, SentInvariant, PTL

-----------------------------------------------------------------------------
(* The refinement of Publication. *)

Ordered == {b \in Batches : state[b] # "absent" \/ \E t \in Txs : batchOf[t] = b}
AliveMap == [b \in Batches |-> Alive(b)]
Disturbed == interrupted \cup reorged

(* What a publisher works on was ordered, even if the job has been handed out again since. *)
WorkedIsOrdered == \A c \in Calls : call[c].job \in Batches => call[c].job \in Ordered

(* A batch that was ordered stays ordered. *)
LEMMA OrderedGrows ==
  ASSUME TypeOK, TypeOK', Shape, Shape', CompletedWasSent, Next
  PROVE  Ordered \subseteq Ordered'
  <1> USE DEF TypeOK, Shape, CallShape, ReceiptShape, CompletedWasSent, Ordered
  <1>1. ASSUME NEW c \in Calls, NEW j \in Jobs, Take(c, j) PROVE Ordered \subseteq Ordered'
    BY <1>1 DEF Take, FirstStep
  <1>2. ASSUME NEW c \in Calls, Finish(c) PROVE Ordered \subseteq Ordered'
    BY <1>2 DEF Finish
  <1>3. ASSUME NEW c \in Calls, Die(c) PROVE Ordered \subseteq Ordered'
    BY <1>3 DEF Die, HadEffect
  <1>4. ASSUME NEW j \in Jobs, StallJob(j) PROVE Ordered \subseteq Ordered'
    BY <1>4 DEF StallJob
  <1>5. ASSUME NEW b \in Batches, Evict(b) PROVE Ordered \subseteq Ordered'
    BY <1>5 DEF Evict
  <1>6. ASSUME NEW c \in Calls, Announce(c) PROVE Ordered \subseteq Ordered'
    BY <1>6 DEF Announce
  <1>7. ASSUME NEW c \in Calls, Enqueue(c) PROVE Ordered \subseteq Ordered'
    BY <1>7 DEF Enqueue, AddPublishJob
  <1>8. ASSUME NEW c \in Calls, AnnounceThrows(c) PROVE Ordered \subseteq Ordered'
    BY <1>8, SMTT(30) DEF AnnounceThrows, AddPublishJob
  <1>9. ASSUME NEW c \in Calls, Send(c) PROVE Ordered \subseteq Ordered'
    BY <1>9 DEF Send, Submit, FreshTx
  <1>10. ASSUME NEW c \in Calls, SendThrows(c) PROVE Ordered \subseteq Ordered'
    BY <1>10 DEF SendThrows, Submit, FreshTx
  <1>11. ASSUME NEW c \in Calls, CannotPay(c) PROVE Ordered \subseteq Ordered'
    BY <1>11 DEF CannotPay
  <1>12. ASSUME NEW c \in Calls, Track(c) PROVE Ordered \subseteq Ordered'
    BY <1>12 DEF Track, AddReceipt
  <1>13. ASSUME NEW c \in Calls, TrackThrows(c) PROVE Ordered \subseteq Ordered'
    BY <1>13 DEF TrackThrows, AddReceipt
  <1>14. ASSUME NEW c \in Calls, Check(c) PROVE Ordered \subseteq Ordered'
    BY <1>14 DEF Check
  <1>15. ASSUME NEW c \in Calls, CheckThrows(c) PROVE Ordered \subseteq Ordered'
    BY <1>15 DEF CheckThrows
  <1>16. ASSUME NEW c \in Calls, Crawl(c) PROVE Ordered \subseteq Ordered'
    BY <1>16, CrawlEffect
  <1>17. ASSUME NEW c \in Calls, CrawlThrows(c) PROVE Ordered \subseteq Ordered'
    BY <1>17 DEF CrawlThrows
  <1>18. ASSUME NEW c \in Calls, Remove(c) PROVE Ordered \subseteq Ordered'
    BY <1>18 DEF Remove
  <1>19. ASSUME NEW c \in Calls, Readd(c) PROVE Ordered \subseteq Ordered'
    BY <1>19 DEF Readd, AddPublishJob
  <1>20. ASSUME NEW c \in Calls, RetryThrows(c) PROVE Ordered \subseteq Ordered'
    BY <1>20, SMTT(30) DEF RetryThrows, AddPublishJob
  <1>21. ASSUME NEW t \in Txs, Include(t) PROVE Ordered \subseteq Ordered'
    BY <1>21 DEF Include
  <1>22. ASSUME NEW t \in Txs, Drop(t) PROVE Ordered \subseteq Ordered'
    BY <1>22 DEF Drop
  <1>23. ASSUME NEW t \in Txs, Finalize(t) PROVE Ordered \subseteq Ordered'
    BY <1>23 DEF Finalize
  <1>24. ASSUME NEW t \in Txs, Reorganise(t) PROVE Ordered \subseteq Ordered'
    BY <1>24 DEF Reorganise
  <1> QED
    BY <1>1, <1>2, <1>3, <1>4, <1>5, <1>6, <1>7, <1>8, <1>9, <1>10, <1>11, <1>12,
       <1>13, <1>14, <1>15, <1>16, <1>17, <1>18, <1>19, <1>20, <1>21, <1>22, <1>23, <1>24
       DEF Next, CallStep, CallFails

(* A call takes a publish job only if the job is there. *)
LEMMA JobsOfCalls ==
  ASSUME TypeOK, TypeOK', Shape, Shape', CompletedWasSent, Next
  PROVE  \A d \in Calls : call'[d].job \in Batches =>
             call'[d].job = call[d].job \/ state[call'[d].job] # "absent"
  <1> DEFINE Goal == \A d \in Calls : call'[d].job \in Batches =>
                         call'[d].job = call[d].job \/ state[call'[d].job] # "absent"
  <1> USE DEF TypeOK, Shape, CallShape
  <1>1. ASSUME NEW c \in Calls, NEW j \in Jobs, Take(c, j) PROVE Goal
    BY <1>1 DEF Take, FirstStep
  <1>2. ASSUME NEW c \in Calls, Finish(c) PROVE Goal
    BY <1>2 DEF Finish
  <1>3. ASSUME NEW c \in Calls, Die(c) PROVE Goal
    BY <1>3 DEF Die, HadEffect
  <1>4. ASSUME NEW j \in Jobs, StallJob(j) PROVE Goal
    BY <1>4 DEF StallJob
  <1>5. ASSUME NEW b \in Batches, Evict(b) PROVE Goal
    BY <1>5 DEF Evict
  <1>6. ASSUME NEW c \in Calls, Announce(c) PROVE Goal
    BY <1>6 DEF Announce
  <1>7. ASSUME NEW c \in Calls, Enqueue(c) PROVE Goal
    BY <1>7 DEF Enqueue, AddPublishJob
  <1>8. ASSUME NEW c \in Calls, AnnounceThrows(c) PROVE Goal
    BY <1>8 DEF AnnounceThrows, AddPublishJob
  <1>9. ASSUME NEW c \in Calls, Send(c) PROVE Goal
    BY <1>9 DEF Send, Submit, FreshTx
  <1>10. ASSUME NEW c \in Calls, SendThrows(c) PROVE Goal
    BY <1>10 DEF SendThrows, Submit, FreshTx
  <1>11. ASSUME NEW c \in Calls, CannotPay(c) PROVE Goal
    BY <1>11 DEF CannotPay
  <1>12. ASSUME NEW c \in Calls, Track(c) PROVE Goal
    BY <1>12 DEF Track, AddReceipt
  <1>13. ASSUME NEW c \in Calls, TrackThrows(c) PROVE Goal
    BY <1>13 DEF TrackThrows, AddReceipt
  <1>14. ASSUME NEW c \in Calls, Check(c) PROVE Goal
    BY <1>14 DEF Check
  <1>15. ASSUME NEW c \in Calls, CheckThrows(c) PROVE Goal
    BY <1>15 DEF CheckThrows
  <1>16. ASSUME NEW c \in Calls, Crawl(c) PROVE Goal
    BY <1>16, CrawlEffect
  <1>17. ASSUME NEW c \in Calls, CrawlThrows(c) PROVE Goal
    BY <1>17 DEF CrawlThrows
  <1>18. ASSUME NEW c \in Calls, Remove(c) PROVE Goal
    BY <1>18 DEF Remove
  <1>19. ASSUME NEW c \in Calls, Readd(c) PROVE Goal
    BY <1>19 DEF Readd, AddPublishJob
  <1>20. ASSUME NEW c \in Calls, RetryThrows(c) PROVE Goal
    BY <1>20 DEF RetryThrows, AddPublishJob
  <1>21. ASSUME NEW t \in Txs, Include(t) PROVE Goal
    BY <1>21 DEF Include
  <1>22. ASSUME NEW t \in Txs, Drop(t) PROVE Goal
    BY <1>22 DEF Drop
  <1>23. ASSUME NEW t \in Txs, Finalize(t) PROVE Goal
    BY <1>23 DEF Finalize
  <1>24. ASSUME NEW t \in Txs, Reorganise(t) PROVE Goal
    BY <1>24 DEF Reorganise
  <1> QED
    BY <1>1, <1>2, <1>3, <1>4, <1>5, <1>6, <1>7, <1>8, <1>9, <1>10, <1>11, <1>12,
       <1>13, <1>14, <1>15, <1>16, <1>17, <1>18, <1>19, <1>20, <1>21, <1>22, <1>23, <1>24
       DEF Next, CallStep, CallFails

(* A call works on a publish job of an ordered batch. *)
LEMMA WorkedStep ==
  ASSUME TypeOK, TypeOK', Shape, Shape', CompletedWasSent, WorkedIsOrdered, Next
  PROVE  WorkedIsOrdered'
  <1> SUFFICES ASSUME NEW c \in Calls, call'[c].job \in Batches
               PROVE  call'[c].job \in Ordered'
    BY DEF WorkedIsOrdered
  <1>1. call'[c].job \in Ordered
    BY JobsOfCalls DEF WorkedIsOrdered, Ordered
  <1> QED BY <1>1, OrderedGrows

(* The abstract steps, in the terms of this module. *)
LEMMA AbstractOrder ==
  ASSUME NEW b \in Batches, Ordered' = Ordered \cup {b}, UNCHANGED <<AliveMap, Disturbed>>
  PROVE  Implemented!Next
  BY DEF Implemented!Next, Implemented!Order, Ordered, AliveMap, Disturbed

(* The abstract step that disturbs a batch. *)
LEMMA AbstractDisturb ==
  ASSUME NEW b \in Batches, Disturbed' = Disturbed \cup {b}, UNCHANGED <<Ordered, AliveMap>>
  PROVE  Implemented!Next
  BY DEF Implemented!Next, Implemented!Disturb, Ordered, AliveMap, Disturbed

(* The abstract step that submits a transaction of an ordered batch. *)
LEMMA AbstractSubmit ==
  ASSUME NEW b \in Ordered, NEW t \in Txs, UNCHANGED Ordered,
         Disturbed' \in {Disturbed, Disturbed \cup {b}},
         Alive(b) = {} \/ b \in Disturbed',
         \A a \in Batches : t \notin Alive(a),
         AliveMap' = [AliveMap EXCEPT ![b] = @ \cup {t}]
  PROVE  Implemented!Next
  <1>1. b \in Batches /\ AliveMap[b] = Alive(b) /\ \A a \in Batches : AliveMap[a] = Alive(a)
    BY DEF Ordered, AliveMap
  <1>2. Implemented!Submit(b, t)
    BY <1>1 DEF Implemented!Submit, Ordered, AliveMap, Disturbed
  <1> QED BY <1>1, <1>2 DEF Implemented!Next

(* The abstract step that loses a transaction. *)
LEMMA AbstractLose ==
  ASSUME NEW b \in Batches, NEW t \in Txs, UNCHANGED <<Ordered, Disturbed>>,
         AliveMap' = [AliveMap EXCEPT ![b] = @ \ {t}]
  PROVE  Implemented!Next
  BY DEF Implemented!Next, Implemented!Lose, Ordered, AliveMap, Disturbed

(* A step that the abstraction does not see. *)
LEMMA AbstractStutter ==
  ASSUME UNCHANGED <<Ordered, AliveMap, Disturbed>>
  PROVE  UNCHANGED Implemented!vars
  BY DEF Implemented!vars, Ordered, AliveMap, Disturbed

Simulates == Implemented!Next \/ UNCHANGED Implemented!vars

(* Only the announcer orders a batch. *)
Announcing == \E c \in Calls : Enqueue(c) \/ AnnounceThrows(c)
Other ==
    \/ \E c \in Calls, j \in Jobs : Take(c, j)
    \/ \E c \in Calls : \/ Finish(c) \/ Die(c) \/ Announce(c) \/ Send(c)
                        \/ SendThrows(c) \/ CannotPay(c) \/ Track(c) \/ TrackThrows(c)
                        \/ Check(c) \/ CheckThrows(c) \/ Crawl(c) \/ CrawlThrows(c)
                        \/ Remove(c) \/ Readd(c) \/ RetryThrows(c)
    \/ \E t \in Txs : Include(t) \/ Drop(t) \/ Finalize(t) \/ Reorganise(t)
    \/ \E j \in Jobs : StallJob(j)
    \/ \E b \in Batches : Evict(b)

(* Only the announcer orders a batch. *)
LEMMA OthersOrderNothing ==
  ASSUME TypeOK, TypeOK', Shape, Shape', CompletedWasSent, WorkedIsOrdered, Other
  PROVE  Ordered' \subseteq Ordered
  <1> USE DEF TypeOK, Shape, CallShape, WorkedIsOrdered, Ordered
  <1>1. ASSUME NEW c \in Calls, NEW j \in Jobs, Take(c, j) PROVE Ordered' \subseteq Ordered
    BY <1>1 DEF Take, FirstStep
  <1>2. ASSUME NEW c \in Calls, Finish(c) PROVE Ordered' \subseteq Ordered
    BY <1>2 DEF Finish
  <1>3. ASSUME NEW c \in Calls, Die(c) PROVE Ordered' \subseteq Ordered
    BY <1>3 DEF Die, HadEffect
  <1>4. ASSUME NEW j \in Jobs, StallJob(j) PROVE Ordered' \subseteq Ordered
    BY <1>4 DEF StallJob
  <1>5. ASSUME NEW b \in Batches, Evict(b) PROVE Ordered' \subseteq Ordered
    BY <1>5 DEF Evict
  <1>6. ASSUME NEW c \in Calls, Announce(c) PROVE Ordered' \subseteq Ordered
    BY <1>6 DEF Announce
  <1>7. ASSUME NEW c \in Calls, Send(c) PROVE Ordered' \subseteq Ordered
    BY <1>7 DEF Send, Submit, FreshTx
  <1>8. ASSUME NEW c \in Calls, SendThrows(c) PROVE Ordered' \subseteq Ordered
    <2>1. CASE UNCHANGED <<tx, batchOf, interrupted>>
      BY <1>8, <2>1 DEF SendThrows
    <2>2. CASE Submit(c)
      <3>1. call[c].job \in Ordered /\ state' = state
        BY <1>8, <2>2 DEF SendThrows, Submit
      <3> QED BY <2>2, <3>1 DEF Submit
    <2> QED BY <1>8, <2>1, <2>2 DEF SendThrows
  <1>9. ASSUME NEW c \in Calls, CannotPay(c) PROVE Ordered' \subseteq Ordered
    BY <1>9 DEF CannotPay
  <1>10. ASSUME NEW c \in Calls, Track(c) PROVE Ordered' \subseteq Ordered
    BY <1>10 DEF Track, AddReceipt
  <1>11. ASSUME NEW c \in Calls, TrackThrows(c) PROVE Ordered' \subseteq Ordered
    BY <1>11 DEF TrackThrows, AddReceipt
  <1>12. ASSUME NEW c \in Calls, Check(c) PROVE Ordered' \subseteq Ordered
    BY <1>12 DEF Check
  <1>13. ASSUME NEW c \in Calls, CheckThrows(c) PROVE Ordered' \subseteq Ordered
    BY <1>13 DEF CheckThrows
  <1>14. ASSUME NEW c \in Calls, Crawl(c) PROVE Ordered' \subseteq Ordered
    BY <1>14, CrawlEffect
  <1>15. ASSUME NEW c \in Calls, CrawlThrows(c) PROVE Ordered' \subseteq Ordered
    BY <1>15 DEF CrawlThrows
  <1>16. ASSUME NEW c \in Calls, Remove(c) PROVE Ordered' \subseteq Ordered
    BY <1>16 DEF Remove
  <1>17. ASSUME NEW c \in Calls, Readd(c) PROVE Ordered' \subseteq Ordered
    BY <1>17 DEF Readd, AddPublishJob
  <1>18. ASSUME NEW c \in Calls, RetryThrows(c) PROVE Ordered' \subseteq Ordered
    BY <1>18 DEF RetryThrows, AddPublishJob
  <1>19. ASSUME NEW t \in Txs, Include(t) PROVE Ordered' \subseteq Ordered
    BY <1>19 DEF Include
  <1>20. ASSUME NEW t \in Txs, Drop(t) PROVE Ordered' \subseteq Ordered
    BY <1>20 DEF Drop
  <1>21. ASSUME NEW t \in Txs, Finalize(t) PROVE Ordered' \subseteq Ordered
    BY <1>21 DEF Finalize
  <1>22. ASSUME NEW t \in Txs, Reorganise(t) PROVE Ordered' \subseteq Ordered
    BY <1>22 DEF Reorganise
  <1> QED
    BY <1>1, <1>2, <1>3, <1>4, <1>5, <1>6, <1>7, <1>8, <1>9, <1>10, <1>11, <1>12,
       <1>13, <1>14, <1>15, <1>16, <1>17, <1>18, <1>19, <1>20, <1>21, <1>22
       DEF Other

(* Of the other steps, these leave the chain and the history alone. *)
Silent ==
    \/ \E c \in Calls, j \in Jobs : Take(c, j)
    \/ \E c \in Calls : \/ Finish(c) \/ Announce(c) \/ CannotPay(c) \/ Track(c)
                        \/ Check(c) \/ Crawl(c) \/ CrawlThrows(c) \/ Remove(c)
                        \/ Readd(c)
    \/ \E t \in Txs : Finalize(t)
    \/ \E b \in Batches : Evict(b)

(* Most steps leave the chain and the disturbed batches as they are. *)
LEMMA SilentChanges ==
  ASSUME TypeOK, Shape, Silent
  PROVE  UNCHANGED <<tx, batchOf, interrupted, reorged>>
  <1> DEFINE Goal == UNCHANGED <<tx, batchOf, interrupted, reorged>>
  <1>1. ASSUME NEW c \in Calls, NEW j \in Jobs, Take(c, j) PROVE Goal
    BY <1>1 DEF Take, FirstStep
  <1>2. ASSUME NEW c \in Calls, Finish(c) PROVE Goal
    BY <1>2 DEF Finish
  <1>3. ASSUME NEW b \in Batches, Evict(b) PROVE Goal
    BY <1>3 DEF Evict
  <1>4. ASSUME NEW c \in Calls, Announce(c) PROVE Goal
    BY <1>4 DEF Announce
  <1>5. ASSUME NEW c \in Calls, CannotPay(c) PROVE Goal
    BY <1>5 DEF CannotPay
  <1>6. ASSUME NEW c \in Calls, Track(c) PROVE Goal
    BY <1>6 DEF Track, AddReceipt
  <1>7. ASSUME NEW c \in Calls, Check(c) PROVE Goal
    BY <1>7 DEF Check
  <1>8. ASSUME NEW c \in Calls, Crawl(c) PROVE Goal
    BY <1>8, CrawlEffect
  <1>9. ASSUME NEW c \in Calls, CrawlThrows(c) PROVE Goal
    BY <1>9 DEF CrawlThrows
  <1>10. ASSUME NEW c \in Calls, Remove(c) PROVE Goal
    BY <1>10 DEF Remove
  <1>11. ASSUME NEW c \in Calls, Readd(c) PROVE Goal
    BY <1>11 DEF Readd, AddPublishJob
  <1>12. ASSUME NEW t \in Txs, Finalize(t) PROVE Goal
    BY <1>12 DEF Finalize
  <1> QED
    BY <1>1, <1>2, <1>3, <1>4, <1>5, <1>6, <1>7, <1>8, <1>9, <1>10, <1>11, <1>12
       DEF Silent

(* The announcer's last step orders the batch, if it was not ordered yet. *)
LEMMA AnnouncingOrders ==
  ASSUME TypeOK, Shape, NEW c \in Calls, Enqueue(c) \/ AnnounceThrows(c)
  PROVE  Simulates
  <1>1. PICK b \in Batches : b = Carries[call[c].job]
    BY DEF Enqueue, AnnounceThrows, Shape, CallShape
  <1>2. /\ \A j \in Jobs : j # b => state'[j] = state[j]
        /\ state[b] # "absent" => state'[b] # "absent"
        /\ UNCHANGED <<tx, batchOf, interrupted, reorged>>
    BY <1>1, AddedSame DEF Enqueue, AnnounceThrows
  <1>3. UNCHANGED <<AliveMap, Disturbed>>
    BY <1>2 DEF AliveMap, Alive, Disturbed
  <1>4. Ordered' = Ordered \/ Ordered' = Ordered \cup {b}
    BY <1>1, <1>2 DEF Ordered
  <1>5. CASE Ordered' = Ordered
    BY <1>3, <1>5, AbstractStutter DEF Simulates
  <1>6. CASE Ordered' = Ordered \cup {b}
    BY <1>3, <1>6, AbstractOrder DEF Simulates
  <1> QED BY <1>4, <1>5, <1>6

(* When an undisturbed batch is sent, no transaction of its may still be stored. *)
LEMMA NothingSent ==
  ASSUME TypeOK, Shape, LockHeld, Once, NEW c \in Calls, Send(c), call[c].job \in Clean
  PROVE  Alive(call[c].job) = {}
  <1>1. PICK b \in Batches : b = call[c].job /\ call[c].pc = "send" /\ call[c].tx = None
    BY DEF Send, Submit, Shape, CallShape
  <1>2. owner[b] = c
    BY <1>1 DEF LockHeld, Clean
  <1>3. state[b] = "active"
    BY <1>1, <1>2 DEF Shape, LockShape
  <1>4. \A d \in Calls : call[d].job = b => d = c
    BY <1>1, <1>2 DEF LockHeld, Clean, Shape, CallShape
  <1>5. Unsent(b)
    BY <1>1, <1>3, <1>4 DEF Unsent
  <1> QED BY <1>1, <1>5 DEF Once, SentOnce

(* What sending does to the chain. *)
LEMMA SubmittedChain ==
  ASSUME TypeOK, Shape, NEW c \in Calls, Submit(c)
  PROVE  /\ call[c].job \in Batches /\ FreshTx \in Txs
         /\ \A a \in Batches : FreshTx \notin Alive(a)
         /\ AliveMap' = [AliveMap EXCEPT ![call[c].job] = @ \cup {FreshTx}]
  <1>1. PICK b \in Batches, n \in Txs :
           b = call[c].job /\ n = FreshTx /\ tx[n] = "none"
    BY FreshTxIsFresh DEF Submit, Shape, CallShape
  <1>2. /\ tx'[n] = "pool" /\ batchOf'[n] = b
        /\ \A t \in Txs : t # n => tx'[t] = tx[t] /\ batchOf'[t] = batchOf[t]
    BY <1>1 DEF Submit, TypeOK
  <1>3. \A a \in Batches : n \notin Alive(a)
    BY <1>1 DEF Alive
  <1>4. \A a \in Batches : Alive(a)' = IF a = b THEN Alive(a) \cup {n} ELSE Alive(a)
    BY <1>1, <1>2, <1>3 DEF Alive
  <1> QED BY <1>1, <1>3, <1>4 DEF AliveMap

(* To send a batch is the abstract submission. *)
LEMMA SendSubmits ==
  ASSUME IInv, WorkedIsOrdered, UNCHANGED Ordered, NEW c \in Calls, Send(c)
  PROVE  Simulates
  <1>1. /\ call[c].job \in Ordered /\ FreshTx \in Txs
        /\ \A a \in Batches : FreshTx \notin Alive(a)
        /\ AliveMap' = [AliveMap EXCEPT ![call[c].job] = @ \cup {FreshTx}]
    BY SubmittedChain DEF Send, IInv, WorkedIsOrdered
  <1>2. PICK b \in Ordered, t \in Txs : b = call[c].job /\ t = FreshTx
    BY <1>1
  <1>3. Disturbed' = Disturbed
    BY DEF Send, Disturbed
  <1>4. Alive(b) = {} \/ b \in Disturbed'
    BY <1>2, <1>3, NothingSent DEF IInv, Clean, Disturbed, Ordered
  <1> QED BY <1>1, <1>2, <1>3, <1>4, AbstractSubmit DEF Simulates

(* To send a batch and be cut short submits and disturbs it. *)
LEMMA SendThrowsSubmits ==
  ASSUME TypeOK, Shape, WorkedIsOrdered, UNCHANGED Ordered, NEW c \in Calls, SendThrows(c)
  PROVE  Simulates
  <1>1. CASE UNCHANGED <<tx, batchOf, interrupted>>
    <2>1. UNCHANGED <<AliveMap, Disturbed>>
      BY <1>1 DEF SendThrows, AliveMap, Alive, Disturbed
    <2> QED BY <2>1, AbstractStutter DEF Simulates
  <1>2. CASE Submit(c) /\ interrupted' = interrupted \cup {call[c].job}
    <2>1. /\ call[c].job \in Ordered /\ FreshTx \in Txs
          /\ \A a \in Batches : FreshTx \notin Alive(a)
          /\ AliveMap' = [AliveMap EXCEPT ![call[c].job] = @ \cup {FreshTx}]
      BY <1>2, SubmittedChain DEF WorkedIsOrdered
    <2>2. PICK b \in Ordered, t \in Txs : b = call[c].job /\ t = FreshTx
      BY <2>1
    <2>3. Disturbed' = Disturbed \cup {b}
      BY <1>2, <2>2 DEF SendThrows, Disturbed
    <2> QED BY <2>1, <2>2, <2>3, AbstractSubmit DEF Simulates
  <1> QED BY <1>1, <1>2 DEF SendThrows

(* What cuts a call short disturbs its batch at most. *)
LEMMA CutShort ==
  ASSUME TypeOK, Shape, UNCHANGED Ordered,
         \/ \E c \in Calls : Die(c) \/ TrackThrows(c) \/ CheckThrows(c) \/ RetryThrows(c)
         \/ \E j \in Jobs : StallJob(j)
  PROVE  Simulates
  <1>1. UNCHANGED <<tx, batchOf, reorged>>
    BY DEF Die, TrackThrows, CheckThrows, RetryThrows, StallJob
  <1>2. UNCHANGED AliveMap
    BY <1>1 DEF AliveMap, Alive
  <1> DEFINE OneMore == interrupted' = interrupted
                        \/ \E b \in Batches : interrupted' = interrupted \cup {b}
  <1>3. OneMore
    <2>1. ASSUME NEW c \in Calls, Die(c) PROVE OneMore
      <3>1. call[c].job \in Jobs /\ (call[c].tx # None => call[c].job \in Batches)
        BY <2>1 DEF Die, Shape, CallShape
      <3>2. BatchOf(call[c].job) \in Batches \cup {None}
        BY <3>1 DEF TypeOK
      <3>3. HadEffect(c) => BatchOf(call[c].job) # None
        BY <3>1, <3>2 DEF HadEffect, Shape, ReceiptShape, CallShape
      <3> QED BY <2>1, <3>2, <3>3 DEF Die
    <2>2. ASSUME NEW j \in Jobs, StallJob(j) PROVE OneMore
      BY <2>2 DEF StallJob, TypeOK, Shape, ReceiptShape
    <2>3. ASSUME NEW c \in Calls, TrackThrows(c) \/ CheckThrows(c) PROVE OneMore
      BY <2>3 DEF TrackThrows, CheckThrows, Shape, CallShape
    <2>4. ASSUME NEW c \in Calls, RetryThrows(c) PROVE OneMore
      BY <2>4, SMTT(30) DEF RetryThrows, TypeOK, Shape, CallShape, ReceiptShape
    <2> QED BY <2>1, <2>2, <2>3, <2>4
  <1>4. CASE interrupted' = interrupted
    BY <1>1, <1>2, <1>4, AbstractStutter DEF Disturbed, Simulates
  <1>5. ASSUME NEW b \in Batches, interrupted' = interrupted \cup {b} PROVE Simulates
    <2>1. Disturbed' = Disturbed \cup {b}
      BY <1>1, <1>5 DEF Disturbed
    <2> QED BY <1>2, <2>1, AbstractDisturb DEF Simulates
  <1> QED BY <1>3, <1>4, <1>5

(* A block stores, drops or loses a transaction. *)
LEMMA ChainMoves ==
  ASSUME TypeOK, Shape, UNCHANGED Ordered, NEW t \in Txs,
         Include(t) \/ Drop(t) \/ Reorganise(t)
  PROVE  Simulates
  <1>1. PICK b \in Batches : b = batchOf[t]
    BY DEF Include, Drop, Reorganise, InBlock, TypeOK, Shape, ReceiptShape
  <1>2. /\ \A s \in Txs : s # t => tx'[s] = tx[s]
        /\ UNCHANGED <<batchOf, interrupted>>
    BY DEF Include, Drop, Reorganise, TypeOK
  <1>3. \A a \in Batches : a # b => Alive(a)' = Alive(a)
    BY <1>1, <1>2 DEF Alive
  <1>4. ASSUME Include(t) \/ Drop(t) PROVE Simulates
    <2>1. UNCHANGED Disturbed /\ Alive(b)' \in {Alive(b), Alive(b) \ {t}}
      <3>1. tx[t] = "pool" /\ UNCHANGED Disturbed
        BY <1>4 DEF Include, Drop, Disturbed
      <3>2. CASE tx'[t] = "stored"
        BY <1>1, <1>2, <3>1, <3>2 DEF Alive
      <3>3. CASE tx'[t] \in {"congested", "refused", "erred", "gone"}
        <4>1. Alive(b)' = Alive(b) \ {t}
          BY <1>1, <1>2, <3>1, <3>3 DEF Alive
        <4> QED BY <3>1, <4>1
      <3>4. tx'[t] \in InBlock \cup {"gone"}
        BY <1>4 DEF Include, Drop, TypeOK
      <3> QED BY <3>1, <3>2, <3>3, <3>4
    <2>2. CASE Alive(b)' = Alive(b)
      <3>1. UNCHANGED AliveMap
        BY <1>3, <2>2 DEF AliveMap
      <3> QED BY <2>1, <3>1, AbstractStutter DEF Simulates
    <2>3. CASE Alive(b)' = Alive(b) \ {t}
      <3>1. AliveMap' = [AliveMap EXCEPT ![b] = @ \ {t}]
        BY <1>3, <2>3 DEF AliveMap
      <3> QED BY <2>1, <3>1, AbstractLose DEF Simulates
    <2> QED BY <2>1, <2>2, <2>3
  <1>5. ASSUME Reorganise(t) PROVE Simulates
    <2>1. Disturbed' = Disturbed \cup {b} /\ b \in Ordered
      BY <1>1, <1>5 DEF Reorganise, Disturbed, Ordered
    <2>2. CASE tx[t] = "stored"
      <3>1. Alive(b)' = Alive(b)
        BY <1>1, <1>2, <1>5, <2>2 DEF Reorganise, Alive, TypeOK
      <3>2. UNCHANGED AliveMap
        BY <1>3, <3>1 DEF AliveMap
      <3> QED BY <2>1, <3>2, AbstractDisturb DEF Simulates
    <2>3. CASE tx[t] # "stored"
      <3>1. /\ tx'[t] = "pool" /\ \A a \in Batches : t \notin Alive(a)
        BY <1>5, <2>3 DEF Reorganise, Alive, TypeOK
      <3>2. Alive(b)' = Alive(b) \cup {t}
        BY <1>1, <1>2, <3>1 DEF Alive
      <3>3. AliveMap' = [AliveMap EXCEPT ![b] = @ \cup {t}]
        BY <1>3, <3>2 DEF AliveMap
      <3> QED BY <2>1, <3>1, <3>3, AbstractSubmit DEF Simulates
    <2> QED BY <2>2, <2>3
  <1> QED BY <1>4, <1>5

(* Every step maps to a step of Publication, or to none. *)
LEMMA Simulation ==
  ASSUME IInv, IInv', CompletedWasSent, WorkedIsOrdered, Next
  PROVE  Simulates
  <1> USE DEF IInv
  <1>1. CASE Announcing
    BY <1>1, AnnouncingOrders DEF Announcing
  <1>2. CASE Other
    <2>1. UNCHANGED Ordered
      BY <1>2, OthersOrderNothing, OrderedGrows
    <2>2. CASE Silent
      <3>1. UNCHANGED <<AliveMap, Disturbed>>
        BY <2>2, SilentChanges DEF AliveMap, Alive, Disturbed
      <3> QED BY <2>1, <3>1, AbstractStutter DEF Simulates
    <2>3. CASE \/ \E c \in Calls : Die(c) \/ TrackThrows(c) \/ CheckThrows(c) \/ RetryThrows(c)
               \/ \E j \in Jobs : StallJob(j)
      BY <2>1, <2>3, CutShort
    <2>4. CASE \E c \in Calls : Send(c) \/ SendThrows(c)
      BY <2>1, <2>4, SendSubmits, SendThrowsSubmits
    <2>5. CASE \E t \in Txs : Include(t) \/ Drop(t) \/ Reorganise(t)
      BY <2>1, <2>5, ChainMoves
    <2> QED BY <1>2, <2>2, <2>3, <2>4, <2>5 DEF Other, Silent
  <1> QED BY <1>1, <1>2 DEF Next, CallStep, CallFails, Announcing, Other

(* Whatever crashes, stalls, is lost, or is retried, the chain sees what Publication allows. *)
THEOREM Refinement == Spec => ImplementsPublication
  <1>1. Init => Implemented!Init /\ WorkedIsOrdered
    <2> SUFFICES ASSUME Init PROVE Implemented!Init /\ WorkedIsOrdered
      OBVIOUS
    <2>1. \A b \in Batches : Alive(b) = {}
      BY DEF Init, Alive
    <2>2. Ordered = {} /\ AliveMap = [b \in Batches |-> {}] /\ Disturbed = {}
      BY <2>1 DEF Init, Ordered, AliveMap, Disturbed
    <2>3. WorkedIsOrdered
      BY DEF Init, WorkedIsOrdered
    <2> QED BY <2>2, <2>3 DEF Implemented!Init, Ordered, AliveMap, Disturbed
  <1>2. IInv /\ IInv' /\ Sent /\ WorkedIsOrdered /\ [Next]_vars => WorkedIsOrdered'
    <2>1. ASSUME IInv, IInv', Sent, WorkedIsOrdered, Next PROVE WorkedIsOrdered'
      BY <2>1, WorkedStep DEF IInv, Sent
    <2>2. ASSUME WorkedIsOrdered, UNCHANGED vars PROVE WorkedIsOrdered'
      BY <2>2 DEF vars, WorkedIsOrdered, Ordered
    <2> QED BY <2>1, <2>2
  <1>3. IInv /\ IInv' /\ Sent /\ WorkedIsOrdered /\ [Next]_vars
        => [Implemented!Next]_(Implemented!vars)
    <2>1. ASSUME IInv, IInv', Sent, WorkedIsOrdered, Next
          PROVE  Implemented!Next \/ UNCHANGED Implemented!vars
      BY <2>1, Simulation DEF Sent, Simulates
    <2>2. ASSUME UNCHANGED vars PROVE UNCHANGED Implemented!vars
      BY <2>2 DEF vars, Implemented!vars, Alive
    <2> QED BY <2>1, <2>2
  <1> QED
    BY <1>1, <1>2, <1>3, Inductive, SentInvariant, PTL DEF Spec, ImplementsPublication,
        Implemented!Spec
=============================================================================
