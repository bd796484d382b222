----------------------------- MODULE Publishing -----------------------------
(***************************************************************************)
(* From the batch queue to the chain: BatchAnnouncementService pins each   *)
(* batch on IPFS and adds a publish job for it, PublishingService submits  *)
(* one transaction per publish job and leaves a receipt job for it, and    *)
(* TxStatusMonitoringService looks the transaction up in the blocks and    *)
(* settles it or puts the publish job back.                                *)
(*                                                                         *)
(* The services are BullMQ consumers, so the three queues share one set of *)
(* actions: a job is handed to a call, the call goes through its awaits,   *)
(* and the job is completed or failed.  Capacity enters only through the   *)
(* pause it causes; module Capacity has the rest of it.                    *)
(***************************************************************************)
EXTENDS Naturals, FiniteSets

CONSTANTS
    BatchJobs,        \* jobs of the batch queue
    Carries,          \* the batch such a job carries
    Batches,          \* publish jobs, one per batch: the job id is the batch id
    Txs,              \* transactions; a receipt job's id is its tx hash
    Calls,            \* slots for running process() calls, of all workers
    None,
    PublishAttempts,  \* `attempts: 3` of the announcer's publishQueue.add
    RetryAttempts,    \* ... of a job added without the option, as batch jobs are
    ReceiptAttempts,  \* `attempts: 4` of sendJobToTxReceiptQueue
    MaxStalledCount,  \* BullMQ's maxStalledCount
    Faults,           \* which mishaps may happen
    MaxFaults         \* bound: how many of them in one run

(* "crash": a call dies; "stall": BullMQ hands out a running job again; "rpc", "redis": a  *)
(* request throws; "fees": the chain refuses the tx at submission; "slow": checkCapacity   *)
(* outlasts a receipt's first delay; "congested", "refused", "erred": the tx fails in its  *)
(* block; "late": it gets in after the last block the monitor will crawl; "drop": never;   *)
(* "reorg": the block it was in is replaced; "evict": a completed publish job is forgotten. *)
ASSUME PublishingAssumption ==
    /\ BatchJobs \cap (Batches \cup Txs) = {} /\ Batches \cap Txs = {}
    /\ Carries \in [BatchJobs -> Batches]
    /\ \A i, j \in BatchJobs : Carries[i] = Carries[j] => i = j  \* jobId: metaData.batchId
    /\ None \notin BatchJobs \cup Batches \cup Txs \cup Calls
    /\ {PublishAttempts, ReceiptAttempts} \subseteq Nat \ {0}
    /\ RetryAttempts = 1
    /\ MaxStalledCount \in Nat /\ MaxFaults \in Nat
    /\ Faults \subseteq {"crash", "stall", "rpc", "redis", "fees", "slow", "congested",
                         "refused", "erred", "late", "drop", "reorg", "evict"}

Jobs == BatchJobs \cup Batches \cup Txs

VARIABLES
    state,        \* all three queues: what has become of a job
    made,         \* attemptsMade of a job
    limit,        \* its `attempts` option
    owner,        \* the call whose token holds it
    stalls,       \* BullMQ's stalled counter
    paused,       \* is the publish queue paused?
    call,         \* what each running call is doing
    tx,           \* chain: what has become of a transaction
    batchOf,      \* the batch a transaction carries
    late,         \* transactions included after their window of blocks
    final,        \* transactions in finalized blocks
    faults,       \* mishaps so far
    interrupted,  \* history: batches with a call that was cut short after an effect
    reorged,      \* history: batches with a transaction a reorganisation took back
    kept          \* history: batches whose publish job the monitor found locked

queues  == <<state, made, limit, owner, stalls, paused>>
chain   == <<tx, batchOf, late, final>>
history == <<interrupted, reorged, kept>>
vars == <<queues, call, chain, faults, history>>

-----------------------------------------------------------------------------
InBlock == {"stored", "congested", "refused", "erred"}

CallRec == [pc   : {"idle", "announce", "enqueue", "send", "track", "check",
                    "crawl", "remove", "readd", "done"},
            job  : Jobs \cup {None},
            tx   : Txs \cup {None},               \* the transaction it has submitted
            fate : {"ok", "retry", "fatal"}]      \* how its promise will settle

Idle == [pc |-> "idle", job |-> None, tx |-> None, fate |-> "ok"]

Mishap(kind) == /\ kind \in Faults
                /\ faults < MaxFaults
                /\ faults' = faults + 1

BatchOf(j) == IF j \in Txs THEN batchOf[j] ELSE IF j \in BatchJobs THEN Carries[j] ELSE j

(* The call moves on to its next await. *)
Goto(c, pc) == call' = [call EXCEPT ![c].pc = pc]

(* An exception leaves process(): the job's attempt has failed. *)
Throws(c, pc) == call' = [call EXCEPT ![c].pc = pc, ![c].fate = "retry"]

Init ==
    /\ state = [j \in Jobs |-> IF j \in BatchJobs THEN "waiting" ELSE "absent"]
    /\ made = [j \in Jobs |-> 0]
    /\ limit = [j \in Jobs |-> RetryAttempts]
    /\ owner = [j \in Jobs |-> None]
    /\ stalls = [j \in Jobs |-> 0]
    /\ paused \in BOOLEAN
    /\ call = [c \in Calls |-> Idle]
    /\ tx = [t \in Txs |-> "none"]
    /\ batchOf = [t \in Txs |-> None]
    /\ late = {} /\ final = {}
    /\ faults = 0
    /\ interrupted = {} /\ reorged = {} /\ kept = {}

-----------------------------------------------------------------------------
(* BullMQ: handing out jobs, settling them, and finding the ones whose call went away. *)

(* Mutant: the monitor consumes the publish queue too. *)
TakeToMonitor(c, j) ==
    /\ call[c] = Idle
    /\ state[j] = "waiting"
    /\ state' = [state EXCEPT ![j] = "active"]
    /\ owner' = [owner EXCEPT ![j] = c]
    /\ call' = [call EXCEPT ![c] = [Idle EXCEPT !.job = j, !.pc = "crawl"]]
    /\ UNCHANGED <<made, limit, stalls, paused, chain, faults, history>>

FirstStep(j) == IF j \in Txs THEN "crawl" ELSE IF j \in Batches THEN "send" ELSE "announce"

(* Which slot a call gets makes no difference. *)
FirstIdle == CHOOSE c \in Calls : call[c] = Idle

(* A receipt is 12 seconds old, longer than the call that left it needs to finish. *)
Take(c, j) ==
    /\ call[c] = Idle /\ c = FirstIdle
    /\ state[j] = "waiting"
    /\ j \in Batches => ~paused
    /\ \/ (\A d \in Calls : call[d].tx # j) /\ UNCHANGED faults
       \/ (\E d \in Calls : call[d].tx = j) /\ Mishap("slow")
    /\ state' = [state EXCEPT ![j] = "active"]
    /\ owner' = [owner EXCEPT ![j] = c]
    /\ call' = [call EXCEPT ![c] = [Idle EXCEPT !.job = j,
                                        !.pc = FirstStep(j)]]
    /\ UNCHANGED <<made, limit, stalls, paused, chain, history>>

(* The promise settles: completed, failed, or back to wait for another attempt. *)
Finish(c) ==
    LET j == call[c].job
        again == call[c].fate = "retry" /\ made[j] + 1 < limit[j]
    IN  /\ call[c].pc = "done"
        /\ IF owner[j] = c
           THEN /\ state' = [state EXCEPT ![j] = IF call[c].fate = "ok" THEN "completed"
                                                 ELSE IF again THEN "waiting" ELSE "failed"]
                /\ made' = [made EXCEPT ![j] = @ + 1]
                /\ owner' = [owner EXCEPT ![j] = None]
           ELSE UNCHANGED <<state, made, owner>>
        /\ call' = [call EXCEPT ![c] = Idle]
        /\ UNCHANGED <<limit, stalls, paused, chain, faults, history>>

(* An announcer's call has added its publish job, a publisher's has sent its transaction, a *)
(* monitor's may have put the batch back.                                                   *)
HadEffect(c) == \/ call[c].job \in BatchJobs /\ call[c].pc = "done"
                \/ call[c].tx # None
                \/ call[c].job \in Txs

Die(c) ==
    LET j == call[c].job IN
    /\ call[c] # Idle
    /\ Mishap("crash")
    /\ owner' = [owner EXCEPT ![j] = IF @ = c THEN None ELSE @]
    /\ call' = [call EXCEPT ![c] = Idle]
    /\ interrupted' = interrupted \cup (IF HadEffect(c) THEN {BatchOf(j)} ELSE {})
    /\ UNCHANGED <<state, made, limit, stalls, paused, chain, reorged, kept>>

StallJob(j) ==
    /\ state[j] = "active"
    /\ \/ owner[j] = None /\ UNCHANGED <<faults, interrupted>>
       \/ owner[j] # None /\ Mishap("stall") /\ interrupted' = interrupted \cup {BatchOf(j)}
    /\ state' = [state EXCEPT ![j] = IF stalls[j] < MaxStalledCount
                                     THEN "waiting" ELSE "failed"]
    /\ stalls' = [stalls EXCEPT ![j] = @ + 1]
    /\ owner' = [owner EXCEPT ![j] = None]
    /\ UNCHANGED <<made, limit, paused, call, chain, reorged, kept>>

(* removeOnComplete: 1000 for the announcer's jobs; the modules that register the queue     *)
(* disagree about the default, `true` or `false`, for those the monitor adds.               *)
Evict(b) ==
    /\ state[b] = "completed"
    /\ Mishap("evict")
    /\ state' = [state EXCEPT ![b] = "absent"]
    /\ UNCHANGED <<made, limit, owner, stalls, paused, call, chain, history>>

-----------------------------------------------------------------------------
(* BatchAnnouncementService.process: pin the batch's file, add its publish job. *)

(* BatchAnnouncer.announce: the schema from the cache or the chain, the file to IPFS. *)
Announce(c) ==
    /\ call[c].pc = "announce"
    /\ Goto(c, "enqueue")
    /\ UNCHANGED <<queues, chain, faults, history>>

(* Under an id that is still in use nothing is added. *)
AddPublishJob(b, attempts) ==
    IF state[b] = "absent"
    THEN /\ state' = [state EXCEPT ![b] = "waiting"]
         /\ made' = [made EXCEPT ![b] = 0]
         /\ limit' = [limit EXCEPT ![b] = attempts]
         /\ stalls' = [stalls EXCEPT ![b] = 0]
    ELSE UNCHANGED <<state, made, limit, stalls>>

Enqueue(c) ==
    /\ call[c].pc = "enqueue"
    /\ AddPublishJob(Carries[call[c].job], PublishAttempts)
    /\ Goto(c, "done")
    /\ UNCHANGED <<owner, paused, chain, faults, history>>

(* Mutant: the error is logged and not thrown again. *)
AnnounceFailsQuietly(c) ==
    /\ call[c].pc = "announce"
    /\ Mishap("rpc")
    /\ Goto(c, "done")
    /\ UNCHANGED <<queues, chain, history>>

AnnounceThrows(c) ==
    /\ \/ /\ call[c].pc = "announce" /\ Mishap("rpc")
          /\ UNCHANGED <<state, made, limit, stalls>>
       \/ /\ call[c].pc = "enqueue" /\ Mishap("redis")
          /\ \/ AddPublishJob(Carries[call[c].job], PublishAttempts)
             \/ UNCHANGED <<state, made, limit, stalls>>
    /\ Throws(c, "done")
    /\ UNCHANGED <<owner, paused, chain, history>>

-----------------------------------------------------------------------------
(* PublishingService.process: submit, leave a receipt job, look at the capacity. *)

(* Some hash no transaction has had; which one it is makes no difference. *)
FreshTx == CHOOSE t \in Txs : tx[t] = "none"

(* signAndSend: the node takes the transaction into its pool. *)
Submit(c) ==
    /\ call[c].pc = "send"
    /\ \E t \in Txs : tx[t] = "none"
    /\ tx' = [tx EXCEPT ![FreshTx] = "pool"]
    /\ batchOf' = [batchOf EXCEPT ![FreshTx] = call[c].job]

Send(c) ==
    /\ Submit(c)
    /\ call' = [call EXCEPT ![c].pc = "track", ![c].tx = FreshTx]
    /\ UNCHANGED <<queues, late, final, faults, history>>

(* Mutant: the error is logged and not thrown again. *)
SendFailsQuietly(c) ==
    /\ call[c].pc = "send"
    /\ Mishap("rpc")
    /\ Goto(c, "check")
    /\ UNCHANGED <<queues, chain, history>>

(* One of its requests throws: before the node had the transaction, or only its answer. *)
SendThrows(c) ==
    /\ call[c].pc = "send"
    /\ Mishap("rpc")
    /\ \/ UNCHANGED <<tx, batchOf, interrupted>>
       \/ /\ Submit(c)
          /\ interrupted' = interrupted \cup {call[c].job}
    /\ Throws(c, "check")
    /\ UNCHANGED <<queues, late, final, reorged, kept>>

(* 'Inability to pay some fees': the event is emitted and its handler pauses the queue. *)
CannotPay(c) ==
    /\ call[c].pc = "send"
    /\ Mishap("fees")
    /\ paused' = TRUE
    /\ Throws(c, "check")
    /\ UNCHANGED <<state, made, limit, owner, stalls, chain, history>>

(* Mutant: the receipt job is named after the batch, so a second one is not added. *)
TrackPerBatch(c) ==
    LET t == call[c].tx
        known == {s \in Txs : state[s] # "absent" /\ batchOf[s] = batchOf[t]}
    IN  /\ call[c].pc = "track"
        /\ state' = [state EXCEPT ![t] = IF known = {} THEN "waiting" ELSE @]
        /\ limit' = [limit EXCEPT ![t] = ReceiptAttempts]
        /\ Goto(c, "check")
        /\ UNCHANGED <<made, owner, stalls, paused, chain, faults, history>>

AddReceipt(t) == /\ state' = [state EXCEPT ![t] = "waiting"]
                 /\ limit' = [limit EXCEPT ![t] = ReceiptAttempts]

Track(c) ==
    /\ call[c].pc = "track"
    /\ AddReceipt(call[c].tx)
    /\ Goto(c, "check")
    /\ UNCHANGED <<made, owner, stalls, paused, chain, faults, history>>

TrackThrows(c) ==
    /\ call[c].pc = "track"
    /\ Mishap("redis")
    /\ AddReceipt(call[c].tx) \/ UNCHANGED <<state, limit>>
    /\ interrupted' = interrupted \cup {call[c].job}
    /\ Throws(c, "check")
    /\ UNCHANGED <<made, owner, stalls, paused, chain, reorged, kept>>

(* The finally block runs on both paths, and whatever it throws replaces a success. *)
Check(c) ==
    /\ call[c].pc = "check"
    /\ paused' \in {paused, TRUE}
    /\ Goto(c, "done")
    /\ UNCHANGED <<state, made, limit, owner, stalls, chain, faults, history>>

CheckThrows(c) ==
    /\ call[c].pc = "check"
    /\ Mishap("rpc")
    /\ paused' \in {paused, TRUE}
    /\ interrupted' = interrupted \cup (IF call[c].tx = None THEN {} ELSE {call[c].job})
    /\ Throws(c, "done")
    /\ UNCHANGED <<state, made, limit, owner, stalls, chain, reorged, kept>>

-----------------------------------------------------------------------------
(* TxStatusMonitoringService.process: crawl the window of blocks and act on the outcome. *)

Visible(t) == tx[t] \in InBlock /\ t \notin late

(* Mutant: the last attempt republishes. *)
LastNotFound(c) ==
    LET t == call[c].job IN
    /\ ~Visible(t)
    /\ IF made[t] + 1 < limit[t] THEN Throws(c, "done") ELSE Goto(c, "remove")

(* attemptsMade counts the attempts before this one. *)
NotFound(c) ==
    LET t == call[c].job IN
    /\ ~Visible(t)
    /\ IF made[t] < limit[t] THEN Throws(c, "done") ELSE Goto(c, "remove")

(* An error that is no module error cannot be decoded, is logged and passes for none. *)
Found(c) ==
    LET t == call[c].job IN
    /\ Visible(t)
    /\ \/ tx[t] \in {"stored", "erred"} /\ Goto(c, "done")
       \/ tx[t] = "congested" /\ Goto(c, "remove")
       \/ tx[t] = "refused" /\ call' = [call EXCEPT ![c].pc = "done", ![c].fate = "fatal"]

Crawl(c) ==
    /\ call[c].pc = "crawl"
    /\ NotFound(c) \/ Found(c)
    /\ UNCHANGED <<queues, chain, faults, history>>

CrawlThrows(c) ==
    /\ call[c].pc = "crawl"
    /\ Mishap("rpc")
    /\ Throws(c, "done")
    /\ UNCHANGED <<queues, chain, history>>

(* retryPublishJob, first half: a job some worker has locked stays. *)
Remove(c) ==
    LET b == batchOf[call[c].job] IN
    /\ call[c].pc = "remove"
    /\ IF state[b] = "active" /\ owner[b] # None
       THEN kept' = kept \cup {b} /\ UNCHANGED state
       ELSE state' = [state EXCEPT ![b] = "absent"] /\ UNCHANGED kept
    /\ Goto(c, "readd")
    /\ UNCHANGED <<made, limit, owner, stalls, paused, chain, faults, interrupted, reorged>>

(* Second half: add it again, without the option of attempts. *)
Readd(c) ==
    /\ call[c].pc = "readd"
    /\ AddPublishJob(batchOf[call[c].job], RetryAttempts)
    /\ Goto(c, "done")
    /\ UNCHANGED <<owner, paused, chain, faults, history>>

RetryThrows(c) ==
    /\ call[c].pc \in {"remove", "readd"}
    /\ Mishap("redis")
    /\ \/ UNCHANGED <<state, made, limit, stalls, interrupted>>
       \/ /\ call[c].pc = "readd"
          /\ AddPublishJob(batchOf[call[c].job], RetryAttempts)
          /\ interrupted' = interrupted \cup {batchOf[call[c].job]}
    /\ Throws(c, "done")
    /\ UNCHANGED <<owner, paused, chain, reorged, kept>>

-----------------------------------------------------------------------------
(* The chain. *)

Include(t) ==
    /\ tx[t] = "pool"
    /\ \E how \in InBlock :
        /\ tx' = [tx EXCEPT ![t] = how]
        /\ \/ how = "stored" /\ UNCHANGED <<late, faults>>
           \/ how # "stored" /\ Mishap(how) /\ UNCHANGED late
           \/ how = "stored" /\ Mishap("late") /\ late' = late \cup {t}
    /\ UNCHANGED <<queues, call, batchOf, final, history>>

Drop(t) ==
    /\ tx[t] = "pool"
    /\ Mishap("drop")
    /\ tx' = [tx EXCEPT ![t] = "gone"]
    /\ UNCHANGED <<queues, call, batchOf, late, final, history>>

Finalize(t) ==
    /\ tx[t] \in InBlock /\ t \notin final
    /\ final' = final \cup {t}
    /\ UNCHANGED <<queues, call, tx, batchOf, late, faults, history>>

Reorganise(t) ==
    /\ tx[t] \in InBlock /\ t \notin final
    /\ Mishap("reorg")
    /\ tx' = [tx EXCEPT ![t] = "pool"]
    /\ late' = late \ {t}
    /\ reorged' = reorged \cup {batchOf[t]}
    /\ UNCHANGED <<queues, call, batchOf, final, interrupted, kept>>

-----------------------------------------------------------------------------
CallStep(c) == \/ Announce(c) \/ Enqueue(c)
               \/ Send(c) \/ Track(c) \/ Check(c)
               \/ Crawl(c) \/ Remove(c) \/ Readd(c)
               \/ Finish(c)

CallFails(c) == \/ AnnounceThrows(c) \/ SendThrows(c) \/ CannotPay(c) \/ TrackThrows(c) \/ CheckThrows(c)
                \/ CrawlThrows(c) \/ RetryThrows(c) \/ Die(c)

Next == \/ \E c \in Calls : CallStep(c) \/ CallFails(c)
        \/ \E c \in Calls, j \in Jobs : Take(c, j)
        \/ \E j \in Jobs : StallJob(j)
        \/ \E b \in Batches : Evict(b)
        \/ \E t \in Txs : Include(t) \/ Drop(t) \/ Finalize(t) \/ Reorganise(t)

Spec == Init /\ [][Next]_vars

(* Requests are answered, BullMQ hands out jobs and finds the ownerless ones, and the   *)
(* chain includes what is in the pool.                                                  *)
Fairness ==
    /\ \A c \in Calls : WF_vars(CallStep(c))
    /\ \A j \in Jobs : WF_vars(\E c \in Calls : Take(c, j))
    /\ \A j \in Jobs : WF_vars(owner[j] = None /\ StallJob(j))
    /\ \A t \in Txs : WF_vars(Include(t))

FairSpec == Spec /\ Fairness

-----------------------------------------------------------------------------
(* Properties. *)

(* Every variable has its type, and a call has the kind of job its step is about. *)
TypeOK ==
    /\ state \in [Jobs -> {"absent", "waiting", "active", "completed", "failed"}]
    /\ made \in [Jobs -> Nat] /\ limit \in [Jobs -> Nat] /\ stalls \in [Jobs -> Nat]
    /\ owner \in [Jobs -> Calls \cup {None}]
    /\ paused \in BOOLEAN
    /\ call \in [Calls -> CallRec]
    /\ tx \in [Txs -> InBlock \cup {"none", "pool", "gone"}]
    /\ batchOf \in [Txs -> Batches \cup {None}]
    /\ late \subseteq Txs /\ final \subseteq Txs
    /\ faults \in Nat
    /\ interrupted \subseteq Batches /\ reorged \subseteq Batches /\ kept \subseteq Batches
    /\ \A c \in Calls :
        /\ call[c].pc \in {"announce", "enqueue"} => call[c].job \in BatchJobs
        /\ call[c].pc \in {"send", "track", "check"} => call[c].job \in Batches
        /\ call[c].pc \in {"crawl", "remove", "readd"} => call[c].job \in Txs

(* A batch is not on its way to the chain, or stored there, twice, unless a call of its   *)
(* was cut short after an effect (then the attempt is repeated, effect and all) or the    *)
(* monitor believed a block that was replaced.                                            *)
Alive(b) == {t \in Txs : batchOf[t] = b /\ tx[t] \in {"pool", "stored"}}
PublishedOnce ==
    \A b \in Batches \ (interrupted \cup reorged) : Cardinality(Alive(b)) <= 1

(* The whole of it implements Publication, whatever goes wrong. *)
Implemented == INSTANCE Publication WITH
    ordered <- {b \in Batches : state[b] # "absent" \/ \E t \in Txs : batchOf[t] = b},
    alive <- [b \in Batches |-> Alive(b)],
    disturbed <- interrupted \cup reorged
ImplementsPublication == Implemented!Spec

(* Nothing is sent unobserved: a transaction has its receipt job, or the call that sent    *)
(* it is about to add it, or was cut short.                                                *)
SentIsTracked ==
    \A t \in Txs : tx[t] # "none" =>
        \/ state[t] # "absent"
        \/ \E c \in Calls : call[c].pc = "track" /\ call[c].tx = t
        \/ batchOf[t] \in interrupted

(* A publish job does not end in "completed" without a transaction of its batch. *)
CompletedWasSent ==
    \A b \in Batches : state[b] = "completed" => \E t \in Txs : batchOf[t] = b

(* Every batch gets onto the chain, or leaves a trace that an operator can find: a failed  *)
(* job in one of the queues, the paused queue, or the log line of an error without a module.    *)
(* Reorganisations are excused, the monitor looks at the best block only once, and so is a *)
(* publish job that runs past its transaction's receipt: it cannot be replaced while it is *)
(* locked, and then completes.                                                             *)
Settled(b) ==
    \/ paused \/ state[b] = "failed" \/ b \in reorged \cup kept
    \/ \E j \in BatchJobs : Carries[j] = b /\ state[j] = "failed"
    \/ \E t \in Txs : batchOf[t] = b /\ (state[t] = "failed" \/ tx[t] \in {"stored", "erred"})
EveryBatchIsSettled == \A b \in Batches : []<>Settled(b)

(* tx.status.monitor.service.ts: a transaction that never gets into a block is added to    *)
(* publish again once its attempts are used up.                                            *)
DroppedIsRepublished ==
    \A t \in Txs : tx[t] = "gone" /\ state[t] = "failed" => state[batchOf[t]] # "completed"
=============================================================================
