------------------------------ MODULE Batching ------------------------------
(***************************************************************************)
(* The batching stage of the worker: BatchingProcessorService, the six     *)
(* announcement workers that call it and the Lua scripts addToBatch and    *)
(* lockBatch that Redis runs for it.                                       *)
(*                                                                         *)
(* One announcement type is modelled.  The six types run the same code on  *)
(* keys that carry the queue's name, so they share no batching state.      *)
(*                                                                         *)
(* A Lua script, a MULTI and a BullMQ command are atomic; between two of   *)
(* them the node process awaits, and every other process may move.  A      *)
(* "call" is one asynchronous run of the service: process() for a job, the *)
(* handler of a batch timeout, or setupActiveBatchTimeout at boot.         *)
(***************************************************************************)
EXTENDS Naturals, FiniteSets

CONSTANTS
    Jobs,            \* ids of the announcement jobs; a row is named by its job
    BatchIds,        \* the uuids process() may draw for new batches
    Workers,         \* worker processes sharing Redis
    Started,         \* those that have booted; the others are deployed later
    Calls,           \* slots for asynchronous calls (a bound on concurrent ones)
    None,            \* "no batch", "no job", "no owner"
    BatchMaxCount,   \* BATCH_MAX_COUNT
    Concurrency,     \* the workers' `concurrency: 2`
    MaxStalledCount, \* BullMQ's maxStalledCount
    Faults,          \* which kinds of faults the environment may produce
    MaxFaults        \* bound: how many crashes, stalls and errors in one run

(* "crash": a process dies; "stall": BullMQ gives a running job away; "redis": a command *)
(* throws; "slow": a closer may outlive the batch interval or the lock's six seconds.    *)
ASSUME BatchingAssumption ==
    /\ None \notin Jobs \cup BatchIds \cup Workers \cup Calls
    /\ BatchMaxCount \in Nat \ {0}
    /\ Concurrency \in Nat \ {0}
    /\ MaxStalledCount \in Nat
    /\ MaxFaults \in Nat
    /\ Faults \subseteq {"crash", "stall", "redis", "slow"}
    /\ Started \subseteq Workers

VARIABLES
    openId,      \* batchId in the open batch's metadata key, None if no such key
    rowCount,    \* rowCount in that metadata
    openRows,    \* fields of the open batch's data hash
    lockId,      \* batchId in the locked batch's metadata key
    lockRows,    \* fields of the locked batch's data hash
    lockExpired, \* has lockTimestamp grown older than BATCH_LOCK_EXPIRE_SECONDS?
    out,         \* batch queue: rows of the job whose id is the batch's, {} = no job
    jobState,    \* the announcement queue
    owner,       \* the call whose token holds an active job
    stalls,      \* BullMQ's stalled counter of a job
    up,          \* processes that run
    timers,      \* pending setTimeout handlers, <<process, batch>>
    call,        \* what each call is doing
    faults,      \* faults so far
    minted,      \* history: uuids used as a batch id
    accepted,    \* history: rows addToBatch has stored
    dropped,     \* history: rows a closer held in memory when it died
    orphaned,    \* history: rows deleted by a closer that had not read them
    untimed      \* history: batches whose timeout failed, or fired into a slow closer

openBatch   == <<openId, rowCount, openRows>>
lockedBatch == <<lockId, lockRows, lockExpired>>
queue       == <<jobState, owner, stalls>>
history     == <<minted, accepted, dropped, orphaned, untimed>>
vars == <<openBatch, lockedBatch, out, queue, up, timers, call, faults, history>>

-----------------------------------------------------------------------------
Pcs == {"idle", "setup", "add", "reply", "lock", "emit", "unlock", "finish"}

CallRec == [pc    : Pcs,                    \* the command it awaits
            kind  : {"none", "job", "timer", "boot"},
            host  : Workers \cup {None},    \* the process it runs in
            job   : Jobs \cup {None},       \* the job it processes, if any
            own   : BatchIds \cup {None},   \* the batch it opened or times out
            count : Nat,                    \* addToBatch's reply
            held  : BatchIds \cup {None},   \* the locked batch it has read
            rows  : SUBSET Jobs,            \* ... and that batch's rows
            again : BOOLEAN]                \* lockBatch replied -1

NewCall(pc, kind, w, j, b) ==
    [pc |-> pc, kind |-> kind, host |-> w, job |-> j, own |-> b, count |-> 0,
     held |-> None, rows |-> {}, again |-> FALSE]

Idle == NewCall("idle", "none", None, None, None)

Fault(kind) == /\ kind \in Faults
               /\ faults < MaxFaults
               /\ faults' = faults + 1

(* What is left to do when the service's function returns: BullMQ completes a job's call. *)
Returned(c) == IF call[c].kind = "job"
               THEN NewCall("finish", "job", call[c].host, call[c].job, None)
               ELSE Idle

Closing(c) == call[c].pc \in {"emit", "unlock"}
HeldRows   == UNION {call[c].rows : c \in {d \in Calls : call[d].pc = "emit"}}
OutRows    == UNION {out[b] : b \in BatchIds}

(* A batch's interval has passed since it was opened.  A lock older than the batch has    *)
(* been released by then, unless its closer is slow or the process that took it died.    *)
IntervalPassed(b) ==
    \/ (openId # b \/ \A c \in Calls : ~Closing(c)) /\ UNCHANGED <<faults, untimed>>
    \/ /\ openId = b /\ \E c \in Calls : Closing(c)
       /\ Fault("slow")
       /\ untimed' = untimed \cup {b}

Init ==
    /\ openId = None /\ rowCount = 0 /\ openRows = {}
    /\ lockId = None /\ lockRows = {} /\ lockExpired = FALSE
    /\ out = [b \in BatchIds |-> {}]
    /\ jobState = [j \in Jobs |-> "waiting"]
    /\ owner = [j \in Jobs |-> None]
    /\ stalls = [j \in Jobs |-> 0]
    /\ up = Started
    /\ timers = {}
    /\ call = [c \in Calls |-> Idle]
    /\ faults = 0
    /\ minted = {} /\ accepted = {} /\ dropped = {} /\ orphaned = {}
    /\ untimed = {}

(* Which slot a call gets makes no difference. *)
FirstIdle == CHOOSE c \in Calls : call[c] = Idle

-----------------------------------------------------------------------------
(* process(): a job is picked up, its announcement stored, and the reply acted on. *)

StartJob(c, w, j) ==
    /\ w \in up
    /\ call[c] = Idle /\ c = FirstIdle
    /\ jobState[j] = "waiting"
    /\ Cardinality({d \in Calls : call[d].host = w /\ call[d].kind = "job"}) < Concurrency
    /\ jobState' = [jobState EXCEPT ![j] = "active"]
    /\ owner' = [owner EXCEPT ![j] = c]
    /\ call' = [call EXCEPT ![c] = NewCall("add", "job", w, j, None)]
    /\ UNCHANGED <<openBatch, lockedBatch, out, stalls, up, timers, faults, history>>

(* Mutant: the id is not fresh, only different from the open batch's. *)
AnyId == CHOOSE b \in BatchIds : b # openId

(* randomUUID(): some id no batch has had; which one it is makes no difference. *)
FreshId == CHOOSE b \in BatchIds : b \notin minted

(* addToBatch.lua finds no open batch: the call's own uuid names the new one. *)
OpenNewBatch(c) ==
    /\ openId = None
    /\ BatchIds \ minted # {}
    /\ openId' = FreshId
    /\ minted' = minted \cup {FreshId}
    /\ rowCount' = 1
    /\ call' = [call EXCEPT ![c].pc = "reply", ![c].own = FreshId, ![c].count = 1]

(* Mutant: the new count is not written back. *)
JoinUncounted(c) ==
    /\ openId # None
    /\ call' = [call EXCEPT ![c].pc = "reply", ![c].count = rowCount + 1]
    /\ UNCHANGED <<openId, rowCount, minted>>

(* addToBatch.lua finds one: the count grows even when HSETNX finds the row there. *)
JoinOpenBatch(c) ==
    /\ openId # None
    /\ rowCount' = rowCount + 1
    /\ call' = [call EXCEPT ![c].pc = "reply", ![c].count = rowCount + 1]
    /\ UNCHANGED <<openId, minted>>

AddToBatch(c) ==
    /\ call[c].pc = "add"
    /\ OpenNewBatch(c) \/ JoinOpenBatch(c)
    /\ openRows' = openRows \cup {call[c].job}
    /\ accepted' = accepted \cup {call[c].job}
    /\ UNCHANGED <<lockedBatch, out, queue, up, timers, faults, dropped, orphaned, untimed>>

(* Mutant: every reply starts a timeout, the one to a joiner too. *)
ReplyAlwaysTimes(c) ==
    /\ call[c].pc = "reply"
    /\ timers' = timers \cup {<<call[c].host, call[c].own>>}
    /\ call' = [call EXCEPT ![c] = Returned(c)]
    /\ UNCHANGED <<openBatch, lockedBatch, out, queue, up, faults, history>>

Reply(c) ==
    /\ call[c].pc = "reply"
    /\ \/ /\ call[c].count = 1
          /\ timers' = timers \cup {<<call[c].host, call[c].own>>}
          /\ call' = [call EXCEPT ![c] = Returned(c)]
       \/ /\ call[c].count # 1
          /\ call[c].count >= BatchMaxCount
          /\ call' = [call EXCEPT ![c].pc = "lock", ![c].count = 0]
          /\ UNCHANGED timers
       \/ /\ call[c].count # 1
          /\ call[c].count < BatchMaxCount
          /\ call' = [call EXCEPT ![c] = Returned(c)]
          /\ UNCHANGED timers
    /\ UNCHANGED <<openBatch, lockedBatch, out, queue, up, faults, history>>

(* The job's promise settles.  The token check of BullMQ lets only the owner complete it. *)
Finish(c) ==
    LET j == call[c].job IN
    /\ call[c].pc = "finish"
    /\ \/ /\ owner[j] = c
          /\ jobState' = [jobState EXCEPT ![j] = "completed"]
          /\ owner' = [owner EXCEPT ![j] = None]
       \/ owner[j] # c /\ UNCHANGED <<jobState, owner>>
    /\ call' = [call EXCEPT ![c] = Idle]
    /\ UNCHANGED <<openBatch, lockedBatch, out, stalls, up, timers, faults, history>>

-----------------------------------------------------------------------------
(* closeBatch(): lock a batch, put it on the batch queue, delete the lock. *)

(* Mutant: an expired lock is overwritten instead of finished first. *)
LockOverExpired(c) ==
    /\ call[c].pc = "lock"
    /\ \/ /\ openId = None \/ (lockId # None /\ ~lockExpired)
          /\ call' = [call EXCEPT ![c] = Returned(c)]
          /\ UNCHANGED <<openBatch, lockedBatch>>
       \/ /\ openId # None /\ (lockId = None \/ lockExpired)
          /\ lockId' = openId /\ lockRows' = openRows /\ lockExpired' = FALSE
          /\ openId' = None /\ openRows' = {} /\ rowCount' = 0
          /\ call' = [call EXCEPT ![c].pc = "emit", ![c].held = openId,
                                  ![c].rows = openRows]
    /\ UNCHANGED <<out, queue, up, timers, faults, history>>

(* Mutant: the open batch's rows are copied, not renamed. *)
LockByCopy(c) ==
    /\ call[c].pc = "lock"
    /\ openId # None /\ lockId = None
    /\ lockId' = openId /\ lockRows' = openRows /\ lockExpired' = FALSE
    /\ openId' = None /\ rowCount' = 0
    /\ call' = [call EXCEPT ![c].pc = "emit", ![c].held = openId, ![c].rows = openRows]
    /\ UNCHANGED <<openRows, out, queue, up, timers, faults, history>>

LockBatch(c) ==
    /\ call[c].pc = "lock"
    /\ \/ /\ openId = None \/ (lockId # None /\ ~lockExpired)       \* replies 0 and -2
          /\ call' = [call EXCEPT ![c] = Returned(c)]
          /\ UNCHANGED <<openBatch, lockedBatch>>
       \/ /\ openId # None /\ lockId # None /\ lockExpired          \* reply -1
          /\ call' = [call EXCEPT ![c].pc = "emit", ![c].held = lockId,
                                  ![c].rows = lockRows, ![c].again = TRUE]
          /\ UNCHANGED <<openBatch, lockedBatch>>
       \/ /\ openId # None /\ lockId = None                         \* reply 1
          /\ lockId' = openId /\ lockRows' = openRows /\ lockExpired' = FALSE
          /\ openId' = None /\ openRows' = {} /\ rowCount' = 0
          /\ call' = [call EXCEPT ![c].pc = "emit", ![c].held = openId,
                                  ![c].rows = openRows]
    /\ UNCHANGED <<out, queue, up, timers, faults, history>>

(* Mutant: the batch is queued under the closer's own batch id. *)
EmitAsOwn(c) ==
    LET b == IF call[c].own = None THEN call[c].held ELSE call[c].own IN
    /\ call[c].pc = "emit"
    /\ out' = [out EXCEPT ![b] = IF @ = {} THEN call[c].rows ELSE @]
    /\ call' = [call EXCEPT ![c].pc = "unlock"]
    /\ UNCHANGED <<openBatch, lockedBatch, queue, up, timers, faults, history>>

(* outputQueue.add: a job whose id the queue already knows is not added again. *)
Emit(c) ==
    LET b == call[c].held IN
    /\ call[c].pc = "emit"
    /\ out' = [out EXCEPT ![b] = IF @ = {} THEN call[c].rows ELSE @]
    /\ call' = [call EXCEPT ![c].pc = "unlock"]
    /\ UNCHANGED <<openBatch, lockedBatch, queue, up, timers, faults, history>>

(* The locked keys go, whatever batch they hold by now. *)
DeleteLock(c) ==
    /\ lockId' = None /\ lockRows' = {} /\ lockExpired' = FALSE
    /\ orphaned' = orphaned \cup (IF lockId = call[c].held THEN {} ELSE lockRows)

(* Mutant: the function does not call itself after a leftover batch. *)
NoNextRound(c) == Returned(c)

(* After a leftover batch the function calls itself for the one it was asked to close. *)
NextRound(c) == IF call[c].again
                THEN [call[c] EXCEPT !.pc = "lock", !.held = None, !.rows = {}, !.again = FALSE]
                ELSE Returned(c)

Unlock(c) ==
    /\ call[c].pc = "unlock"
    /\ DeleteLock(c)
    /\ timers' = timers \ {<<call[c].host, call[c].own>>}
    /\ call' = [call EXCEPT ![c] = NextRound(c)]
    /\ UNCHANGED <<openBatch, out, queue, up, faults, minted, accepted, dropped, untimed>>

(* The MULTI's reply is an error, before or after Redis ran it: it is logged and ignored. *)
UnlockFails(c) ==
    /\ call[c].pc = "unlock"
    /\ Fault("redis")
    /\ DeleteLock(c) \/ UNCHANGED <<lockedBatch, orphaned>>
    /\ call' = [call EXCEPT ![c] = NextRound(c)]
    /\ UNCHANGED <<openBatch, out, queue, up, timers, minted, accepted, dropped, untimed>>

-----------------------------------------------------------------------------
(* Timeouts, boot and the passing of time. *)

FireTimer(c, w, b) ==
    /\ <<w, b>> \in timers
    /\ call[c] = Idle /\ c = FirstIdle
    /\ IntervalPassed(b)
    /\ timers' = timers \ {<<w, b>>}
    /\ call' = [call EXCEPT ![c] = NewCall("lock", "timer", w, None, b)]
    /\ UNCHANGED <<openBatch, lockedBatch, out, queue, up, minted, accepted, dropped, orphaned>>

Restart(w, c) ==
    /\ w \notin up
    /\ call[c] = Idle /\ c = FirstIdle
    /\ up' = up \cup {w}
    /\ call' = [call EXCEPT ![c] = NewCall("setup", "boot", w, None, None)]
    /\ UNCHANGED <<openBatch, lockedBatch, out, queue, timers, faults, history>>

(* Mutant: an open batch that is not due yet gets no timeout. *)
SetupOnlyIfDue(c) ==
    /\ call[c].pc = "setup"
    /\ \/ call' = [call EXCEPT ![c] = Idle] /\ UNCHANGED <<faults, untimed>>
       \/ /\ openId # None
          /\ IntervalPassed(openId)
          /\ call' = [call EXCEPT ![c].pc = "lock", ![c].own = openId]
    /\ UNCHANGED <<openBatch, lockedBatch, out, queue, up, timers, minted, accepted, dropped, orphaned>>

(* The open batch of an earlier life is closed at once if it is due, else timed. *)
SetupActiveBatchTimeout(c) ==
    /\ call[c].pc = "setup"
    /\ \/ /\ openId = None
          /\ call' = [call EXCEPT ![c] = Idle]
          /\ UNCHANGED <<timers, faults, untimed>>
       \/ /\ openId # None
          /\ IntervalPassed(openId)
          /\ call' = [call EXCEPT ![c].pc = "lock", ![c].own = openId]
          /\ UNCHANGED timers
       \/ /\ openId # None
          /\ timers' = timers \cup {<<call[c].host, openId>>}
          /\ call' = [call EXCEPT ![c] = Idle]
          /\ UNCHANGED <<faults, untimed>>
    /\ UNCHANGED <<openBatch, lockedBatch, out, queue, up, minted, accepted, dropped, orphaned>>

(* Six seconds pass since the lock was taken. *)
LockExpires ==
    /\ lockId # None /\ ~lockExpired
    /\ IF \E c \in Calls : Closing(c) /\ call[c].held = lockId
       THEN Fault("slow") ELSE UNCHANGED faults
    /\ lockExpired' = TRUE
    /\ UNCHANGED <<openBatch, lockId, lockRows, out, queue, up, timers, call, history>>

-----------------------------------------------------------------------------
(* Failures. *)

RowsHeldBy(S) == UNION {call[c].rows : c \in {d \in S : call[d].pc = "emit"}}

(* A process dies with its calls and its timers; its jobs stay active without an owner. *)
Die(w) ==
    LET gone == {c \in Calls : call[c].host = w} IN
    /\ up' = up \ {w}
    /\ timers' = {t \in timers : t[1] # w}
    /\ call' = [c \in Calls |-> IF c \in gone THEN Idle ELSE call[c]]
    /\ owner' = [j \in Jobs |-> IF owner[j] \in gone THEN None ELSE owner[j]]
    /\ dropped' = dropped \cup RowsHeldBy(gone)
    /\ UNCHANGED <<openBatch, lockedBatch, out, jobState, stalls, minted, accepted, orphaned, untimed>>

Crash(w) == w \in up /\ Fault("crash") /\ Die(w)

(* A command of a call throws, before or after Redis ran it.  What follows depends on who *)
(* awaits the call: BullMQ fails the job for good (no attempts are left), ...             *)
JobThrows(c) ==
    LET j == call[c].job IN
    /\ call[c].kind = "job" /\ call[c].pc # "finish"
    /\ Fault("redis")
    /\ \/ /\ owner[j] = c
          /\ jobState' = [jobState EXCEPT ![j] = "failed"]
          /\ owner' = [owner EXCEPT ![j] = None]
       \/ owner[j] # c /\ UNCHANGED <<jobState, owner>>
    /\ call' = [call EXCEPT ![c] = Idle]
    /\ untimed' = untimed \cup (IF call[c].pc \in {"reply", "lock"} THEN {openId} \ {None} ELSE {})
    /\ dropped' = dropped \cup RowsHeldBy({c})
    /\ UNCHANGED <<openBatch, lockedBatch, out, stalls, up, timers, minted, accepted, orphaned>>

(* ... main.ts prints a boot error and the process lives on, without a timeout, ... *)
BootThrows(c) ==
    /\ call[c].kind = "boot"
    /\ Fault("redis")
    /\ call' = [call EXCEPT ![c] = Idle]
    /\ untimed' = untimed \cup ({openId} \ {None})
    /\ dropped' = dropped \cup RowsHeldBy({c})
    /\ UNCHANGED <<openBatch, lockedBatch, out, queue, up, timers, minted, accepted, orphaned>>

(* ... and nobody awaits a timeout's handler: an unhandled rejection ends the process. *)
TimerThrows(c) ==
    /\ call[c].kind = "timer"
    /\ Fault("redis")
    /\ Die(call[c].host)

(* BullMQ's stalled checker: the job's lock was not renewed. *)
StallJob(j) ==
    /\ up # {}
    /\ jobState[j] = "active"
    /\ (owner[j] = None /\ UNCHANGED faults) \/ (owner[j] # None /\ Fault("stall"))
    /\ jobState' = [jobState EXCEPT ![j] = IF stalls[j] < MaxStalledCount
                                           THEN "waiting" ELSE "failed"]
    /\ stalls' = [stalls EXCEPT ![j] = @ + 1]
    /\ owner' = [owner EXCEPT ![j] = None]
    /\ UNCHANGED <<openBatch, lockedBatch, out, up, timers, call, history>>

-----------------------------------------------------------------------------
CallStep(c) == \/ AddToBatch(c) \/ Reply(c) \/ Finish(c)
               \/ LockBatch(c) \/ Emit(c) \/ Unlock(c)
               \/ SetupActiveBatchTimeout(c)

CallFails(c) == JobThrows(c) \/ BootThrows(c) \/ TimerThrows(c) \/ UnlockFails(c)

Next == \/ \E c \in Calls, w \in Workers, j \in Jobs : StartJob(c, w, j)
        \/ \E c \in Calls : CallStep(c) \/ CallFails(c)
        \/ \E c \in Calls, w \in Workers, b \in BatchIds : FireTimer(c, w, b)
        \/ \E c \in Calls, w \in Workers : Restart(w, c)
        \/ \E w \in Workers : Crash(w)
        \/ \E j \in Jobs : StallJob(j)
        \/ LockExpires

Spec == Init /\ [][Next]_vars

(* Redis answers every command, the event loop runs due timers, BullMQ hands out waiting *)
(* jobs and finds stalled ones, and a supervisor restarts a dead process.                *)
Fairness ==
    /\ \A j \in Jobs : WF_vars(\E c \in Calls, w \in Workers : StartJob(c, w, j))
    /\ \A c \in Calls : WF_vars(CallStep(c))
    /\ WF_vars(\E c \in Calls, w \in Workers, b \in BatchIds : FireTimer(c, w, b))
    /\ \A w \in Workers : WF_vars(\E c \in Calls : Restart(w, c))
    /\ \A j \in Jobs : WF_vars(owner[j] = None /\ StallJob(j))
    /\ WF_vars(LockExpires)

FairSpec == Spec /\ Fairness

-----------------------------------------------------------------------------
(* Properties. *)

(* Every variable has its type; timers name batches and running processes only. *)
TypeOK ==
    /\ openId \in BatchIds \cup {None} /\ rowCount \in Nat /\ openRows \subseteq Jobs
    /\ lockId \in BatchIds \cup {None} /\ lockRows \subseteq Jobs /\ lockExpired \in BOOLEAN
    /\ out \in [BatchIds -> SUBSET Jobs]
    /\ jobState \in [Jobs -> {"waiting", "active", "completed", "failed"}]
    /\ owner \in [Jobs -> Calls \cup {None}]
    /\ stalls \in [Jobs -> Nat]
    /\ up \subseteq Workers
    /\ timers \subseteq Workers \X BatchIds
    /\ call \in [Calls -> CallRec]
    /\ faults \in Nat
    /\ minted \subseteq BatchIds
    /\ accepted \subseteq Jobs /\ dropped \subseteq Jobs /\ orphaned \subseteq Jobs
    /\ untimed \subseteq BatchIds

(* The two keys of a batch live and die together, so neither RENAME of lockBatch.lua can  *)
(* fail; the count in the metadata is never below the number of stored rows, and equals   *)
(* it while no row of the batch was added twice: closing by count is never late.          *)
KeysInStep ==
    /\ (openId = None) <=> (openRows = {})
    /\ (openId = None) <=> (rowCount = 0)
    /\ (lockId = None) <=> (lockRows = {})
    /\ Cardinality(openRows) <= rowCount
    /\ (\A j \in openRows : stalls[j] = 0) => rowCount = Cardinality(openRows)

(* However many closers read the same locked batch (the -1 reply does not take the lock   *)
(* away from anybody), the batch queue's deduplication by batch id loses nothing: all of  *)
(* them hold the same rows, and what the queue has under that id is exactly those rows.   *)
DedupIsSafe ==
    \A c \in Calls : Closing(c) =>
        /\ call[c].rows # {}
        /\ out[call[c].held] \in {{}, call[c].rows}
        /\ call[c].pc = "unlock" => out[call[c].held] = call[c].rows
        /\ lockId = call[c].held => lockRows = call[c].rows
        /\ openId # call[c].held

(* A row that addToBatch stored is in Redis (open, locked or on the batch queue) until it *)
(* is published on, except after two independent mishaps: its lock was deleted by a       *)
(* closer of another batch, and then, or before, the one process that had read the row    *)
(* died before it put it on the queue.                                                    *)
LossNeedsTwoMishaps ==
    \A j \in accepted \ (openRows \cup lockRows \cup OutRows) :
        j \in orphaned /\ j \in HeldRows \cup dropped

(* No announcement is put into two batches, unless BullMQ gave its job to a second call.  *)
NoDoubleBatching ==
    \A j \in Jobs : \A a, b \in BatchIds :
        stalls[j] = 0 /\ j \in out[a] /\ j \in out[b] => a = b

(* A batch stays locked although nobody is closing it: its closer died or gave up. *)
LockIsLeftBehind == lockId # None /\ \A c \in Calls : ~(Closing(c) /\ call[c].held = lockId)

(* With every process up and no leftover lock, an open batch is watched: somebody is about *)
(* to time it, has timed it, or is about to lock it and will find no other batch locked.   *)
OpenBatchIsWatched ==
    openId \notin untimed \cup {None} /\ up = Workers /\ ~LockIsLeftBehind =>
        \/ \E w \in Workers : <<w, openId>> \in timers
        \/ \E c \in Calls : call[c].pc = "reply" /\ call[c].own = openId
        \/ \E c \in Calls : call[c].pc = "lock" /\ lockId = None
        \/ \E c \in Calls : call[c].pc = "setup" \/ call[c].again

(* Every batch on the batch queue is made once, from stored rows: the stage implements *)
(* BatchDelivery when a stalled job counts as handed out again.                        *)
Delivery == INSTANCE BatchDelivery WITH stored <- accepted, delivered <- out,
                                        repeated <- {j \in Jobs : stalls[j] > 0}
ImplementsDelivery == Delivery!Spec

(* BATCH_INTERVAL_SECONDS: whatever is stored gets published, unless some closer leaves its *)
(* lock behind, the timeout of the batch failed or fired into a slow closer, or the row is  *)
(* lost as above: crashes at any other point, restarts and repeated jobs are made good.      *)
Excused(j) == LockIsLeftBehind \/ (j \in openRows /\ openId \in untimed) \/ j \in orphaned
StoredIsEmitted == \A j \in Jobs : (j \in accepted) ~> (j \in OutRows \/ Excused(j))

(* As documented, without the excuse: violated when closers may be slow or die. *)
EveryRowIsEmitted == \A j \in Jobs : (j \in accepted) ~> (j \in OutRows)
=============================================================================
