------------------------------ MODULE Shutdown ------------------------------
(***************************************************************************)
(* BaseConsumer: a consumer keeps the ids of the jobs it works on, so that *)
(* onModuleDestroy can wait for them.  BullMQ's close(false) waits for the *)
(* running process() calls; what is left are the handlers of the completed *)
(* event, which are asynchronous (AssetProcessorService's asks Redis).     *)
(* A call whose lock was lost, or that put its job off                     *)
(* (RequestProcessorService), ends with no event: its id stays.            *)
(***************************************************************************)
EXTENDS Naturals

CONSTANTS
    Ids,          \* job ids; a completed job's id can be used again
    Slots,        \* the worker's `concurrency`
    None,
    MaxPolls,     \* 6000 ms in steps of 300
    MaxHandlers   \* bound: unfinished completed handlers of one id

ASSUME ShutdownAssumption == None \notin Ids /\ {MaxPolls, MaxHandlers} \subseteq Nat

VARIABLES
    waiting,     \* the queue: ids of jobs to be taken
    call,        \* the job each slot's process() call is about
    locks,       \* slots whose lock on their job is good
    handlers,    \* how many completed handlers of an id are running
    actives,     \* BaseConsumer.actives
    phase,       \* of onModuleDestroy
    polls,       \* its waits so far
    lost,        \* history: ids whose lock was lost since they were last untracked
    delayed,     \* history: ids that were put off since they were last untracked
    overlapped   \* history: ids taken again while an earlier job's handler ran

jobs == <<waiting, call, locks, handlers, actives>>
history == <<lost, delayed, overlapped>>
vars == <<jobs, phase, polls, history>>

Init ==
    /\ waiting = Ids
    /\ call = [s \in Slots |-> None]
    /\ locks = {} /\ actives = {}
    /\ lost = {} /\ delayed = {} /\ overlapped = {}
    /\ handlers = [i \in Ids |-> 0]
    /\ phase = "running" /\ polls = 0

Busy == {s \in Slots : call[s] # None}

(* An id whose job is gone is added anew, as when a file is uploaded again. *)
Add(i) ==
    /\ i \notin waiting /\ \A s \in locks : call[s] # i
    /\ handlers[i] < MaxHandlers
    /\ waiting' = waiting \cup {i}
    /\ UNCHANGED <<call, locks, handlers, actives, phase, polls, history>>

(* onActive. *)
Take(s, i) ==
    /\ phase = "running"
    /\ call[s] = None /\ i \in waiting
    /\ waiting' = waiting \ {i}
    /\ call' = [call EXCEPT ![s] = i]
    /\ locks' = locks \cup {s}
    /\ actives' = actives \cup {i}
    /\ overlapped' = overlapped \cup (IF handlers[i] > 0 THEN {i} ELSE {})
    /\ UNCHANGED <<handlers, phase, polls, lost, delayed>>

(* The call goes on, but its job is not its own any more: sooner or later it is waiting. *)
GivesUpJob(s) ==
    /\ s \in locks
    /\ locks' = locks \ {s}
    /\ waiting' \in {waiting, waiting \cup {call[s]}}
    /\ UNCHANGED <<call, handlers, actives, phase, polls, overlapped>>

(* The lock is not renewed in time: the job is stalled, and handed out again or failed. *)
LoseLock(s) ==
    /\ GivesUpJob(s)
    /\ lost' = lost \cup {call[s]}
    /\ UNCHANGED delayed

(* delayJobAndIncrementAttempts: moveToDelayed gives back the lock.  What follows, a failing *)
(* updateData or the DelayedError, is not an outcome of the job to BullMQ.                  *)
MoveToDelayed(s) ==
    /\ GivesUpJob(s)
    /\ delayed' = delayed \cup {call[s]}
    /\ UNCHANGED lost

Ends(s) == call' = [call EXCEPT ![s] = None] /\ locks' = locks \ {s}

UnTrack(i) == /\ actives' = actives \ {i}
              /\ lost' = lost \ {i} /\ delayed' = delayed \ {i}

(* Mutant: the handler calls super.onCompleted first. *)
UnTracked(s) ==
    /\ s \in locks
    /\ Ends(s)
    /\ handlers' = [handlers EXCEPT ![call[s]] = @ + 1]
    /\ UnTrack(call[s])
    /\ UNCHANGED <<waiting, phase, polls, overlapped>>

(* The completed event: the handler runs, and lets go of the id at its end. *)
Completed(s) ==
    /\ s \in locks
    /\ Ends(s)
    /\ handlers' = [handlers EXCEPT ![call[s]] = @ + 1]
    /\ UNCHANGED <<waiting, actives, phase, polls, history>>

OnCompletedEnds(i) ==
    /\ handlers[i] > 0
    /\ handlers' = [handlers EXCEPT ![i] = @ - 1]
    /\ UnTrack(i)
    /\ UNCHANGED <<waiting, call, locks, phase, polls, overlapped>>

(* Mutant: a consumer overrides onFailed and does not call it. *)
FailedTracked(s) ==
    /\ s \in locks
    /\ Ends(s)
    /\ UNCHANGED <<waiting, handlers, actives, phase, polls, history>>

(* onFailed; the job may have attempts left. *)
Failed(s) ==
    /\ s \in locks
    /\ Ends(s)
    /\ waiting' \in {waiting, waiting \cup {call[s]}}
    /\ UnTrack(call[s])
    /\ UNCHANGED <<handlers, phase, polls, overlapped>>

(* Without its lock the job cannot be moved: an error event, which has no handler.  And for *)
(* a DelayedError there is no event at all.                                                *)
Unsettled(s) ==
    /\ s \in Busy \ locks
    /\ Ends(s)
    /\ UNCHANGED <<waiting, handlers, actives, phase, polls, history>>

(* onModuleDestroy: worker.close(false), then the loop. *)
Destroy ==
    /\ phase = "running"
    /\ phase' = "closing"
    /\ UNCHANGED <<jobs, polls, history>>

WorkerClosed ==
    /\ phase = "closing" /\ Busy = {}
    /\ phase' = "polling"
    /\ UNCHANGED <<jobs, polls, history>>

(* Mutant: the time waited is not counted. *)
PollUncounted ==
    /\ phase = "polling"
    /\ phase' = IF actives # {} THEN "polling" ELSE "closed"
    /\ UNCHANGED <<jobs, polls, history>>

(* Mutant: one wait too many. *)
PollPast ==
    /\ phase = "polling"
    /\ IF actives # {} /\ polls <= MaxPolls
       THEN polls' = polls + 1 /\ UNCHANGED phase
       ELSE phase' = "closed" /\ UNCHANGED polls
    /\ UNCHANGED <<jobs, history>>

Poll ==
    /\ phase = "polling"
    /\ IF actives # {} /\ polls < MaxPolls
       THEN polls' = polls + 1 /\ UNCHANGED phase
       ELSE phase' = "closed" /\ UNCHANGED polls
    /\ UNCHANGED <<jobs, history>>

CallEnds(s) == Completed(s) \/ Failed(s) \/ Unsettled(s)

Next == \/ \E i \in Ids : Add(i) \/ OnCompletedEnds(i) \/ \E s \in Slots : Take(s, i)
        \/ \E s \in Slots : LoseLock(s) \/ MoveToDelayed(s) \/ CallEnds(s)
        \/ Destroy \/ WorkerClosed \/ Poll

Spec == Init /\ [][Next]_vars

(* Calls end and timers fire; the handlers' requests need not be answered. *)
FairSpec == /\ Spec
            /\ \A s \in Slots : WF_vars(CallEnds(s))
            /\ WF_vars(WorkerClosed) /\ WF_vars(Poll)

-----------------------------------------------------------------------------
(* Properties. *)

(* Each variable has its type. *)
TypeOK ==
    /\ waiting \subseteq Ids /\ actives \subseteq Ids
    /\ lost \subseteq Ids /\ delayed \subseteq Ids /\ overlapped \subseteq Ids
    /\ call \in [Slots -> Ids \cup {None}] /\ locks \subseteq Busy
    /\ handlers \in [Ids -> Nat] /\ polls \in 0 .. MaxPolls
    /\ phase \in {"running", "closing", "polling", "closed"}

(* "so we are able to track the executing jobs" (BaseConsumer.ts): the consumer is not    *)
(* destroyed under a completed handler, unless that ran for six seconds, or its id was    *)
(* untracked by the handler of an earlier job with the same id.                           *)
HandlersAreAwaited ==
    phase = "closed" =>
        \A i \in Ids : handlers[i] > 0 => polls = MaxPolls \/ i \in overlapped

(* A tracked id has a call that holds its job, or a completed handler.  Else the shutdown    *)
(* waits for it in vain, and that it does only after one of the two ends that no event       *)
(* reports: the lock was lost, or the request was put off until its assets are there.        *)
TrackedIsAlive ==
    \A i \in actives :
        \/ handlers[i] > 0
        \/ \E s \in locks : call[s] = i
        \/ i \in lost \cup delayed

(* However the jobs and their handlers go on, the shutdown comes to its end. *)
ShutdownEnds == (phase = "closing") ~> (phase = "closed")
=============================================================================
