------------------------------ MODULE Capacity ------------------------------
(***************************************************************************)
(* How the worker watches the provider's capacity: checkCapacity of        *)
(* PublishingService, its two event handlers and its timeouts, the monitor's*)
(* setEpochCapacity, and the chain's epochs.                               *)
(*                                                                         *)
(* A call is one asynchronous run: a publish job with the check in its     *)
(* finally block, a check started by a timeout or at boot, the handlers of *)
(* an event nobody awaits, or the monitor's update of the used capacity.   *)
(***************************************************************************)
EXTENDS Naturals, FiniteSets

CONSTANTS
    Workers,      \* worker processes
    Calls,        \* slots for asynchronous calls
    None,
    Total,        \* capacity the provider has at the start of every epoch
    Limit,        \* CAPACITY_LIMIT, as an amount
    Listeners,    \* PublishingService instances per process that hear an event
    MaxEpoch,     \* bound: the last epoch
    MaxJobs,      \* bound: publish jobs in one run
    Faults,       \* "crash", "rpc": which mishaps may happen
    MaxFaults     \* bound: how many of them

ASSUME CapacityAssumption ==
    /\ None \notin Workers
    /\ {Total, Limit, MaxEpoch, MaxJobs, MaxFaults} \subseteq Nat
    /\ Listeners \in Nat \ {0}
    /\ Faults \subseteq {"crash", "rpc"}

Epochs == 0 .. MaxEpoch

VARIABLES
    epoch,      \* chain: capacity.currentEpoch
    remaining,  \* chain: remainingCapacity of the provider
    pool,       \* chain: transactions submitted and not yet in a block
    spent,      \* history: capacity withdrawn for this app, by epoch
    unseen,     \* transactions in a block the monitor has not come upon, by epoch
    used,       \* Redis: epochCapacity:<epoch>
    paused,     \* Redis: is the publish queue paused?
    up,         \* processes that run
    flag,       \* capacityExhausted of a process
    registry,   \* CAPACITY_EPOCH_TIMEOUT_NAME in its SchedulerRegistry
    stray,      \* processes with a pending timeout the registry does not know
    call,       \* what each call is doing
    jobs,       \* publish jobs so far
    faults,     \* mishaps so far
    botched     \* history: processes whose exhausted-handler threw

chain  == <<epoch, remaining, pool, spent, unseen>>
memory == <<flag, registry, stray>>
vars == <<chain, used, paused, up, memory, call, jobs, faults, botched>>

-----------------------------------------------------------------------------
CallRec == [pc   : {"idle", "submit", "ledger", "epoch", "used", "pause", "plan", "get", "set"},
            kind : {"none", "job", "timer", "boot", "event", "monitor"},
            host : Workers \cup {None},
            left : Nat,           \* remainingCapacity, as read
            at   : Epochs,        \* the epoch it read, or its transaction's
            seen : Nat,           \* the used capacity it read
            todo : 0 .. Listeners]  \* handlers that have not set their timeout yet

NewCall(pc, kind, w) == [pc |-> pc, kind |-> kind, host |-> w, left |-> 0, at |-> 0,
                         seen |-> 0, todo |-> Listeners]

Idle == NewCall("idle", "none", None)

Mishap(kind) == /\ kind \in Faults
                /\ faults < MaxFaults
                /\ faults' = faults + 1

Init ==
    /\ epoch = 0 /\ remaining \in 0 .. Total /\ pool = 0
    /\ spent = [e \in Epochs |-> 0] /\ unseen = [e \in Epochs |-> 0]
    /\ used = [e \in Epochs |-> 0]
    /\ paused = FALSE
    /\ up = {}
    /\ flag = [w \in Workers |-> FALSE]
    /\ registry = [w \in Workers |-> "none"]
    /\ stray = {}
    /\ call = [c \in Calls |-> Idle]
    /\ jobs = 0 /\ faults = 0 /\ botched = {}

-----------------------------------------------------------------------------
(* A publish job: its transaction is submitted, then the finally block checks. *)

TakeJob(c, w) ==
    /\ w \in up /\ call[c] = Idle
    /\ ~paused /\ jobs < MaxJobs
    /\ jobs' = jobs + 1
    /\ call' = [call EXCEPT ![c] = NewCall("submit", "job", w)]
    /\ UNCHANGED <<chain, used, paused, up, memory, faults, botched>>

Submit(c) ==
    /\ call[c].pc = "submit"
    /\ remaining > 0
    /\ pool' = pool + 1
    /\ call' = [call EXCEPT ![c].pc = "ledger"]
    /\ UNCHANGED <<epoch, remaining, spent, unseen, used, paused, up, memory, jobs, faults, botched>>

(* 'Inability to pay some fees': the handlers run beside the check, awaited by nobody. *)
CannotPay(c, d) ==
    /\ call[c].pc = "submit"
    /\ remaining = 0
    /\ call[d] = Idle
    /\ flag' = [flag EXCEPT ![call[c].host] = TRUE]
    /\ call' = [call EXCEPT ![c].pc = "ledger",
                            ![d] = NewCall("pause", "event", call[c].host)]
    /\ UNCHANGED <<chain, used, paused, up, registry, stray, jobs, faults, botched>>

-----------------------------------------------------------------------------
(* checkCapacity.  capacityInfo asks the chain for the ledger first, for the epoch last. *)

ReadLedger(c) ==
    /\ call[c].pc = "ledger"
    /\ call' = [call EXCEPT ![c].pc = "epoch", ![c].left = remaining]
    /\ UNCHANGED <<chain, used, paused, up, memory, jobs, faults, botched>>

ReadEpoch(c) ==
    /\ call[c].pc = "epoch"
    /\ call' = [call EXCEPT ![c].pc = "used", ![c].at = epoch]
    /\ UNCHANGED <<chain, used, paused, up, memory, jobs, faults, botched>>

OutOfCapacity(c) == call[c].left = 0 \/ used[call[c].at] >= Limit

(* capacity.exhausted: every instance notes it and goes on to pause the queue. *)
Exhausted(c) ==
    /\ OutOfCapacity(c)
    /\ flag' = [flag EXCEPT ![call[c].host] = TRUE]
    /\ call' = [call EXCEPT ![c].pc = "pause"]
    /\ UNCHANGED <<registry, stray>>

(* Mutant: the timeout is deleted and the note is not. *)
RefilledKeepsFlag(c) ==
    /\ ~OutOfCapacity(c)
    /\ registry' = [registry EXCEPT ![call[c].host] = "none"]
    /\ call' = [call EXCEPT ![c] = Idle]
    /\ stray' = stray \ {call[c].host}
    /\ UNCHANGED flag

(* capacity.refilled: the note goes, and with it the timeout the registry knows. *)
Refilled(c) ==
    /\ ~OutOfCapacity(c)
    /\ flag' = [flag EXCEPT ![call[c].host] = FALSE]
    /\ registry' = [registry EXCEPT ![call[c].host] = "none"]
    /\ call' = [call EXCEPT ![c] = Idle]
    /\ UNCHANGED stray

Decide(c) ==
    /\ call[c].pc = "used"
    /\ Exhausted(c) \/ Refilled(c)
    /\ UNCHANGED <<chain, used, paused, up, jobs, faults, botched>>

Pause(c) ==
    /\ call[c].pc = "pause"
    /\ paused' = TRUE
    /\ call' = [call EXCEPT ![c].pc = "plan"]
    /\ UNCHANGED <<chain, used, up, memory, jobs, faults, botched>>

(* Mutant: no timeout is started under a name that is taken. *)
ArmedOnce(w) == /\ registry' = [registry EXCEPT ![w] = IF @ = "none" THEN "pending" ELSE @]
                /\ UNCHANGED stray

(* The arguments of addTimeout are evaluated first: when the name is taken (by a pending   *)
(* timeout or by one that has fired) it throws, and the new timeout stays, unregistered.   *)
Armed(w) == IF registry[w] = "none"
            THEN registry' = [registry EXCEPT ![w] = "pending"] /\ UNCHANGED stray
            ELSE stray' = stray \cup {w} /\ UNCHANGED registry

Plan(c) ==
    /\ call[c].pc = "plan"
    /\ Armed(call[c].host)
    /\ call' = [call EXCEPT ![c] = IF call[c].todo = 1 THEN Idle
                                   ELSE [call[c] EXCEPT !.todo = @ - 1]]
    /\ UNCHANGED <<chain, used, paused, up, flag, jobs, faults, botched>>

-----------------------------------------------------------------------------
(* Timeouts and processes. *)

(* The name stays in the registry after its timeout has fired. *)
FireRegistered(c, w) ==
    /\ registry[w] = "pending" /\ call[c] = Idle
    /\ registry' = [registry EXCEPT ![w] = "fired"]
    /\ call' = [call EXCEPT ![c] = NewCall("ledger", "timer", w)]
    /\ UNCHANGED <<chain, used, paused, up, flag, stray, jobs, faults, botched>>

(* Perhaps it was the last one. *)
FireStray(c, w) ==
    /\ w \in stray /\ call[c] = Idle
    /\ stray' \in {stray, stray \ {w}}
    /\ call' = [call EXCEPT ![c] = NewCall("ledger", "timer", w)]
    /\ UNCHANGED <<chain, used, paused, up, flag, registry, jobs, faults, botched>>

Boot(c, w) ==
    /\ w \notin up /\ call[c] = Idle
    /\ up' = up \cup {w}
    /\ call' = [call EXCEPT ![c] = NewCall("ledger", "boot", w)]
    /\ UNCHANGED <<chain, used, paused, memory, jobs, faults, botched>>

(* Mutant: its timeout is still there. *)
DieKeepsTimeout(w) ==
    /\ up' = up \ {w}
    /\ call' = [c \in Calls |-> IF call[c].host = w THEN Idle ELSE call[c]]
    /\ flag' = [flag EXCEPT ![w] = FALSE]
    /\ stray' = stray \ {w}
    /\ botched' = botched \ {w}
    /\ UNCHANGED <<chain, used, paused, jobs, registry>>

(* A process dies: its calls, its timeouts and its note are gone. *)
Die(w) ==
    /\ up' = up \ {w}
    /\ call' = [c \in Calls |-> IF call[c].host = w THEN Idle ELSE call[c]]
    /\ flag' = [flag EXCEPT ![w] = FALSE]
    /\ registry' = [registry EXCEPT ![w] = "none"]
    /\ stray' = stray \ {w}
    /\ botched' = botched \ {w}
    /\ UNCHANGED <<chain, used, paused, jobs>>

Crash(w) == w \in up /\ Mishap("crash") /\ Die(w)

(* A request of a check throws.  Under a job or the boot somebody catches it; under a     *)
(* timeout, or in the handlers of the event that is not awaited, it ends the process.     *)
Throws(c) ==
    /\ call[c].pc \in {"ledger", "epoch", "used", "pause", "plan"}
    /\ Mishap("rpc")
    /\ \/ /\ call[c].kind \in {"job", "boot"}
          /\ call' = [call EXCEPT ![c] = Idle]
          /\ \/ /\ call[c].pc \in {"pause", "plan"}
                /\ botched' = botched \cup {call[c].host}
                /\ Armed(call[c].host) \/ UNCHANGED <<registry, stray>>  \* the other listener
                /\ paused' \in {paused, TRUE}
             \/ /\ call[c].pc \notin {"pause", "plan"}
                /\ UNCHANGED <<registry, stray, paused, botched>>
          /\ UNCHANGED <<chain, used, up, flag, jobs>>
       \/ call[c].kind \in {"timer", "event"} /\ Die(call[c].host)

-----------------------------------------------------------------------------
(* setEpochCapacity of the monitor: GET, add what the transaction withdrew, SETEX. *)

FindTx(c, w, e) ==
    /\ w \in up /\ call[c] = Idle
    /\ unseen[e] > 0
    /\ unseen' = [unseen EXCEPT ![e] = @ - 1]
    /\ call' = [call EXCEPT ![c] = [NewCall("get", "monitor", w) EXCEPT !.at = e]]
    /\ UNCHANGED <<epoch, remaining, pool, spent, used, paused, up, memory, jobs, faults, botched>>

(* crawlBlockListForTx spells the field of its result capacityWithDrawn, its caller reads *)
(* capacityWithdrawn ?? 0n.                                                              *)
TxResult(e) == [found |-> TRUE, capacityEpoch |-> e, capacityWithDrawn |-> 1]
Withdrawn(r) == IF "capacityWithdrawn" \in DOMAIN r THEN r.capacityWithdrawn ELSE 0

GetUsed(c) ==
    /\ call[c].pc = "get"
    /\ call' = [call EXCEPT ![c].pc = "set", ![c].seen = used[call[c].at]]
    /\ UNCHANGED <<chain, used, paused, up, memory, jobs, faults, botched>>

SetUsed(c) ==
    /\ call[c].pc = "set"
    /\ used' = [used EXCEPT ![call[c].at] = call[c].seen + Withdrawn(TxResult(call[c].at))]
    /\ call' = [call EXCEPT ![c] = Idle]
    /\ UNCHANGED <<chain, paused, up, memory, jobs, faults, botched>>

(* Its errors are logged and the receipt is settled without the update. *)
SetFails(c) ==
    /\ call[c].pc \in {"get", "set"}
    /\ Mishap("rpc")
    /\ call' = [call EXCEPT ![c] = Idle]
    /\ UNCHANGED <<chain, used, paused, up, memory, jobs, botched>>

-----------------------------------------------------------------------------
(* The chain: blocks, the provider's other apps, and epochs. *)

Include ==
    /\ pool > 0
    /\ pool' = pool - 1
    /\ \/ /\ remaining > 0
          /\ remaining' = remaining - 1
          /\ spent' = [spent EXCEPT ![epoch] = @ + 1]
          /\ unseen' = [unseen EXCEPT ![epoch] = @ + 1]
       \/ remaining = 0 /\ UNCHANGED <<remaining, spent, unseen>>
    /\ UNCHANGED <<epoch, used, paused, up, memory, call, jobs, faults, botched>>

OthersSpend ==
    /\ remaining > 0
    /\ remaining' = 0
    /\ UNCHANGED <<epoch, pool, spent, unseen, used, paused, up, memory, call, jobs, faults, botched>>

NextEpoch ==
    /\ epoch < MaxEpoch
    /\ epoch' = epoch + 1
    /\ remaining' = Total
    /\ UNCHANGED <<pool, spent, unseen, used, paused, up, memory, call, jobs, faults, botched>>

-----------------------------------------------------------------------------
CallStep(c) == \/ Submit(c) \/ ReadLedger(c) \/ ReadEpoch(c) \/ Decide(c)
               \/ Pause(c) \/ Plan(c) \/ GetUsed(c) \/ SetUsed(c)

Next == \/ \E c \in Calls : CallStep(c) \/ Throws(c) \/ SetFails(c)
        \/ \E c, d \in Calls : CannotPay(c, d)
        \/ \E c \in Calls, w \in Workers :
            TakeJob(c, w) \/ FireRegistered(c, w) \/ FireStray(c, w) \/ Boot(c, w)
        \/ \E c \in Calls, w \in Workers, e \in Epochs : FindTx(c, w, e)
        \/ \E w \in Workers : Crash(w)
        \/ Include \/ OthersSpend \/ NextEpoch

Spec == Init /\ [][Next]_vars

(* Requests are answered, timeouts fire, and the chain goes on. *)
Fairness ==
    /\ \A c \in Calls : WF_vars(CallStep(c) \/ \E d \in Calls : CannotPay(c, d))
    /\ \A w \in Workers : WF_vars(\E c \in Calls : FireRegistered(c, w))
    /\ \A w \in Workers : WF_vars(\E c \in Calls : FireStray(c, w))
    /\ WF_vars(NextEpoch)

FairSpec == Spec /\ Fairness

-----------------------------------------------------------------------------
(* Properties. *)

(* Every variable has its type, and only running processes have notes and timeouts. *)
TypeOK ==
    /\ epoch \in Epochs /\ remaining \in 0 .. Total /\ pool \in Nat
    /\ spent \in [Epochs -> Nat] /\ unseen \in [Epochs -> Nat] /\ used \in [Epochs -> Nat]
    /\ paused \in BOOLEAN
    /\ up \subseteq Workers /\ stray \subseteq up /\ botched \subseteq up
    /\ flag \in [Workers -> BOOLEAN]
    /\ registry \in [Workers -> {"none", "pending", "fired"}]
    /\ call \in [Calls -> CallRec]
    /\ jobs \in 0 .. MaxJobs /\ faults \in 0 .. MaxFaults
    /\ \A w \in Workers \ up : ~flag[w] /\ registry[w] = "none"

(* A process that has noted the exhaustion will look again: it has a timeout pending, or   *)
(* a check under way that ends in one.  The registry alone does not guarantee that: its    *)
(* name may belong to a timeout that has fired.                                            *)
RecheckIsPending ==
    \A w \in up \ botched : flag[w] =>
        \/ registry[w] = "pending" \/ w \in stray
        \/ \E c \in Calls : /\ call[c].host = w
                            /\ \/ call[c].pc \in {"pause", "plan"}
                               \/ call[c].kind = "timer"

(* No process keeps the note for ever while the provider has capacity again. *)
ExhaustionIsNotStale ==
    \A w \in Workers : []<>(~flag[w] \/ remaining = 0 \/ w \in botched)

(* ENVIRONMENT.md: CAPACITY_LIMIT is the maximum amount of capacity the app uses per epoch: *)
(* once the monitor has come upon that much spending, a check finds the capacity used up.   *)
Noted(e) == \A c \in Calls : ~(call[c].pc \in {"get", "set"} /\ call[c].at = e)
LimitIsKept ==
    \A c \in Calls :
        LET e == call[c].at IN
        call[c].pc = "used" /\ Noted(e) /\ spent[e] >= Limit + unseen[e] => OutOfCapacity(c)
=============================================================================
