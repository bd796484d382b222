--------------------------- MODULE Capacity_proofs ---------------------------
(* Theorems about Capacity, for any workers, calls, limits, listeners, epochs and mishaps. *)
EXTENDS Capacity, TLAPS

USE CapacityAssumption DEF Epochs, Mishap

-----------------------------------------------------------------------------
(* The inductive invariant. *)

(* A call runs in a process that is up; what it does tells how it began. *)
CallShape(c) ==
    /\ call[c].pc = "idle" => call[c] = Idle
    /\ call[c].pc # "idle" => call[c].host \in up /\ call[c].todo >= 1
    /\ call[c].pc \in {"get", "set"} => call[c].kind = "monitor"

(* A call that ends in a timeout, or in the end of its process. *)
Rechecks(c, w) == /\ call[c].host = w
                  /\ call[c].pc \in {"pause", "plan"} \/ call[c].kind = "timer"

Pending(w) == registry[w] = "pending" \/ w \in stray \/ \E c \in Calls : Rechecks(c, w)

Watched(w) == w \in up \ botched /\ flag[w] => Pending(w)

Shape == \A c \in Calls : CallShape(c)

IInv == TypeOK /\ Shape /\ \A w \in Workers : Watched(w)

-----------------------------------------------------------------------------
(* What becomes of a call. *)

Steps == {"idle", "submit", "ledger", "epoch", "used", "pause", "plan", "get", "set"}
Kinds == {"none", "job", "timer", "boot", "event", "monitor"}

(* The types, value by value. *)
Typed == \A c \in Calls : /\ call[c] \in CallRec /\ call[c].pc \in Steps /\ call[c].kind \in Kinds
                          /\ call[c].host \in Workers \cup {None}
                          /\ call[c].at \in Epochs /\ call[c].seen \in Nat
                          /\ call[c].todo \in 0 .. Listeners

(* They follow from the type of the calls. *)
LEMMA TypedCalls == TypeOK => Typed
  <1>1. \A r \in CallRec : /\ r.pc \in Steps /\ r.kind \in Kinds /\ r.host \in Workers \cup {None}
                           /\ r.at \in Epochs /\ r.seen \in Nat /\ r.todo \in 0 .. Listeners
    BY DEF CallRec, Steps, Kinds
  <1> QED BY <1>1 DEF TypeOK, Typed

Others(c) == /\ call' \in [Calls -> CallRec]
             /\ \A d \in Calls : d # c => call'[d] = call[d]

(* It goes on, it begins, it ends, or its process does. *)
Goes(c, p) == /\ Others(c) /\ call'[c].pc = p /\ call'[c].kind = call[c].kind
              /\ call'[c].host = call[c].host /\ call'[c].todo = call[c].todo
Begins(c, p, k, w) == /\ Others(c) /\ call'[c].pc = p /\ call'[c].kind = k
                      /\ call'[c].host = w /\ call'[c].todo = Listeners
Ends(c) == Others(c) /\ call'[c] = Idle

(* One call changes. *)
LEMMA OneCall ==
  ASSUME TypeOK, NEW c \in Calls, NEW new \in CallRec, call' = [call EXCEPT ![c] = new]
  PROVE  Others(c) /\ call'[c] = new
  BY DEF TypeOK, Others

(* A new call has a call's type. *)
LEMMA NewCallType ==
  ASSUME NEW p \in Steps, NEW k \in Kinds, NEW w \in Workers \cup {None}
  PROVE  /\ NewCall(p, k, w) \in CallRec
         /\ NewCall(p, k, w).pc = p /\ NewCall(p, k, w).kind = k /\ NewCall(p, k, w).host = w
         /\ NewCall(p, k, w).todo = Listeners
  BY DEF NewCall, CallRec, Steps, Kinds

(* And so has an idle one. *)
LEMMA IdleType == Idle \in CallRec /\ Idle.pc = "idle" /\ Idle.kind = "none" /\ Idle.host = None
  BY NewCallType DEF Idle, Steps, Kinds

(* A call goes to another step. *)
LEMMA GoesOn ==
  ASSUME TypeOK, NEW c \in Calls, NEW p \in Steps, call' = [call EXCEPT ![c].pc = p]
  PROVE  Goes(c, p)
  <1> DEFINE new == [call[c] EXCEPT !.pc = p]
  <1>1. call[c] \in CallRec
    BY TypedCalls DEF Typed
  <1>2. /\ new \in CallRec
        /\ new.pc = p /\ new.kind = call[c].kind /\ new.host = call[c].host
        /\ new.todo = call[c].todo
    BY <1>1 DEF CallRec, Steps
  <1>3. call' = [call EXCEPT ![c] = new]
    BY DEF TypeOK
  <1> QED BY <1>2, <1>3, OneCall DEF Goes

(* A call begins. *)
LEMMA Starts ==
  ASSUME TypeOK, NEW c \in Calls, NEW p \in Steps, NEW k \in Kinds, NEW w \in Workers,
         call' = [call EXCEPT ![c] = NewCall(p, k, w)]
  PROVE  Begins(c, p, k, w)
  <1> DEFINE new == NewCall(p, k, w)
  <1>1. new \in CallRec /\ new.pc = p /\ new.kind = k /\ new.host = w /\ new.todo = Listeners
    BY NewCallType
  <1>2. call' = [call EXCEPT ![c] = new]
    OBVIOUS
  <1> HIDE DEF new
  <1> QED BY <1>1, <1>2, OneCall DEF Begins

(* A call ends. *)
LEMMA Finishes ==
  ASSUME TypeOK, NEW c \in Calls, call' = [call EXCEPT ![c] = Idle]
  PROVE  Ends(c)
  BY IdleType, OneCall DEF Ends

(* What a check has read. *)
LEMMA ReadLedgerEffect ==
  ASSUME TypeOK, NEW c \in Calls, ReadLedger(c)
  PROVE  Goes(c, "epoch")
  <1> DEFINE new == [call[c] EXCEPT !.pc = "epoch", !.left = remaining]
  <1>1. call[c] \in CallRec /\ remaining \in Nat
    BY TypedCalls DEF Typed, TypeOK
  <1>2. /\ new \in CallRec
        /\ new.pc = "epoch" /\ new.kind = call[c].kind /\ new.host = call[c].host
        /\ new.todo = call[c].todo
    BY <1>1 DEF CallRec
  <1>3. call' = [call EXCEPT ![c] = new]
    BY DEF ReadLedger, TypeOK
  <1> QED BY <1>2, <1>3, OneCall DEF Goes

(* checkCapacity goes on with the epoch it read. *)
LEMMA ReadEpochEffect ==
  ASSUME TypeOK, NEW c \in Calls, ReadEpoch(c)
  PROVE  Goes(c, "used")
  <1> DEFINE new == [call[c] EXCEPT !.pc = "used", !.at = epoch]
  <1>1. call[c] \in CallRec /\ epoch \in Epochs
    BY TypedCalls DEF Typed, TypeOK
  <1>2. /\ new \in CallRec
        /\ new.pc = "used" /\ new.kind = call[c].kind /\ new.host = call[c].host
        /\ new.todo = call[c].todo
    BY <1>1 DEF CallRec
  <1>3. call' = [call EXCEPT ![c] = new]
    BY DEF ReadEpoch, TypeOK
  <1> QED BY <1>2, <1>3, OneCall DEF Goes

(* setEpochCapacity goes on with the sum it read. *)
LEMMA GetUsedEffect ==
  ASSUME TypeOK, NEW c \in Calls, GetUsed(c)
  PROVE  Goes(c, "set")
  <1> DEFINE new == [call[c] EXCEPT !.pc = "set", !.seen = used[call[c].at]]
  <1>1. call[c] \in CallRec /\ used[call[c].at] \in Nat
    BY TypedCalls DEF Typed, TypeOK
  <1>2. /\ new \in CallRec
        /\ new.pc = "set" /\ new.kind = call[c].kind /\ new.host = call[c].host
        /\ new.todo = call[c].todo
    BY <1>1 DEF CallRec
  <1>3. call' = [call EXCEPT ![c] = new]
    BY DEF GetUsed, TypeOK
  <1> QED BY <1>2, <1>3, OneCall DEF Goes

(* The last listener's timeout ends the call. *)
LEMMA PlanEffect ==
  ASSUME TypeOK, Shape, NEW c \in Calls, Plan(c)
  PROVE  \/ Ends(c)
         \/ /\ Others(c) /\ call'[c].pc = "plan" /\ call'[c].kind = call[c].kind
            /\ call'[c].host = call[c].host /\ call'[c].todo >= 1
  <1>1. CASE call[c].todo = 1
    BY <1>1, Finishes DEF Plan
  <1>2. CASE call[c].todo # 1
    <2> DEFINE new == [call[c] EXCEPT !.todo = @ - 1]
    <2>1. call[c] \in CallRec /\ call[c].todo \in 0 .. Listeners /\ call[c].pc = "plan"
      BY TypedCalls DEF Typed, Plan
    <2>2. call[c].todo >= 1
      BY <2>1 DEF Shape, CallShape
    <2>3. call[c].todo - 1 \in 0 .. Listeners /\ call[c].todo - 1 >= 1
      BY <1>2, <2>1, <2>2
    <2>4. /\ new \in CallRec
          /\ new.pc = "plan" /\ new.kind = call[c].kind /\ new.host = call[c].host
          /\ new.todo >= 1
      BY <2>1, <2>3 DEF CallRec
    <2>5. call' = [call EXCEPT ![c] = new]
      BY <1>2 DEF Plan
    <2> QED BY <2>4, <2>5, OneCall
  <1> QED BY <1>1, <1>2

(* The monitor has come upon a transaction. *)
LEMMA FindTxEffect ==
  ASSUME TypeOK, NEW c \in Calls, NEW w \in Workers, NEW e \in Epochs, FindTx(c, w, e)
  PROVE  Begins(c, "get", "monitor", w)
  <1> DEFINE old == NewCall("get", "monitor", w)
             new == [old EXCEPT !.at = e]
  <1>1. old \in CallRec /\ old.pc = "get" /\ old.kind = "monitor" /\ old.host = w
        /\ old.todo = Listeners
    BY NewCallType DEF Steps, Kinds
  <1> HIDE DEF old
  <1>2. /\ new \in CallRec
        /\ new.pc = "get" /\ new.kind = "monitor" /\ new.host = w /\ new.todo = Listeners
    BY <1>1 DEF CallRec
  <1>3. call' = [call EXCEPT ![c] = new]
    BY DEF FindTx, old
  <1> QED BY <1>2, <1>3, OneCall DEF Begins

(* The exhausted event's handlers begin beside the check. *)
LEMMA CannotPayEffect ==
  ASSUME TypeOK, Shape, NEW c \in Calls, NEW d \in Calls, CannotPay(c, d)
  PROVE  /\ c # d /\ call[c].host \in up /\ call[d].pc = "idle"
         /\ call' \in [Calls -> CallRec]
         /\ \A x \in Calls : x \notin {c, d} => call'[x] = call[x]
         /\ call'[c].pc = "ledger" /\ call'[c].kind = call[c].kind
         /\ call'[c].host = call[c].host /\ call'[c].todo = call[c].todo
         /\ call'[d].pc = "pause" /\ call'[d].kind = "event" /\ call'[d].host = call[c].host
         /\ call'[d].todo = Listeners
  <1> DEFINE new == [call[c] EXCEPT !.pc = "ledger"]
             event == NewCall("pause", "event", call[c].host)
  <1>1. call[c] \in CallRec /\ call[c].pc = "submit" /\ call[d] = Idle
    BY TypedCalls DEF Typed, CannotPay
  <1>2. /\ new \in CallRec
        /\ new.pc = "ledger" /\ new.kind = call[c].kind /\ new.host = call[c].host
        /\ new.todo = call[c].todo
    BY <1>1 DEF CallRec
  <1>3. call[c].host \in up /\ up \subseteq Workers
    BY <1>1 DEF Shape, CallShape, TypeOK
  <1>4. /\ event \in CallRec
        /\ event.pc = "pause" /\ event.kind = "event" /\ event.host = call[c].host
        /\ event.todo = Listeners
    BY <1>3, NewCallType DEF Steps, Kinds
  <1>5. c # d /\ call[d].pc = "idle"
    BY <1>1, IdleType
  <1>6. call' = [call EXCEPT ![c] = new, ![d] = event]
    BY DEF CannotPay, TypeOK
  <1> HIDE DEF new, event
  <1>7. call'[c] = new /\ call'[d] = event
    BY <1>5, <1>6 DEF TypeOK
  <1>8. call' \in [Calls -> CallRec] /\ \A x \in Calls : x \notin {c, d} => call'[x] = call[x]
    BY <1>2, <1>4, <1>6 DEF TypeOK
  <1> QED BY <1>2, <1>3, <1>4, <1>5, <1>7, <1>8

(* A process dies. *)
LEMMA DieEffect ==
  ASSUME TypeOK, NEW w \in Workers, Die(w)
  PROVE  /\ call' \in [Calls -> CallRec]
         /\ \A c \in Calls : IF call[c].host = w THEN call'[c] = Idle ELSE call'[c] = call[c]
         /\ up' = up \ {w} /\ stray' = stray \ {w} /\ botched' = botched \ {w}
         /\ flag' \in [Workers -> BOOLEAN] /\ ~flag'[w]
         /\ registry' \in [Workers -> {"none", "pending", "fired"}] /\ registry'[w] = "none"
         /\ \A v \in Workers : v # w => flag'[v] = flag[v] /\ registry'[v] = registry[v]
         /\ UNCHANGED <<chain, used, paused, jobs>>
  BY IdleType DEF Die, TypeOK

-----------------------------------------------------------------------------
(* What a step does to the shape of the calls and to the watch. *)

(* What is at stake in the inductive invariant besides the types. *)
Watch == Shape /\ \A w \in Workers : Watched(w)

(* A process that is watched stays so when nothing of it is lost. *)
LEMMA WatchKept ==
  ASSUME NEW w \in Workers, Watched(w),
         w \in up' \ botched' /\ flag'[w] => w \in up \ botched /\ flag[w],
         registry'[w] = registry[w], w \in stray => w \in stray',
         \A c \in Calls : Rechecks(c, w) => Rechecks(c, w)'
  PROVE  Watched(w)'
  BY DEF Watched, Pending

(* An idle call is nobody's. *)
LEMMA IdleIsNobodys ==
  ASSUME NEW c \in Calls, NEW w \in Workers, call[c] = Idle
  PROVE  ~Rechecks(c, w)
  BY IdleType DEF Rechecks

(* What the watch is about. *)
LEMMA WatchUnchanged ==
  ASSUME Watch, UNCHANGED <<up, memory, call, botched>>
  PROVE  Watch'
  BY DEF Watch, Shape, CallShape, Watched, Pending, Rechecks, memory

(* A call goes on, and does not go back from the timeout it is about to set. *)
LEMMA GoingOnWatches ==
  ASSUME Watch, NEW c \in Calls, NEW p \in Steps \ {"idle"}, Goes(c, p),
         call[c].pc # "idle",
         p \in {"get", "set"} => call[c].kind = "monitor",
         call[c].pc \in {"pause", "plan"} => p \in {"pause", "plan"},
         UNCHANGED <<up, memory, botched>>
  PROVE  Watch'
  <1>1. ASSUME NEW x \in Calls PROVE CallShape(x)'
    BY <1>1 DEF Watch, Shape, CallShape, Goes, Others
  <1>2. ASSUME NEW w \in Workers PROVE Watched(w)'
    <2>1. ASSUME NEW x \in Calls, Rechecks(x, w) PROVE Rechecks(x, w)'
      BY <2>1 DEF Rechecks, Goes, Others
    <2> QED BY <2>1, WatchKept DEF Watch, memory
  <1> QED BY <1>1, <1>2 DEF Watch, Shape

(* A call begins in a process that is up. *)
LEMMA BeginningWatches ==
  ASSUME Watch, NEW c \in Calls, NEW p \in Steps \ {"idle"}, NEW k \in Kinds,
         NEW v \in Workers, v \in up', Begins(c, p, k, v),
         call[c] = Idle,
         p \in {"get", "set"} => k = "monitor",
         up \subseteq up', \A w \in up' \ up : ~flag[w],
         UNCHANGED <<memory, botched>>
  PROVE  Watch'
  <1>1. ASSUME NEW x \in Calls PROVE CallShape(x)'
    BY <1>1, CapacityAssumption DEF Watch, Shape, CallShape, Begins, Others
  <1>2. ASSUME NEW w \in Workers PROVE Watched(w)'
    <2>1. ASSUME NEW x \in Calls, Rechecks(x, w) PROVE Rechecks(x, w)'
      <3>1. x # c
        BY <2>1, IdleIsNobodys
      <3> QED BY <2>1, <3>1 DEF Rechecks, Begins, Others
    <2> QED BY <2>1, WatchKept DEF Watch, memory
  <1> QED BY <1>1, <1>2 DEF Watch, Shape

(* A call ends that was not to set a timeout. *)
LEMMA EndingWatches ==
  ASSUME Watch, NEW c \in Calls, Ends(c), \A w \in Workers : ~Rechecks(c, w),
         UNCHANGED <<up, memory, botched>>
  PROVE  Watch'
  <1>1. ASSUME NEW x \in Calls PROVE CallShape(x)'
    BY <1>1, IdleType DEF Watch, Shape, CallShape, Ends, Others
  <1>2. ASSUME NEW w \in Workers PROVE Watched(w)'
    <2>1. ASSUME NEW x \in Calls, Rechecks(x, w) PROVE Rechecks(x, w)'
      BY <2>1 DEF Rechecks, Ends, Others
    <2> QED BY <2>1, WatchKept DEF Watch, memory
  <1> QED BY <1>1, <1>2 DEF Watch, Shape

(* With its process everything about it goes. *)
LEMMA DyingWatches ==
  ASSUME TypeOK, Watch, NEW v \in Workers, Die(v)
  PROVE  Watch'
  <1>1. ASSUME NEW x \in Calls PROVE CallShape(x)'
    <2>1. CASE call[x].host = v
      BY <2>1, DieEffect, IdleType DEF CallShape
    <2>2. CASE call[x].host # v
      BY <2>2, DieEffect DEF Watch, Shape, CallShape
    <2> QED BY <2>1, <2>2
  <1>2. ASSUME NEW w \in Workers PROVE Watched(w)'
    <2>1. CASE w = v
      BY <2>1, DieEffect DEF Watched
    <2>2. CASE w # v
      <3>1. ASSUME NEW x \in Calls, Rechecks(x, w) PROVE Rechecks(x, w)'
        BY <2>2, <3>1, DieEffect DEF Rechecks
      <3>2. /\ w \in up' \ botched' /\ flag'[w] => w \in up \ botched /\ flag[w]
            /\ registry'[w] = registry[w] /\ (w \in stray => w \in stray')
        BY <2>2, DieEffect
      <3> QED BY <3>1, <3>2, WatchKept DEF Watch
    <2> QED BY <2>1, <2>2
  <1> QED BY <1>1, <1>2 DEF Watch, Shape

-----------------------------------------------------------------------------
(* The operations that touch the watch. *)

(* The check finds no capacity: the call that noted it goes on to set a timeout. *)
LEMMA ExhaustedWatches ==
  ASSUME TypeOK, Watch, NEW c \in Calls, call[c].pc = "used", Exhausted(c),
         UNCHANGED <<up, botched>>
  PROVE  Watch'
  <1>1. Goes(c, "pause") /\ flag' = [flag EXCEPT ![call[c].host] = TRUE]
        /\ UNCHANGED <<registry, stray, up, botched>>
    BY GoesOn DEF Exhausted, Steps
  <1>2. ASSUME NEW x \in Calls PROVE CallShape(x)'
    BY <1>1 DEF Watch, Shape, CallShape, Goes, Others
  <1>3. ASSUME NEW w \in Workers PROVE Watched(w)'
    <2>1. CASE call[c].host = w
      BY <1>1, <2>1 DEF Watched, Pending, Rechecks, Goes
    <2>2. CASE call[c].host # w
      <3>1. ASSUME NEW x \in Calls, Rechecks(x, w) PROVE Rechecks(x, w)'
        BY <1>1, <2>2, <3>1 DEF Rechecks, Goes, Others
      <3>2. flag'[w] = flag[w]
        BY <1>1, <2>2 DEF TypeOK
      <3> QED BY <1>1, <3>1, <3>2, WatchKept DEF Watch
    <2> QED BY <2>1, <2>2
  <1> QED BY <1>2, <1>3 DEF Watch, Shape

(* The check finds capacity: the note is gone, and with it the need for a timeout. *)
LEMMA RefilledWatches ==
  ASSUME TypeOK, Watch, NEW c \in Calls, call[c].pc = "used", Refilled(c),
         UNCHANGED <<up, botched>>
  PROVE  Watch'
  <1>1. /\ Ends(c) /\ flag' = [flag EXCEPT ![call[c].host] = FALSE]
        /\ registry' = [registry EXCEPT ![call[c].host] = "none"]
        /\ UNCHANGED <<stray, up, botched>>
    BY Finishes DEF Refilled
  <1>2. ASSUME NEW x \in Calls PROVE CallShape(x)'
    BY <1>1, IdleType DEF Watch, Shape, CallShape, Ends, Others
  <1>3. ASSUME NEW w \in Workers PROVE Watched(w)'
    <2>1. CASE call[c].host = w
      BY <1>1, <2>1 DEF Watched, TypeOK
    <2>2. CASE call[c].host # w
      <3>1. ASSUME NEW x \in Calls, Rechecks(x, w) PROVE Rechecks(x, w)'
        BY <1>1, <2>2, <3>1 DEF Rechecks, Ends, Others
      <3>2. flag'[w] = flag[w] /\ registry'[w] = registry[w]
        BY <1>1, <2>2 DEF TypeOK
      <3> QED BY <1>1, <3>1, <3>2, WatchKept DEF Watch
    <2> QED BY <2>1, <2>2
  <1> QED BY <1>2, <1>3 DEF Watch, Shape

(* A job cannot pay: its process notes it, and the event's handlers go on to set a timeout. *)
LEMMA CannotPayWatches ==
  ASSUME TypeOK, Watch, NEW c \in Calls, NEW d \in Calls, CannotPay(c, d)
  PROVE  Watch'
  <1> DEFINE v == call[c].host
  <1>1. /\ c # d /\ v \in up /\ call[c].pc = "submit" /\ call[d] = Idle
        /\ flag' = [flag EXCEPT ![v] = TRUE] /\ UNCHANGED <<registry, stray, up, botched>>
    BY CannotPayEffect DEF CannotPay, Watch
  <1>2. /\ \A x \in Calls : x \notin {c, d} => call'[x] = call[x]
        /\ call'[c].pc = "ledger" /\ call'[c].kind = call[c].kind
        /\ call'[c].host = v /\ call'[c].todo = call[c].todo
        /\ call'[d].pc = "pause" /\ call'[d].kind = "event" /\ call'[d].host = v
        /\ call'[d].todo = Listeners
    BY CannotPayEffect DEF Watch
  <1> HIDE DEF v
  <1>3. ASSUME NEW x \in Calls PROVE CallShape(x)'
    <2>1. CASE x = d
      BY <1>1, <1>2, <2>1, CapacityAssumption DEF CallShape
    <2>2. CASE x = c
      BY <1>1, <1>2, <2>2 DEF Watch, Shape, CallShape
    <2>3. CASE x \notin {c, d}
      BY <1>1, <1>2, <2>3 DEF Watch, Shape, CallShape
    <2> QED BY <2>1, <2>2, <2>3
  <1>4. ASSUME NEW w \in Workers PROVE Watched(w)'
    <2>1. CASE v = w
      BY <1>2, <2>1 DEF Watched, Pending, Rechecks
    <2>2. CASE v # w
      <3>1. ASSUME NEW x \in Calls, Rechecks(x, w) PROVE Rechecks(x, w)'
        <4>1. x # d
          BY <1>1, <3>1, IdleIsNobodys
        <4>2. x # c
          BY <2>2, <3>1 DEF Rechecks, v
        <4> QED BY <1>2, <3>1, <4>1, <4>2 DEF Rechecks
      <3>2. flag'[w] = flag[w]
        BY <1>1, <2>2 DEF TypeOK
      <3> QED BY <1>1, <3>1, <3>2, WatchKept DEF Watch
    <2> QED BY <2>1, <2>2
  <1> QED BY <1>3, <1>4 DEF Watch, Shape

(* A timeout is set, one way or the other, for the process and for no other. *)
LEMMA ArmedEffect ==
  ASSUME TypeOK, NEW v \in Workers, Armed(v)
  PROVE  /\ registry'[v] = "pending" \/ v \in stray'
         /\ stray \subseteq stray'
         /\ \A w \in Workers : w # v => registry'[w] = registry[w]
  BY DEF Armed, TypeOK

(* The listeners of the event set their timeouts one by one. *)
LEMMA PlanWatches ==
  ASSUME TypeOK, Watch, NEW c \in Calls, Plan(c)
  PROVE  Watch'
  <1>1. /\ call[c].pc = "plan" /\ call[c].host \in up /\ call[c].host \in Workers
        /\ Armed(call[c].host) /\ UNCHANGED <<up, flag, botched>>
    BY DEF Watch, Shape, CallShape, Plan, TypeOK
  <1>2. \/ Ends(c)
        \/ /\ Others(c) /\ call'[c].pc = "plan" /\ call'[c].kind = call[c].kind
           /\ call'[c].host = call[c].host /\ call'[c].todo >= 1
    BY PlanEffect DEF Watch
  <1>3. ASSUME NEW x \in Calls PROVE CallShape(x)'
    BY <1>1, <1>2, IdleType DEF Watch, Shape, CallShape, Ends, Others
  <1>4. ASSUME NEW w \in Workers PROVE Watched(w)'
    <2>1. CASE call[c].host = w
      BY <1>1, <2>1, ArmedEffect DEF Watched, Pending
    <2>2. CASE call[c].host # w
      <3>1. ASSUME NEW x \in Calls, Rechecks(x, w) PROVE Rechecks(x, w)'
        BY <1>2, <2>2, <3>1 DEF Rechecks, Ends, Others
      <3>2. registry'[w] = registry[w] /\ stray \subseteq stray'
        BY <1>1, <2>2, ArmedEffect
      <3> QED BY <1>1, <3>1, <3>2, WatchKept DEF Watch
    <2> QED BY <2>1, <2>2
  <1> QED BY <1>3, <1>4 DEF Watch, Shape

(* A timeout fires: the check it starts ends in a timeout, in capacity, or with its process. *)
LEMMA FiringWatches ==
  ASSUME TypeOK, Watch, NEW c \in Calls, NEW v \in Workers,
         FireRegistered(c, v) \/ FireStray(c, v)
  PROVE  Watch'
  <1>1. /\ v \in up /\ call[c] = Idle /\ Begins(c, "ledger", "timer", v)
        /\ UNCHANGED <<up, flag, botched>>
    BY Starts DEF FireRegistered, FireStray, TypeOK, Steps, Kinds
  <1>2. \A w \in Workers : w # v => /\ registry'[w] = registry[w]
                                    /\ w \in stray => w \in stray'
    BY DEF FireRegistered, FireStray, TypeOK
  <1>3. ASSUME NEW x \in Calls PROVE CallShape(x)'
    BY <1>1, CapacityAssumption DEF Watch, Shape, CallShape, Begins, Others
  <1>4. ASSUME NEW w \in Workers PROVE Watched(w)'
    <2>1. CASE w = v
      BY <1>1, <2>1 DEF Watched, Pending, Rechecks, Begins
    <2>2. CASE w # v
      <3>1. ASSUME NEW x \in Calls, Rechecks(x, w) PROVE Rechecks(x, w)'
        <4>1. x # c
          BY <1>1, <3>1, IdleIsNobodys
        <4> QED BY <1>1, <3>1, <4>1 DEF Rechecks, Begins, Others
      <3> QED BY <1>1, <1>2, <2>2, <3>1, WatchKept DEF Watch
    <2> QED BY <2>1, <2>2
  <1> QED BY <1>3, <1>4 DEF Watch, Shape

(* A call of a check throws: caught, with or without a timeout set, or the end of its process. *)
LEMMA ThrowsWatches ==
  ASSUME TypeOK, Watch, NEW c \in Calls, Throws(c)
  PROVE  Watch'
  <1>1. call[c].host \in up /\ call[c].host \in Workers
    BY DEF Watch, Shape, CallShape, Throws, TypeOK
  <1>2. CASE call[c].kind \in {"timer", "event"} /\ Die(call[c].host)
    BY <1>1, <1>2, DyingWatches
  <1>3. CASE /\ call[c].kind \in {"job", "boot"} /\ call[c].pc \notin {"pause", "plan"}
             /\ call' = [call EXCEPT ![c] = Idle]
             /\ UNCHANGED <<up, memory, botched>>
    <2>1. \A w \in Workers : ~Rechecks(c, w)
      BY <1>3 DEF Rechecks
    <2> QED BY <1>3, <2>1, Finishes, EndingWatches
  <1>4. CASE /\ call[c].kind \in {"job", "boot"} /\ call[c].pc \in {"pause", "plan"}
             /\ call' = [call EXCEPT ![c] = Idle]
             /\ botched' = botched \cup {call[c].host}
             /\ Armed(call[c].host) \/ UNCHANGED <<registry, stray>>
             /\ UNCHANGED <<up, flag>>
    <2>0. Ends(c)
      BY <1>4, Finishes
    <2>1. ASSUME NEW x \in Calls PROVE CallShape(x)'
      BY <1>4, <2>0, IdleType DEF Watch, Shape, CallShape, Ends, Others
    <2>2. ASSUME NEW w \in Workers PROVE Watched(w)'
      <3>1. CASE call[c].host = w
        BY <1>4, <3>1 DEF Watched
      <3>2. CASE call[c].host # w
        <4>1. ASSUME NEW x \in Calls, Rechecks(x, w) PROVE Rechecks(x, w)'
          BY <2>0, <3>2, <4>1 DEF Rechecks, Ends, Others
        <4>2. registry'[w] = registry[w] /\ stray \subseteq stray'
          BY <1>1, <1>4, <3>2, ArmedEffect
        <4> QED BY <1>4, <4>1, <4>2, WatchKept DEF Watch
      <3> QED BY <3>1, <3>2
    <2> QED BY <2>1, <2>2 DEF Watch, Shape
  <1> QED BY <1>2, <1>3, <1>4 DEF Throws, memory

(* Every step keeps the shape of the calls and the watch. *)
LEMMA WatchStep == TypeOK /\ Watch /\ Next => Watch'
  <1> SUFFICES ASSUME TypeOK, Watch, Next PROVE Watch'
    OBVIOUS
  <1>1. ASSUME NEW c \in Calls, CallStep(c) PROVE Watch'
    <2>1. CASE Submit(c)
      BY <2>1, GoesOn, GoingOnWatches DEF Submit, Steps, memory
    <2>2. CASE ReadLedger(c)
      BY <2>2, ReadLedgerEffect, GoingOnWatches DEF ReadLedger, Steps
    <2>3. CASE ReadEpoch(c)
      BY <2>3, ReadEpochEffect, GoingOnWatches DEF ReadEpoch, Steps
    <2>4. CASE Decide(c)
      BY <2>4, ExhaustedWatches, RefilledWatches DEF Decide
    <2>5. CASE Pause(c)
      BY <2>5, GoesOn, GoingOnWatches DEF Pause, Steps
    <2>6. CASE Plan(c)
      BY <2>6, PlanWatches
    <2>7. CASE GetUsed(c)
      <3>1. call[c].pc = "get" /\ call[c].kind = "monitor"
        BY <2>7 DEF GetUsed, Watch, Shape, CallShape
      <3> QED BY <2>7, <3>1, GetUsedEffect, GoingOnWatches DEF GetUsed, Steps
    <2>8. CASE SetUsed(c)
      <3>1. \A w \in Workers : ~Rechecks(c, w)
        BY <2>8 DEF SetUsed, Watch, Shape, CallShape, Rechecks
      <3> QED BY <2>8, <3>1, Finishes, EndingWatches DEF SetUsed
    <2> QED BY <1>1, <2>1, <2>2, <2>3, <2>4, <2>5, <2>6, <2>7, <2>8 DEF CallStep
  <1>2. ASSUME NEW c \in Calls, SetFails(c) PROVE Watch'
    <2>1. \A w \in Workers : ~Rechecks(c, w)
      BY <1>2 DEF SetFails, Watch, Shape, CallShape, Rechecks
    <2> QED BY <1>2, <2>1, Finishes, EndingWatches DEF SetFails
  <1>3. ASSUME NEW c \in Calls, NEW w \in Workers, TakeJob(c, w) PROVE Watch'
    <2>1. /\ Begins(c, "submit", "job", w) /\ w \in up /\ call[c] = Idle
          /\ UNCHANGED <<up, memory, botched>>
      BY <1>3, Starts DEF TakeJob, Steps, Kinds
    <2> QED BY <2>1, BeginningWatches DEF Steps, Kinds
  <1>4. ASSUME NEW c \in Calls, NEW w \in Workers, Boot(c, w) PROVE Watch'
    <2>1. /\ up' = up \cup {w} /\ call[c] = Idle /\ UNCHANGED <<memory, botched>>
          /\ Begins(c, "ledger", "boot", w) /\ ~flag[w]
      BY <1>4, Starts DEF Boot, Steps, Kinds, TypeOK
    <2> QED BY <2>1, BeginningWatches DEF Steps, Kinds
  <1>5. ASSUME NEW c \in Calls, NEW w \in Workers, NEW e \in Epochs, FindTx(c, w, e) PROVE Watch'
    BY <1>5, FindTxEffect, BeginningWatches DEF FindTx, Steps, Kinds
  <1>6. ASSUME NEW w \in Workers, Crash(w) PROVE Watch'
    BY <1>6, DyingWatches DEF Crash
  <1>7. ASSUME Include \/ OthersSpend \/ NextEpoch PROVE Watch'
    <2>1. UNCHANGED <<up, memory, call, botched>>
      BY <1>7 DEF Include, OthersSpend, NextEpoch
    <2> QED BY <2>1, WatchUnchanged
  <1> QED BY <1>1, <1>2, <1>3, <1>4, <1>5, <1>6, <1>7, ThrowsWatches, CannotPayWatches,
             FiringWatches DEF Next

-----------------------------------------------------------------------------
(* The types. *)

(* What a call does outside the process's memory. *)
LEMMA TypesKept ==
  ASSUME TypeOK, call' \in [Calls -> CallRec],
         used' \in [Epochs -> Nat], unseen' \in [Epochs -> Nat], paused' \in BOOLEAN,
         pool' \in Nat,
         jobs' \in 0 .. MaxJobs, faults' \in 0 .. MaxFaults,
         UNCHANGED <<epoch, remaining, spent, up, memory, botched>>
  PROVE  TypeOK'
  BY DEF TypeOK, memory

(* One mishap more. *)
LEMMA MishapType ==
  ASSUME TypeOK, NEW k, Mishap(k)
  PROVE  faults' \in 0 .. MaxFaults
  BY CapacityAssumption DEF TypeOK

(* What the monitor adds to the capacity it has read is nothing. *)
LEMMA WithdrawnIsZero == \A e : Withdrawn(TxResult(e)) = 0
  <1> TAKE e
  <1>1. DOMAIN TxResult(e) = {"found", "capacityEpoch", "capacityWithDrawn"}
    BY DEF TxResult
  <1>2. "capacityWithdrawn" \notin DOMAIN TxResult(e)
    BY <1>1
  <1> QED BY <1>2 DEF Withdrawn

(* A process dies. *)
LEMMA DyingTypes ==
  ASSUME TypeOK, NEW v \in Workers, Die(v), faults' \in 0 .. MaxFaults
  PROVE  TypeOK'
  <1>1. /\ call' \in [Calls -> CallRec]
        /\ up' = up \ {v} /\ stray' = stray \ {v} /\ botched' = botched \ {v}
        /\ flag' \in [Workers -> BOOLEAN] /\ ~flag'[v]
        /\ registry' \in [Workers -> {"none", "pending", "fired"}] /\ registry'[v] = "none"
        /\ \A w \in Workers : w # v => flag'[w] = flag[w] /\ registry'[w] = registry[w]
        /\ UNCHANGED <<chain, used, paused, jobs>>
    BY DieEffect
  <1> QED BY <1>1 DEF TypeOK, chain

(* A timeout is set for a process that is up. *)
LEMMA ArmedTypes ==
  ASSUME TypeOK, NEW v \in up, Armed(v)
  PROVE  /\ registry' \in [Workers -> {"none", "pending", "fired"}] /\ stray' \subseteq up
         /\ \A w \in Workers \ up : registry'[w] = "none"
  BY DEF Armed, TypeOK

(* Every step of a call keeps the types. *)
LEMMA CallTypes ==
  ASSUME TypeOK, Shape, NEW c \in Calls, CallStep(c)
  PROVE  TypeOK'
  <1>0. /\ used \in [Epochs -> Nat] /\ unseen \in [Epochs -> Nat] /\ paused \in BOOLEAN
        /\ pool \in Nat /\ jobs \in 0 .. MaxJobs /\ faults \in 0 .. MaxFaults
    BY DEF TypeOK
  <1>1. CASE Submit(c)
    <2>1. Goes(c, "ledger")
      BY <1>1, GoesOn DEF Submit, Steps
    <2> QED BY <1>0, <1>1, <2>1, TypesKept DEF Submit, Goes, Others
  <1>2. CASE ReadLedger(c)
    BY <1>0, <1>2, ReadLedgerEffect, TypesKept DEF ReadLedger, Goes, Others, chain
  <1>3. CASE ReadEpoch(c)
    BY <1>0, <1>3, ReadEpochEffect, TypesKept DEF ReadEpoch, Goes, Others, chain
  <1>4. CASE Decide(c)
    <2>1. call[c].host \in up /\ call[c].pc = "used"
      BY <1>4 DEF Decide, Shape, CallShape
    <2>2. CASE Exhausted(c)
      <3>1. Goes(c, "pause")
        BY <2>2, GoesOn DEF Exhausted, Steps
      <3> QED BY <1>4, <2>1, <2>2, <3>1 DEF Decide, Exhausted, TypeOK, Goes, Others, chain
    <2>3. CASE Refilled(c)
      <3>1. Ends(c)
        BY <2>3, Finishes DEF Refilled
      <3> QED BY <1>4, <2>1, <2>3, <3>1 DEF Decide, Refilled, TypeOK, Ends, Others, chain
    <2> QED BY <1>4, <2>2, <2>3 DEF Decide
  <1>5. CASE Pause(c)
    <2>1. Goes(c, "plan")
      BY <1>5, GoesOn DEF Pause, Steps
    <2> QED BY <1>0, <1>5, <2>1, TypesKept DEF Pause, Goes, Others, chain
  <1>6. CASE Plan(c)
    <2>1. call[c].host \in up
      BY <1>6 DEF Plan, Shape, CallShape
    <2>2. call' \in [Calls -> CallRec]
      BY <1>6, PlanEffect DEF Ends, Others
    <2> QED BY <1>6, <2>1, <2>2, ArmedTypes DEF Plan, TypeOK, chain
  <1>7. CASE GetUsed(c)
    BY <1>0, <1>7, GetUsedEffect, TypesKept DEF GetUsed, Goes, Others, chain
  <1>8. CASE SetUsed(c)
    <2>1. Ends(c)
      BY <1>8, Finishes DEF SetUsed
    <2>2. call[c].seen + Withdrawn(TxResult(call[c].at)) \in Nat
      BY TypedCalls, WithdrawnIsZero DEF Typed
    <2>3. used' \in [Epochs -> Nat]
      BY <1>0, <1>8, <2>2 DEF SetUsed
    <2> QED BY <1>0, <1>8, <2>1, <2>3, TypesKept DEF SetUsed, Ends, Others, chain
  <1> QED BY <1>1, <1>2, <1>3, <1>4, <1>5, <1>6, <1>7, <1>8 DEF CallStep

(* A call of a check throws. *)
LEMMA ThrowsTypes ==
  ASSUME TypeOK, Shape, NEW c \in Calls, Throws(c)
  PROVE  TypeOK'
  <1>1. call[c].host \in up /\ call[c].host \in Workers /\ faults' \in 0 .. MaxFaults
    BY MishapType DEF Shape, CallShape, Throws, TypeOK
  <1>2. CASE Die(call[c].host)
    BY <1>1, <1>2, DyingTypes
  <1>3. CASE /\ call' = [call EXCEPT ![c] = Idle]
             /\ \/ /\ botched' = botched \cup {call[c].host}
                   /\ Armed(call[c].host) \/ UNCHANGED <<registry, stray>>
                   /\ paused' \in {paused, TRUE}
                \/ UNCHANGED <<registry, stray, paused, botched>>
             /\ UNCHANGED <<chain, used, up, flag, jobs>>
    <2>1. call' \in [Calls -> CallRec]
      BY <1>3, Finishes DEF Ends, Others
    <2>2. /\ registry' \in [Workers -> {"none", "pending", "fired"}] /\ stray' \subseteq up
          /\ \A w \in Workers \ up : registry'[w] = "none"
      BY <1>1, <1>3, ArmedTypes DEF TypeOK
    <2>3. botched' \subseteq up /\ paused' \in BOOLEAN
      BY <1>1, <1>3 DEF TypeOK
    <2> QED BY <1>1, <1>3, <2>1, <2>2, <2>3 DEF TypeOK, chain
  <1> QED BY <1>2, <1>3 DEF Throws

(* So does every step. *)
LEMMA TypeStep == TypeOK /\ Shape /\ Next => TypeOK'
  <1> SUFFICES ASSUME TypeOK, Shape, Next PROVE TypeOK'
    OBVIOUS
  <1>0. /\ used \in [Epochs -> Nat] /\ unseen \in [Epochs -> Nat] /\ paused \in BOOLEAN
        /\ pool \in Nat /\ jobs \in 0 .. MaxJobs /\ faults \in 0 .. MaxFaults
    BY DEF TypeOK
  <1>1. ASSUME NEW c \in Calls, SetFails(c) PROVE TypeOK'
    <2>1. Ends(c) /\ faults' \in 0 .. MaxFaults
      BY <1>1, Finishes, MishapType DEF SetFails
    <2> QED BY <1>0, <1>1, <2>1, TypesKept DEF SetFails, Ends, Others, chain
  <1>2. ASSUME NEW c \in Calls, NEW d \in Calls, CannotPay(c, d) PROVE TypeOK'
    <2>1. call[c].host \in up /\ call' \in [Calls -> CallRec]
      BY <1>2, CannotPayEffect
    <2> QED BY <1>2, <2>1 DEF CannotPay, TypeOK, chain
  <1>3. ASSUME NEW c \in Calls, NEW w \in Workers, TakeJob(c, w) PROVE TypeOK'
    <2>1. Begins(c, "submit", "job", w)
      BY <1>3, Starts DEF TakeJob, Steps, Kinds
    <2>2. jobs' \in 0 .. MaxJobs
      BY <1>0, <1>3, CapacityAssumption DEF TakeJob
    <2> QED BY <1>0, <1>3, <2>1, <2>2, TypesKept DEF TakeJob, Begins, Others, chain
  <1>4. ASSUME NEW c \in Calls, NEW w \in Workers, FireRegistered(c, w) PROVE TypeOK'
    <2>1. Begins(c, "ledger", "timer", w)
      BY <1>4, Starts DEF FireRegistered, Steps, Kinds
    <2> QED BY <1>4, <2>1 DEF FireRegistered, TypeOK, Begins, Others, chain
  <1>5. ASSUME NEW c \in Calls, NEW w \in Workers, FireStray(c, w) PROVE TypeOK'
    <2>1. Begins(c, "ledger", "timer", w)
      BY <1>5, Starts DEF FireStray, Steps, Kinds
    <2> QED BY <1>5, <2>1 DEF FireStray, TypeOK, Begins, Others, chain
  <1>6. ASSUME NEW c \in Calls, NEW w \in Workers, Boot(c, w) PROVE TypeOK'
    <2>1. Begins(c, "ledger", "boot", w)
      BY <1>6, Starts DEF Boot, Steps, Kinds
    <2> QED BY <1>6, <2>1 DEF Boot, TypeOK, Begins, Others, chain, memory
  <1>7. ASSUME NEW c \in Calls, NEW w \in Workers, NEW e \in Epochs, FindTx(c, w, e)
        PROVE  TypeOK'
    <2>1. Begins(c, "get", "monitor", w)
      BY <1>7, FindTxEffect
    <2>2. unseen[e] \in Nat /\ unseen[e] > 0
      BY <1>0, <1>7 DEF FindTx
    <2>3. unseen' \in [Epochs -> Nat]
      BY <1>0, <1>7, <2>2 DEF FindTx
    <2> QED BY <1>0, <1>7, <2>1, <2>3, TypesKept DEF FindTx, Begins, Others
  <1>8. ASSUME NEW w \in Workers, Crash(w) PROVE TypeOK'
    BY <1>8, MishapType, DyingTypes DEF Crash
  <1>9. ASSUME Include PROVE TypeOK'
    <2>1. pool' \in Nat
      BY <1>0, <1>9 DEF Include
    <2>2. remaining' \in 0 .. Total
      <3>1. remaining \in 0 .. Total /\ Total \in Nat
        BY CapacityAssumption DEF TypeOK
      <3>2. remaining' = remaining \/ (remaining > 0 /\ remaining' = remaining - 1)
        BY <1>9 DEF Include
      <3> QED BY <3>1, <3>2
    <2>3. spent' \in [Epochs -> Nat] /\ unseen' \in [Epochs -> Nat]
      <3>1. spent \in [Epochs -> Nat] /\ unseen \in [Epochs -> Nat] /\ epoch \in Epochs
        BY DEF TypeOK
      <3>2. spent[epoch] + 1 \in Nat /\ unseen[epoch] + 1 \in Nat
        BY <3>1
      <3>3. CASE remaining > 0
        BY <1>9, <3>1, <3>2, <3>3 DEF Include
      <3>4. CASE ~(remaining > 0)
        BY <1>9, <3>1, <3>4 DEF Include
      <3> QED BY <3>3, <3>4
    <2> QED BY <1>9, <2>1, <2>2, <2>3 DEF Include, TypeOK, memory
  <1>10. ASSUME OthersSpend PROVE TypeOK'
    BY <1>10, CapacityAssumption DEF OthersSpend, TypeOK, memory
  <1>11. ASSUME NextEpoch PROVE TypeOK'
    BY <1>11, CapacityAssumption DEF NextEpoch, TypeOK, memory
  <1> QED BY <1>1, <1>2, <1>3, <1>4, <1>5, <1>6, <1>7, <1>8, <1>9, <1>10, <1>11,
             CallTypes, ThrowsTypes DEF Next

-----------------------------------------------------------------------------
(* The initial states. *)
LEMMA InitInv == Init => IInv
  <1> SUFFICES ASSUME Init PROVE IInv
    OBVIOUS
  <1>1. TypeOK
    <2>1. call \in [Calls -> CallRec]
      BY IdleType DEF Init
    <2>2. /\ remaining \in 0 .. Total /\ epoch \in Epochs /\ 0 \in 0 .. MaxJobs
          /\ 0 \in 0 .. MaxFaults
      BY CapacityAssumption DEF Init
    <2>3. /\ spent \in [Epochs -> Nat] /\ unseen \in [Epochs -> Nat] /\ used \in [Epochs -> Nat]
          /\ flag \in [Workers -> BOOLEAN]
          /\ registry \in [Workers -> {"none", "pending", "fired"}]
          /\ \A w \in Workers : ~flag[w] /\ registry[w] = "none"
      BY DEF Init
    <2> QED BY <2>1, <2>2, <2>3 DEF Init, TypeOK
  <1>2. Shape
    BY DEF Init, Shape, CallShape, Idle, NewCall
  <1>3. ASSUME NEW w \in Workers PROVE Watched(w)
    BY DEF Init, Watched
  <1> QED BY <1>1, <1>2, <1>3 DEF IInv

(* Steps that change nothing. *)
LEMMA StutterInv == IInv /\ UNCHANGED vars => IInv'
  BY DEF IInv, TypeOK, Shape, CallShape, Watched, Pending, Rechecks, vars, chain, memory

(* The invariant is inductive: a process that has noted that capacity is exhausted always    *)
(* has a timeout pending or a call that will end in one, whatever its other calls do.        *)
THEOREM Inductive == Spec => []IInv
  <1>1. IInv /\ [Next]_vars => IInv'
    BY TypeStep, WatchStep, StutterInv DEF IInv, Watch
  <1> QED BY InitInv, <1>1, PTL DEF Spec

(* Every variable has its type, and only running processes have notes and timeouts. *)
THEOREM TypeCorrect == Spec => []TypeOK
  <1>1. IInv => TypeOK
    BY DEF IInv
  <1> QED BY Inductive, <1>1, PTL

(* handleCapacityExhausted notes the exhaustion before it pauses the queue and sets the    *)
(* timeout, and a second timeout under the same name throws: still no process keeps the    *)
(* note without a check to come.                                                           *)
THEOREM RecheckSafety == Spec => []RecheckIsPending
  <1>1. IInv => RecheckIsPending
    BY DEF IInv, TypeOK, Watched, Pending, Rechecks, RecheckIsPending
  <1> QED BY Inductive, <1>1, PTL
=============================================================================
