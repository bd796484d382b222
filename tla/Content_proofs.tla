---------------------------- MODULE Content_proofs ----------------------------
(* Theorems about Content, for any assets, requests, processes, limits and mishaps. *)
EXTENDS Content, TLAPS

(* Taken apart in every step. *)
USE ContentAssumption DEF Mishap, api, store, asset, request

-----------------------------------------------------------------------------
(* The inductive invariant. *)

(* What a process has in hand; checked, and then hashed, are assets that are pinned. *)
ProcShape(p) ==
    /\ proc[p].pc = "idle" => proc[p] = NoJob
    /\ proc[p].pc # "idle" => /\ proc[p].req \in Requests
                              /\ reqJob[proc[p].req] # "none"
    /\ proc[p].pc # "throw" => proc[p].tries <= 3
    /\ proc[p].pc = "check" =>
          Refs[proc[p].req] \subseteq pinned \cup proc[p].todo \cup proc[p].empty
    /\ proc[p].pc \in {"prepare", "announce"} => Refs[proc[p].req] \subseteq pinned

(* A lock belongs to a process that works on the request and has not moved it. *)
LockShape(r) == IF reqJob[r] = "active"
                THEN /\ owner[r] \in Procs
                     /\ proc[owner[r]].req = r
                     /\ proc[owner[r]].pc \notin {"idle", "update"}
                ELSE owner[r] = None

(* An asset that is still to be pinned has its data, and what can be referred to was given *)
(* its job.                                                                                *)
Pinnable(a) == a \in pinned \/ dataKey[a] = "long"
Begun(a) == a \in pinned \/ assetJob[a] # "none"

AssetShape(a) ==
    /\ assetJob[a] \in {"wait", "read", "pin", "finish"} =>
          tries[a] < AssetAttempts /\ Pinnable(a)
    /\ assetJob[a] = "finish" => a \in pinned
    /\ a \in completed => a \in pinned
    /\ dataKey[a] = "short" => a \in pinned
    /\ metaKey[a] # "none" => Begun(a)

UploadShape(u) ==
    /\ upload[u].pc = "idle" => upload[u] = NoUpload
    /\ upload[u].pc = "jobs" => \A a \in upload[u].files : Pinnable(a)
    /\ upload[u].pc = "meta" => \A a \in upload[u].files : Begun(a)

NoteShape(r) == notes[r] # <<>> => Len(notes[r]) = 1 /\ Refs[r] \subseteq pinned

Shape == /\ \A p \in Procs : ProcShape(p)
         /\ \A r \in Requests : LockShape(r) /\ NoteShape(r)
         /\ \A a \in Assets : AssetShape(a)
         /\ \A u \in Uploads : UploadShape(u)

(* The count that will be read is at most the mishaps behind the delays there were: a      *)
(* request that is taken before its count was written costs one, and so does each count    *)
(* that is written over a later one.                                                       *)
Writes(p, r) == proc[p].pc = "update" /\ proc[p].req = r

DelayShape(r) ==
    /\ reqJob[r] # "delayed" => delays[r] <= attempt[r] + faults
    /\ reqJob[r] = "delayed" => delays[r] <= attempt[r] + faults + 1
    /\ reqJob[r] = "delayed" /\ (\A p \in Procs : ~Writes(p, r)) =>
          delays[r] <= attempt[r] + faults
    /\ \A p \in Procs : Writes(p, r) =>
          IF reqJob[r] = "delayed" THEN delays[r] <= proc[p].tries + faults
                                   ELSE delays[r] + 1 <= proc[p].tries + faults
    /\ reqJob[r] = "active" =>
          /\ proc[owner[r]].pc = "check" => delays[r] <= proc[owner[r]].tries + faults
          /\ proc[owner[r]].pc = "delay" => delays[r] + 1 <= proc[owner[r]].tries + faults

Delays == \A r \in Requests : DelayShape(r)

IInv == TypeOK /\ Shape /\ Delays

-----------------------------------------------------------------------------
(* What the steps of a process make of the request in its hand. *)

Moves(p) == /\ proc' \in [Procs -> ProcRec]
            /\ \A q \in Procs : q # p => proc'[q] = proc[q]

(* No job has a job's type. *)
LEMMA NoJobType == NoJob \in ProcRec /\ NoJob.pc = "idle" /\ NoJob.req = None
  BY DEF NoJob, ProcRec

(* A step of one process. *)
LEMMA OneProc ==
  ASSUME TypeOK, NEW p \in Procs, NEW new \in ProcRec, proc' = [proc EXCEPT ![p] = new]
  PROVE  /\ Moves(p)
         /\ proc'[p] = new
  BY DEF TypeOK, Moves

(* It goes to another step of the handler. *)
LEMMA NextStep ==
  ASSUME TypeOK, NEW p \in Procs,
         NEW pc \in {"idle", "check", "delay", "update",
                    "prepare", "announce", "finish", "throw"},
         proc' = [proc EXCEPT ![p].pc = pc]
  PROVE  /\ Moves(p)
         /\ proc'[p].pc = pc /\ proc'[p].req = proc[p].req /\ proc'[p].tries = proc[p].tries
  <1> DEFINE new == [proc[p] EXCEPT !.pc = pc]
  <1>1. proc[p] \in ProcRec
    BY DEF TypeOK
  <1>2. /\ new \in ProcRec
        /\ new.pc = pc /\ new.req = proc[p].req /\ new.tries = proc[p].tries
    BY <1>1 DEF ProcRec
  <1>3. proc' = [proc EXCEPT ![p] = new]
    BY DEF TypeOK
  <1> QED BY <1>2, <1>3, OneProc

(* It has taken a request, with the count it read. *)
LEMMA TakeEffect ==
  ASSUME TypeOK, NEW p \in Procs, NEW r \in Requests, TakeRequest(p, r)
  PROVE  /\ Moves(p)
         /\ proc[p].pc = "idle"
         /\ proc'[p].pc = "check" /\ proc'[p].req = r /\ proc'[p].tries = attempt[r]
         /\ proc'[p].todo = Refs[r] /\ proc'[p].empty = {}
  <1> DEFINE new == [pc |-> "check", req |-> r, tries |-> attempt[r],
                     todo |-> Refs[r], empty |-> {}]
  <1>1. new \in ProcRec
    BY DEF ProcRec, TypeOK
  <1>2. proc' = [proc EXCEPT ![p] = new] /\ proc[p] = NoJob
    BY DEF TakeRequest
  <1>3. Moves(p) /\ proc'[p] = new
    BY <1>1, <1>2, OneProc
  <1> QED BY <1>2, <1>3, NoJobType

(* An asset is asked for: it is pinned, counted as empty, or the call throws. *)
LEMMA PinnedEffect ==
  ASSUME TypeOK, NEW p \in Procs, NEW a \in Assets, GetPinned(p, a)
  PROVE  /\ Moves(p)
         /\ proc'[p].req = proc[p].req /\ proc'[p].tries = proc[p].tries
         /\ \/ /\ proc'[p].pc = proc[p].pc
               /\ proc[p].todo \subseteq proc'[p].todo \cup {a}
               /\ proc[p].empty \subseteq proc'[p].empty
               /\ a \in pinned \cup proc'[p].empty
            \/ proc'[p].pc = "throw"
  <1>1. proc[p] \in ProcRec
    BY DEF TypeOK
  <1>2. ASSUME NEW missing \in SUBSET Assets
        PROVE  /\ Answered(p, a, missing) \in ProcRec
               /\ Answered(p, a, missing).pc = proc[p].pc
               /\ Answered(p, a, missing).req = proc[p].req
               /\ Answered(p, a, missing).tries = proc[p].tries
               /\ Answered(p, a, missing).todo = proc[p].todo \ {a}
               /\ Answered(p, a, missing).empty = proc[p].empty \cup missing
    BY <1>1 DEF Answered, ProcRec
  <1>3. CASE proc' = [proc EXCEPT ![p].pc = "throw"]
    BY <1>3, NextStep
  <1>4. ASSUME NEW missing \in {{a}, {a} \ pinned},
               proc' = [proc EXCEPT ![p] = Answered(p, a, missing)]
        PROVE  Moves(p) /\ proc'[p] = Answered(p, a, missing)
    BY <1>2, <1>4, OneProc
  <1> QED BY <1>2, <1>3, <1>4 DEF GetPinned

(* It goes on if nothing is missing, and delays the request at most three times. *)
LEMMA DecideEffect ==
  ASSUME TypeOK, NEW p \in Procs, Decide(p), proc[p].tries <= 3, proc[p].req \in Requests
  PROVE  /\ Moves(p)
         /\ proc[p].pc = "check" /\ proc[p].todo = {}
         /\ proc'[p].req = proc[p].req
         /\ \/ /\ proc'[p].pc = "prepare" /\ proc'[p].tries = proc[p].tries
               /\ proc[p].empty = {}
            \/ /\ proc'[p].pc = "delay" /\ proc'[p].tries = proc[p].tries + 1
               /\ proc'[p].tries <= 3
            \/ proc'[p].pc = "throw"
  <1>1. proc[p] \in ProcRec
    BY DEF TypeOK
  <1>2. CASE SomeAreMissing(p)
    <2>0. proc[p].tries \in 0 .. 3 /\ proc[p].tries + 1 \in 0 .. 4
      BY <1>1 DEF ProcRec
    <2>1. Postpone(p) \in ProcRec
      BY <1>1, <2>0 DEF Postpone, ProcRec
    <2>2. /\ Postpone(p).req = proc[p].req
          /\ \/ /\ Postpone(p).pc = "delay" /\ Postpone(p).tries = proc[p].tries + 1
                /\ Postpone(p).tries <= 3
             \/ Postpone(p).pc = "throw"
      BY <1>1 DEF Postpone, ProcRec
    <2> QED BY <1>2, <2>1, <2>2, OneProc DEF Decide
  <1>3. CASE ~SomeAreMissing(p)
    <2>1. Prepare(p) \in ProcRec
      BY <1>1 DEF Prepare, ProcRec
    <2>2. /\ Prepare(p).req = proc[p].req /\ Prepare(p).pc = "prepare"
          /\ Prepare(p).tries = proc[p].tries
      BY <1>1 DEF Prepare, ProcRec
    <2> QED BY <1>3, <2>1, <2>2, OneProc DEF Decide, SomeAreMissing
  <1> QED BY <1>2, <1>3

(* It has moved the request, if it still had the lock. *)
LEMMA MoveEffect ==
  ASSUME TypeOK, NEW p \in Procs, MoveToDelayed(p)
  PROVE  /\ Moves(p)
         /\ proc[p].pc = "delay"
         /\ IF Holds(p) THEN /\ proc'[p].pc = "update" /\ proc'[p].req = proc[p].req
                             /\ proc'[p].tries = proc[p].tries
                        ELSE proc'[p] = NoJob
  <1>1. proc[p] \in ProcRec
    BY DEF TypeOK
  <1>2. CASE Holds(p)
    <2> DEFINE new == [proc[p] EXCEPT !.pc = "update", !.empty = {}]
    <2>1. /\ new \in ProcRec
          /\ new.pc = "update" /\ new.req = proc[p].req /\ new.tries = proc[p].tries
      BY <1>1 DEF ProcRec
    <2>2. proc' = [proc EXCEPT ![p] = new]
      BY <1>1, <1>2 DEF MoveToDelayed, TypeOK
    <2> QED BY <1>2, <2>1, <2>2, OneProc DEF MoveToDelayed
  <1>3. CASE ~Holds(p)
    BY <1>3, NoJobType, OneProc DEF MoveToDelayed
  <1> QED BY <1>2, <1>3

-----------------------------------------------------------------------------
(* The types and shapes. *)

(* The other processes have in hand what they had. *)
LEMMA OthersKeepShape ==
  ASSUME Shape, NEW p \in Procs, Moves(p), ProcShape(p)', pinned \subseteq pinned',
         \A r \in Requests : reqJob[r] # "none" => reqJob'[r] # "none"
  PROVE  \A q \in Procs : ProcShape(q)'
  BY DEF Moves, Shape, ProcShape

(* It has let go of the request. *)
LEMMA Leaves ==
  ASSUME TypeOK, NEW p \in Procs, proc' = [proc EXCEPT ![p] = NoJob]
  PROVE  Moves(p) /\ proc'[p] = NoJob /\ ProcShape(p)'
  <1>1. Moves(p) /\ proc'[p] = NoJob
    BY NoJobType, OneProc
  <1>2. NoJob.tries = 0
    BY DEF NoJob
  <1> QED BY <1>1, <1>2, NoJobType DEF ProcShape

(* No lock changes hands. *)
LEMMA LocksKept ==
  ASSUME Shape, NEW p \in Procs, Moves(p), UNCHANGED <<reqJob, owner>>,
         Holds(p) => proc'[p].req = proc[p].req /\ proc'[p].pc \notin {"idle", "update"}
  PROVE  \A r \in Requests : LockShape(r)'
  BY DEF Moves, Shape, LockShape, Holds

(* A process gives back the lock it holds. *)
LEMMA LockReleased ==
  ASSUME TypeOK, Shape, NEW p \in Procs, Moves(p), Holds(p), proc[p].req \in Requests,
         NEW what, what # "active",
         reqJob' = [reqJob EXCEPT ![proc[p].req] = what],
         owner' = [owner EXCEPT ![proc[p].req] = None]
  PROVE  \A r \in Requests : LockShape(r)'
  <1> SUFFICES ASSUME NEW r \in Requests PROVE LockShape(r)'
    OBVIOUS
  <1>1. LockShape(r)
    BY DEF Shape
  <1>2. CASE r = proc[p].req
    <2>1. owner[r] = p /\ reqJob[r] = "active"
      BY <1>1, <1>2 DEF Holds, LockShape
    <2>2. reqJob'[r] = what
      BY <1>2 DEF TypeOK
    <2>3. owner'[r] = None
      BY <1>2 DEF TypeOK
    <2> QED BY <2>2, <2>3 DEF LockShape
  <1>3. CASE r # proc[p].req
    <2>1. reqJob'[r] = reqJob[r] /\ owner'[r] = owner[r] /\ owner[r] # p
      BY <1>1, <1>3 DEF TypeOK, LockShape
    <2> QED BY <1>1, <2>1 DEF Moves, LockShape
  <1> QED BY <1>2, <1>3

(* What processes have in hand still fits. *)
LEMMA ProcShapeStep ==
  ASSUME TypeOK, Shape, Next
  PROVE  (\A q \in Procs : ProcShape(q))'
  <1> DEFINE Goal == (\A q \in Procs : ProcShape(q))'
  <1>1. ASSUME NEW u \in Uploads, NEW files \in SUBSET Assets, StoreData(u, files) PROVE Goal
    BY <1>1 DEF StoreData, Long, After, TypeOK, Shape, ProcShape, LockShape, NoJob
  <1>2. ASSUME NEW u \in Uploads, AddJobs(u) PROVE Goal
    BY <1>2 DEF AddJobs, Goto, After, TypeOK, Shape, ProcShape, LockShape, NoJob
  <1>3. ASSUME NEW u \in Uploads, StoreMetadata(u) PROVE Goal
    BY <1>3 DEF StoreMetadata, Goto, After, Long, TypeOK, Shape, ProcShape, LockShape, NoJob
  <1>4. ASSUME NEW u \in Uploads, UploadFails(u) PROVE Goal
    BY <1>4 DEF UploadFails, Goto, TypeOK, Shape, ProcShape, LockShape, NoJob
  <1>5. ASSUME NEW a \in Assets, TakeAsset(a) PROVE Goal
    BY <1>5 DEF TakeAsset, TypeOK, Shape, ProcShape, LockShape, NoJob
  <1>6. ASSUME NEW a \in Assets, ReadData(a) PROVE Goal
    BY <1>6 DEF ReadData, AttemptThrows, TypeOK, Shape, ProcShape, LockShape, NoJob
  <1>7. ASSUME NEW a \in Assets, Pin(a) PROVE Goal
    BY <1>7 DEF Pin, TypeOK, Shape, ProcShape, LockShape, NoJob
  <1>8. ASSUME NEW a \in Assets, FinishAsset(a) PROVE Goal
    BY <1>8 DEF FinishAsset, TypeOK, Shape, ProcShape, LockShape, NoJob
  <1>9. ASSUME NEW a \in Assets, PinThrows(a) PROVE Goal
    BY <1>9 DEF PinThrows, AttemptThrows, TypeOK, Shape, ProcShape, LockShape, NoJob
  <1>10. ASSUME NEW a \in Assets, OnCompleted(a) PROVE Goal
    BY <1>10 DEF OnCompleted, ShortLives, TypeOK, Shape, ProcShape, LockShape, NoJob
  <1>11. ASSUME NEW a \in Assets, AssetCrash(a) PROVE Goal
    BY <1>11 DEF AssetCrash, TypeOK, Shape, ProcShape, LockShape, NoJob
  <1>12. ASSUME NEW a \in Assets, Expire(a) PROVE Goal
    BY <1>12 DEF Expire, Ends, TypeOK, Shape, ProcShape, LockShape, NoJob
  <1>13. ASSUME NEW r \in Requests, Validate(r) PROVE Goal
    BY <1>13 DEF Validate, TypeOK, Shape, ProcShape, LockShape, NoJob
  <1>14. ASSUME NEW r \in Requests, Enqueue(r) PROVE Goal
    BY <1>14 DEF Enqueue, TypeOK, Shape, ProcShape, LockShape, NoJob
  <1>15. ASSUME NEW r \in Requests, EnqueueFails(r) PROVE Goal
    BY <1>15 DEF EnqueueFails, TypeOK, Shape, ProcShape, LockShape, NoJob
  <1>16. ASSUME NEW r \in Requests, Evict(r) PROVE Goal
    BY <1>16 DEF Evict, TypeOK, Shape, ProcShape, LockShape, NoJob
  <1>17. ASSUME NEW r \in Requests, Promote(r) PROVE Goal
    BY <1>17 DEF Promote, TypeOK, Shape, ProcShape, LockShape, NoJob
  <1>18. ASSUME NEW p \in Procs, NEW r \in Requests, TakeRequest(p, r) PROVE Goal
    <2>0. pinned' = pinned /\ reqJob' = [reqJob EXCEPT ![r] = "active"]
      BY <1>18 DEF TakeRequest
    <2>1. reqJob'[r] = "active" /\ \A s \in Requests : reqJob[s] # "none" => reqJob'[s] # "none"
      BY <2>0 DEF TypeOK
    <2>2. /\ Moves(p) /\ proc'[p].pc = "check" /\ proc'[p].req = r
          /\ proc'[p].tries \in 0 .. 3 /\ proc'[p].todo = Refs[r]
      BY <1>18, TakeEffect DEF TypeOK
    <2>3. ProcShape(p)'
      BY <2>1, <2>2 DEF ProcShape
    <2> QED BY <2>0, <2>1, <2>2, <2>3, OthersKeepShape
  <1>19. ASSUME NEW p \in Procs, NEW a \in Assets, Check(p, a) PROVE Goal
    <2>1. pinned' = pinned /\ \A s \in Requests : reqJob[s] # "none" => reqJob'[s] # "none"
      BY <1>19 DEF Check, TypeOK
    <2>2. Moves(p) /\ ProcShape(p)'
      BY <1>19, <2>1, PinnedEffect DEF Check, Shape, ProcShape
    <2> QED BY <2>1, <2>2, OthersKeepShape
  <1>20. ASSUME NEW p \in Procs, NEW a \in Assets, HashAttachment(p, a) PROVE Goal
    <2>1. pinned' = pinned /\ \A s \in Requests : reqJob[s] # "none" => reqJob'[s] # "none"
      BY <1>20 DEF HashAttachment, TypeOK
    <2>2. Moves(p) /\ ProcShape(p)'
      BY <1>20, <2>1, PinnedEffect DEF HashAttachment, Shape, ProcShape
    <2> QED BY <2>1, <2>2, OthersKeepShape
  <1>21. ASSUME NEW p \in Procs, Decide(p) PROVE Goal
    <2>1. pinned' = pinned /\ \A s \in Requests : reqJob[s] # "none" => reqJob'[s] # "none"
      BY <1>21 DEF Decide, TypeOK
    <2>2. Moves(p) /\ ProcShape(p)'
      BY <1>21, <2>1, DecideEffect DEF Decide, Shape, ProcShape
    <2> QED BY <2>1, <2>2, OthersKeepShape
  <1>22. ASSUME NEW p \in Procs, MoveToDelayed(p) PROVE Goal
    <2>1. pinned' = pinned /\ \A s \in Requests : reqJob[s] # "none" => reqJob'[s] # "none"
      BY <1>22 DEF MoveToDelayed, TypeOK
    <2>2. Moves(p) /\ proc[p].pc = "delay" /\ ProcShape(p)
      BY <1>22, MoveEffect DEF Shape
    <2>3. CASE Holds(p)
      <3>1. /\ proc'[p].pc = "update" /\ proc'[p].req = proc[p].req
            /\ proc'[p].tries = proc[p].tries
        BY <1>22, <2>3, MoveEffect
      <3>2. ProcShape(p)'
        BY <2>1, <2>2, <3>1 DEF ProcShape
      <3> QED BY <2>1, <2>2, <3>2, OthersKeepShape
    <2>4. CASE ~Holds(p)
      <3>1. ProcShape(p)'
        BY <1>22, <2>4, Leaves DEF MoveToDelayed
      <3> QED BY <2>1, <2>2, <3>1, OthersKeepShape
    <2> QED BY <2>3, <2>4
  <1>23. ASSUME NEW p \in Procs, UpdateData(p) PROVE Goal
    <2>1. pinned' = pinned /\ \A s \in Requests : reqJob[s] # "none" => reqJob'[s] # "none"
      BY <1>23 DEF UpdateData, TypeOK
    <2>2. Moves(p) /\ ProcShape(p)'
      BY <1>23, <2>1, Leaves DEF UpdateData
    <2> QED BY <2>1, <2>2, OthersKeepShape
  <1>24. ASSUME NEW p \in Procs, PinNote(p) PROVE Goal
    <2>1. PICK pc \in {"announce", "throw"} : proc' = [proc EXCEPT ![p].pc = pc]
      BY <1>24 DEF PinNote
    <2>2. /\ Moves(p) /\ proc'[p].pc = pc /\ proc'[p].req = proc[p].req
          /\ proc'[p].tries = proc[p].tries
      BY <2>1, NextStep
    <2>3. pinned' = pinned /\ reqJob' = reqJob /\ proc[p].pc = "prepare"
      BY <1>24 DEF PinNote
    <2>4. ProcShape(p)'
      BY <2>1, <2>2, <2>3 DEF Shape, ProcShape
    <2> QED BY <2>2, <2>3, <2>4, OthersKeepShape
  <1>25. ASSUME NEW p \in Procs, Announce(p) PROVE Goal
    <2>1. proc' = [proc EXCEPT ![p].pc = "finish"]
      BY <1>25 DEF Announce
    <2>2. /\ Moves(p) /\ proc'[p].pc = "finish" /\ proc'[p].req = proc[p].req
          /\ proc'[p].tries = proc[p].tries
      BY <2>1, NextStep
    <2>3. pinned' = pinned /\ reqJob' = reqJob /\ proc[p].pc = "announce"
      BY <1>25 DEF Announce
    <2>4. ProcShape(p)'
      BY <2>2, <2>3 DEF Shape, ProcShape
    <2> QED BY <2>2, <2>3, <2>4, OthersKeepShape
  <1>26. ASSUME NEW p \in Procs, FinishRequest(p) PROVE Goal
    <2>1. pinned' = pinned /\ \A s \in Requests : reqJob[s] # "none" => reqJob'[s] # "none"
      BY <1>26 DEF FinishRequest, Holds, TypeOK
    <2>2. Moves(p) /\ ProcShape(p)'
      BY <1>26, <2>1, Leaves DEF FinishRequest
    <2> QED BY <2>1, <2>2, OthersKeepShape
  <1>27. ASSUME NEW p \in Procs, ProcCrash(p) PROVE Goal
    <2>1. pinned' = pinned /\ \A s \in Requests : reqJob[s] # "none" => reqJob'[s] # "none"
      BY <1>27 DEF ProcCrash, Holds, Stalls, TypeOK
    <2>2. Moves(p) /\ ProcShape(p)'
      BY <1>27, <2>1, Leaves DEF ProcCrash
    <2> QED BY <2>1, <2>2, OthersKeepShape
  <1>28. ASSUME NEW p \in Procs, LockLost(p) PROVE Goal
    BY <1>28 DEF LockLost, Holds, Stalls, TypeOK, Shape, ProcShape, LockShape, NoJob
  <1> QED
    BY <1>1, <1>2, <1>3, <1>4, <1>5, <1>6, <1>7, <1>8, <1>9, <1>10, <1>11, <1>12,
       <1>13, <1>14, <1>15, <1>16, <1>17, <1>18, <1>19, <1>20, <1>21, <1>22, <1>23, <1>24,
       <1>25, <1>26, <1>27, <1>28
       DEF Next, UploadStep, AssetStep, ProcStep

(* Locks still belong to processes that work on the request. *)
LEMMA LockShapeStep ==
  ASSUME TypeOK, Shape, Next
  PROVE  (\A s \in Requests : LockShape(s))'
  <1> DEFINE Goal == (\A s \in Requests : LockShape(s))'
  <1>1. ASSUME NEW u \in Uploads, NEW files \in SUBSET Assets, StoreData(u, files) PROVE Goal
    BY <1>1 DEF StoreData, Long, After, TypeOK, Shape, LockShape
  <1>2. ASSUME NEW u \in Uploads, AddJobs(u) PROVE Goal
    BY <1>2 DEF AddJobs, Goto, After, TypeOK, Shape, LockShape
  <1>3. ASSUME NEW u \in Uploads, StoreMetadata(u) PROVE Goal
    BY <1>3 DEF StoreMetadata, Goto, After, Long, TypeOK, Shape, LockShape
  <1>4. ASSUME NEW u \in Uploads, UploadFails(u) PROVE Goal
    BY <1>4 DEF UploadFails, Goto, TypeOK, Shape, LockShape
  <1>5. ASSUME NEW a \in Assets, TakeAsset(a) PROVE Goal
    BY <1>5 DEF TakeAsset, TypeOK, Shape, LockShape
  <1>6. ASSUME NEW a \in Assets, ReadData(a) PROVE Goal
    BY <1>6 DEF ReadData, AttemptThrows, TypeOK, Shape, LockShape
  <1>7. ASSUME NEW a \in Assets, Pin(a) PROVE Goal
    BY <1>7 DEF Pin, TypeOK, Shape, LockShape
  <1>8. ASSUME NEW a \in Assets, FinishAsset(a) PROVE Goal
    BY <1>8 DEF FinishAsset, TypeOK, Shape, LockShape
  <1>9. ASSUME NEW a \in Assets, PinThrows(a) PROVE Goal
    BY <1>9 DEF PinThrows, AttemptThrows, TypeOK, Shape, LockShape
  <1>10. ASSUME NEW a \in Assets, OnCompleted(a) PROVE Goal
    BY <1>10 DEF OnCompleted, ShortLives, TypeOK, Shape, LockShape
  <1>11. ASSUME NEW a \in Assets, AssetCrash(a) PROVE Goal
    BY <1>11 DEF AssetCrash, TypeOK, Shape, LockShape
  <1>12. ASSUME NEW a \in Assets, Expire(a) PROVE Goal
    BY <1>12 DEF Expire, Ends, TypeOK, Shape, LockShape
  <1>13. ASSUME NEW r \in Requests, Validate(r) PROVE Goal
    BY <1>13 DEF Validate, TypeOK, Shape, LockShape
  <1>14. ASSUME NEW r \in Requests, Enqueue(r) PROVE Goal
    BY <1>14 DEF Enqueue, TypeOK, Shape, LockShape
  <1>15. ASSUME NEW r \in Requests, EnqueueFails(r) PROVE Goal
    BY <1>15 DEF EnqueueFails, TypeOK, Shape, LockShape
  <1>16. ASSUME NEW r \in Requests, Evict(r) PROVE Goal
    BY <1>16 DEF Evict, TypeOK, Shape, LockShape
  <1>17. ASSUME NEW r \in Requests, Promote(r) PROVE Goal
    BY <1>17 DEF Promote, TypeOK, Shape, LockShape
  <1>18. ASSUME NEW p \in Procs, NEW r \in Requests, TakeRequest(p, r) PROVE Goal
    <2>1. Moves(p) /\ proc[p].pc = "idle" /\ proc'[p].pc = "check" /\ proc'[p].req = r
      BY <1>18, TakeEffect
    <2>2. reqJob' = [reqJob EXCEPT ![r] = "active"] /\ owner' = [owner EXCEPT ![r] = p]
          /\ reqJob[r] = "wait"
      BY <1>18 DEF TakeRequest
    <2>3. LockShape(r)'
      BY <2>1, <2>2 DEF TypeOK, LockShape
    <2>4. ASSUME NEW s \in Requests, s # r PROVE LockShape(s)'
      <3>1. LockShape(s) /\ reqJob'[s] = reqJob[s] /\ owner'[s] = owner[s]
        BY <2>2, <2>4 DEF TypeOK, Shape
      <3>2. reqJob[s] = "active" => owner[s] # p
        BY <2>1, <3>1 DEF LockShape
      <3> QED BY <2>1, <3>1, <3>2 DEF Moves, LockShape
    <2> QED BY <2>3, <2>4
  <1>19. ASSUME NEW p \in Procs, NEW a \in Assets, Check(p, a) PROVE Goal
    <2>1. Moves(p) /\ proc'[p].req = proc[p].req /\ proc'[p].pc \notin {"idle", "update"}
      BY <1>19, PinnedEffect DEF Check, Shape, ProcShape
    <2> QED BY <1>19, <2>1, LocksKept DEF Check
  <1>20. ASSUME NEW p \in Procs, NEW a \in Assets, HashAttachment(p, a) PROVE Goal
    <2>1. Moves(p) /\ proc'[p].req = proc[p].req /\ proc'[p].pc \notin {"idle", "update"}
      BY <1>20, PinnedEffect DEF HashAttachment, Shape, ProcShape
    <2> QED BY <1>20, <2>1, LocksKept DEF HashAttachment
  <1>21. ASSUME NEW p \in Procs, Decide(p) PROVE Goal
    <2>1. Moves(p) /\ proc'[p].req = proc[p].req /\ proc'[p].pc \notin {"idle", "update"}
      BY <1>21, DecideEffect DEF Decide, Shape, ProcShape
    <2> QED BY <1>21, <2>1, LocksKept DEF Decide
  <1>22. ASSUME NEW p \in Procs, MoveToDelayed(p) PROVE Goal
    <2>1. Moves(p) /\ proc[p].req \in Requests
      BY <1>22, MoveEffect DEF Shape, ProcShape
    <2>2. CASE Holds(p)
      BY <1>22, <2>1, <2>2, LockReleased DEF MoveToDelayed
    <2>3. CASE ~Holds(p)
      BY <1>22, <2>1, <2>3, LocksKept DEF MoveToDelayed
    <2> QED BY <2>2, <2>3
  <1>23. ASSUME NEW p \in Procs, UpdateData(p) PROVE Goal
    <2>1. Moves(p) /\ proc[p].req \in Requests /\ proc[p].pc = "update"
      BY <1>23, Leaves DEF UpdateData, Shape, ProcShape
    <2>2. LockShape(proc[p].req)
      BY <2>1 DEF Shape
    <2>3. ~Holds(p)
      BY <2>1, <2>2 DEF LockShape, Holds
    <2> QED BY <1>23, <2>1, <2>3, LocksKept DEF UpdateData
  <1>24. ASSUME NEW p \in Procs, PinNote(p) PROVE Goal
    <2>1. Moves(p) /\ proc'[p].req = proc[p].req /\ proc'[p].pc \notin {"idle", "update"}
      BY <1>24, NextStep DEF PinNote, Shape, ProcShape
    <2> QED BY <1>24, <2>1, LocksKept DEF PinNote
  <1>25. ASSUME NEW p \in Procs, Announce(p) PROVE Goal
    <2>1. Moves(p) /\ proc'[p].req = proc[p].req /\ proc'[p].pc \notin {"idle", "update"}
      BY <1>25, NextStep DEF Announce, Shape, ProcShape
    <2> QED BY <1>25, <2>1, LocksKept DEF Announce
  <1>26. ASSUME NEW p \in Procs, FinishRequest(p) PROVE Goal
    <2>1. Moves(p) /\ proc[p].req \in Requests
      BY <1>26, Leaves DEF FinishRequest, Shape, ProcShape
    <2>2. CASE Holds(p)
      BY <1>26, <2>1, <2>2, LockReleased DEF FinishRequest
    <2>3. CASE ~Holds(p)
      BY <1>26, <2>1, <2>3, LocksKept DEF FinishRequest
    <2> QED BY <2>2, <2>3
  <1>27. ASSUME NEW p \in Procs, ProcCrash(p) PROVE Goal
    <2>1. Moves(p) /\ proc[p].req \in Requests
      BY <1>27, Leaves DEF ProcCrash, Shape, ProcShape
    <2>2. CASE Holds(p)
      BY <1>27, <2>1, <2>2, LockReleased DEF ProcCrash, Stalls
    <2>3. CASE ~Holds(p)
      BY <1>27, <2>1, <2>3, LocksKept DEF ProcCrash
    <2> QED BY <2>2, <2>3
  <1>28. ASSUME NEW p \in Procs, LockLost(p) PROVE Goal
    <2>1. Moves(p) /\ proc[p].req \in Requests
      BY <1>28 DEF LockLost, TypeOK, Moves, Shape, ProcShape
    <2> QED BY <1>28, <2>1, LockReleased DEF LockLost, Stalls
  <1> QED
    BY <1>1, <1>2, <1>3, <1>4, <1>5, <1>6, <1>7, <1>8, <1>9, <1>10, <1>11, <1>12,
       <1>13, <1>14, <1>15, <1>16, <1>17, <1>18, <1>19, <1>20, <1>21, <1>22, <1>23, <1>24,
       <1>25, <1>26, <1>27, <1>28
       DEF Next, UploadStep, AssetStep, ProcStep

(* A request is still announced once, with its assets pinned. *)
LEMMA NoteShapeStep ==
  ASSUME TypeOK, Shape, Next
  PROVE  (\A s \in Requests : NoteShape(s))'
  <1> DEFINE Goal == (\A s \in Requests : NoteShape(s))'
  <1> USE DEF TypeOK, Shape, ProcShape, NoteShape
  <1>1. ASSUME NEW u \in Uploads, NEW files \in SUBSET Assets, StoreData(u, files) PROVE Goal
    BY <1>1 DEF StoreData, Long, After
  <1>2. ASSUME NEW u \in Uploads, AddJobs(u) PROVE Goal
    BY <1>2 DEF AddJobs, Goto, After
  <1>3. ASSUME NEW u \in Uploads, StoreMetadata(u) PROVE Goal
    BY <1>3 DEF StoreMetadata, Goto, After, Long
  <1>4. ASSUME NEW u \in Uploads, UploadFails(u) PROVE Goal
    BY <1>4 DEF UploadFails, Goto
  <1>5. ASSUME NEW a \in Assets, TakeAsset(a) PROVE Goal
    BY <1>5 DEF TakeAsset
  <1>6. ASSUME NEW a \in Assets, ReadData(a) PROVE Goal
    BY <1>6 DEF ReadData, AttemptThrows
  <1>7. ASSUME NEW a \in Assets, Pin(a) PROVE Goal
    BY <1>7 DEF Pin
  <1>8. ASSUME NEW a \in Assets, FinishAsset(a) PROVE Goal
    BY <1>8 DEF FinishAsset
  <1>9. ASSUME NEW a \in Assets, PinThrows(a) PROVE Goal
    BY <1>9 DEF PinThrows, AttemptThrows
  <1>10. ASSUME NEW a \in Assets, OnCompleted(a) PROVE Goal
    BY <1>10 DEF OnCompleted, ShortLives
  <1>11. ASSUME NEW a \in Assets, AssetCrash(a) PROVE Goal
    BY <1>11 DEF AssetCrash
  <1>12. ASSUME NEW a \in Assets, Expire(a) PROVE Goal
    BY <1>12 DEF Expire, Ends
  <1>13. ASSUME NEW r \in Requests, Validate(r) PROVE Goal
    BY <1>13 DEF Validate
  <1>14. ASSUME NEW r \in Requests, Enqueue(r) PROVE Goal
    BY <1>14 DEF Enqueue
  <1>15. ASSUME NEW r \in Requests, EnqueueFails(r) PROVE Goal
    BY <1>15 DEF EnqueueFails
  <1>16. ASSUME NEW r \in Requests, Evict(r) PROVE Goal
    <2>1. ASSUME NEW s \in Requests PROVE notes'[s] \in {notes[s], <<>>} /\ pinned' = pinned
      BY <1>16 DEF Evict
    <2> QED BY <2>1
  <1>17. ASSUME NEW r \in Requests, Promote(r) PROVE Goal
    BY <1>17 DEF Promote
  <1>18. ASSUME NEW p \in Procs, NEW r \in Requests, TakeRequest(p, r) PROVE Goal
    BY <1>18 DEF TakeRequest
  <1>19. ASSUME NEW p \in Procs, NEW a \in Assets, Check(p, a) PROVE Goal
    BY <1>19 DEF Check
  <1>20. ASSUME NEW p \in Procs, NEW a \in Assets, HashAttachment(p, a) PROVE Goal
    BY <1>20 DEF HashAttachment
  <1>21. ASSUME NEW p \in Procs, Decide(p) PROVE Goal
    BY <1>21 DEF Decide, SomeAreMissing, Postpone, Prepare
  <1>22. ASSUME NEW p \in Procs, MoveToDelayed(p) PROVE Goal
    BY <1>22 DEF MoveToDelayed, Holds, OneMore
  <1>23. ASSUME NEW p \in Procs, UpdateData(p) PROVE Goal
    BY <1>23 DEF UpdateData
  <1>24. ASSUME NEW p \in Procs, PinNote(p) PROVE Goal
    BY <1>24 DEF PinNote
  <1>25. ASSUME NEW p \in Procs, Announce(p) PROVE Goal
    BY <1>25 DEF Announce, Added
  <1>26. ASSUME NEW p \in Procs, FinishRequest(p) PROVE Goal
    BY <1>26 DEF FinishRequest, Holds
  <1>27. ASSUME NEW p \in Procs, ProcCrash(p) PROVE Goal
    BY <1>27 DEF ProcCrash, Holds, Stalls
  <1>28. ASSUME NEW p \in Procs, LockLost(p) PROVE Goal
    BY <1>28 DEF LockLost, Holds, Stalls
  <1> QED
    BY <1>1, <1>2, <1>3, <1>4, <1>5, <1>6, <1>7, <1>8, <1>9, <1>10, <1>11, <1>12,
       <1>13, <1>14, <1>15, <1>16, <1>17, <1>18, <1>19, <1>20, <1>21, <1>22, <1>23, <1>24,
       <1>25, <1>26, <1>27, <1>28
       DEF Next, UploadStep, AssetStep, ProcStep

(* An asset that is to be pinned still has its data. *)
LEMMA AssetShapeStep ==
  ASSUME TypeOK, Shape, Next
  PROVE  (\A b \in Assets : AssetShape(b))'
  <1> DEFINE Goal == (\A b \in Assets : AssetShape(b))'
  <1> USE DEF UploadRec, NoUpload, KeyStates, TypeOK, Shape, AssetShape, UploadShape,
              Pinnable, Begun
  <1>1. ASSUME NEW u \in Uploads, NEW files \in SUBSET Assets, StoreData(u, files) PROVE Goal
    BY <1>1 DEF StoreData, Long, After
  <1>2. ASSUME NEW u \in Uploads, AddJobs(u) PROVE Goal
    BY <1>2 DEF AddJobs, Goto, After
  <1>3. ASSUME NEW u \in Uploads, StoreMetadata(u) PROVE Goal
    BY <1>3 DEF StoreMetadata, Goto, After, Long
  <1>4. ASSUME NEW u \in Uploads, UploadFails(u) PROVE Goal
    BY <1>4 DEF UploadFails, Goto
  <1>5. ASSUME NEW a \in Assets, TakeAsset(a) PROVE Goal
    BY <1>5 DEF TakeAsset
  <1>6. ASSUME NEW a \in Assets, ReadData(a) PROVE Goal
    BY <1>6 DEF ReadData, AttemptThrows
  <1>7. ASSUME NEW a \in Assets, Pin(a) PROVE Goal
    BY <1>7 DEF Pin
  <1>8. ASSUME NEW a \in Assets, FinishAsset(a) PROVE Goal
    BY <1>8 DEF FinishAsset
  <1>9. ASSUME NEW a \in Assets, PinThrows(a) PROVE Goal
    BY <1>9 DEF PinThrows, AttemptThrows
  <1>10. ASSUME NEW a \in Assets, OnCompleted(a) PROVE Goal
    BY <1>10 DEF OnCompleted, ShortLives
  <1>11. ASSUME NEW a \in Assets, AssetCrash(a) PROVE Goal
    BY <1>11 DEF AssetCrash
  <1>12. ASSUME NEW a \in Assets, Expire(a) PROVE Goal
    BY <1>12 DEF Expire, Ends
  <1>13. ASSUME NEW r \in Requests, Validate(r) PROVE Goal
    BY <1>13 DEF Validate
  <1>14. ASSUME NEW r \in Requests, Enqueue(r) PROVE Goal
    BY <1>14 DEF Enqueue
  <1>15. ASSUME NEW r \in Requests, EnqueueFails(r) PROVE Goal
    BY <1>15 DEF EnqueueFails
  <1>16. ASSUME NEW r \in Requests, Evict(r) PROVE Goal
    BY <1>16 DEF Evict
  <1>17. ASSUME NEW r \in Requests, Promote(r) PROVE Goal
    BY <1>17 DEF Promote
  <1>18. ASSUME NEW p \in Procs, NEW r \in Requests, TakeRequest(p, r) PROVE Goal
    BY <1>18 DEF TakeRequest
  <1>19. ASSUME NEW p \in Procs, NEW a \in Assets, Check(p, a) PROVE Goal
    BY <1>19 DEF Check, GetPinned
  <1>20. ASSUME NEW p \in Procs, NEW a \in Assets, HashAttachment(p, a) PROVE Goal
    BY <1>20 DEF HashAttachment, GetPinned
  <1>21. ASSUME NEW p \in Procs, Decide(p) PROVE Goal
    BY <1>21 DEF Decide, SomeAreMissing, Postpone, Prepare
  <1>22. ASSUME NEW p \in Procs, MoveToDelayed(p) PROVE Goal
    BY <1>22 DEF MoveToDelayed, Holds, OneMore
  <1>23. ASSUME NEW p \in Procs, UpdateData(p) PROVE Goal
    BY <1>23 DEF UpdateData
  <1>24. ASSUME NEW p \in Procs, PinNote(p) PROVE Goal
    BY <1>24 DEF PinNote
  <1>25. ASSUME NEW p \in Procs, Announce(p) PROVE Goal
    BY <1>25 DEF Announce, Added
  <1>26. ASSUME NEW p \in Procs, FinishRequest(p) PROVE Goal
    BY <1>26 DEF FinishRequest, Holds
  <1>27. ASSUME NEW p \in Procs, ProcCrash(p) PROVE Goal
    BY <1>27 DEF ProcCrash, Holds, Stalls
  <1>28. ASSUME NEW p \in Procs, LockLost(p) PROVE Goal
    BY <1>28 DEF LockLost, Holds, Stalls
  <1> QED
    BY <1>1, <1>2, <1>3, <1>4, <1>5, <1>6, <1>7, <1>8, <1>9, <1>10, <1>11, <1>12,
       <1>13, <1>14, <1>15, <1>16, <1>17, <1>18, <1>19, <1>20, <1>21, <1>22, <1>23, <1>24,
       <1>25, <1>26, <1>27, <1>28
       DEF Next, UploadStep, AssetStep, ProcStep

(* An upload has still stored what its step relies on. *)
LEMMA UploadShapeStep ==
  ASSUME TypeOK, Shape, Next
  PROVE  (\A v \in Uploads : UploadShape(v))'
  <1> DEFINE Goal == (\A v \in Uploads : UploadShape(v))'
  <1> USE DEF UploadRec, NoUpload, KeyStates, TypeOK, Shape, AssetShape, UploadShape,
              Pinnable, Begun
  <1>1. ASSUME NEW u \in Uploads, NEW files \in SUBSET Assets, StoreData(u, files) PROVE Goal
    BY <1>1 DEF StoreData, Long, After
  <1>2. ASSUME NEW u \in Uploads, AddJobs(u) PROVE Goal
    BY <1>2 DEF AddJobs, Goto, After
  <1>3. ASSUME NEW u \in Uploads, StoreMetadata(u) PROVE Goal
    BY <1>3 DEF StoreMetadata, Goto, After, Long
  <1>4. ASSUME NEW u \in Uploads, UploadFails(u) PROVE Goal
    BY <1>4 DEF UploadFails, Goto
  <1>5. ASSUME NEW a \in Assets, TakeAsset(a) PROVE Goal
    BY <1>5 DEF TakeAsset
  <1>6. ASSUME NEW a \in Assets, ReadData(a) PROVE Goal
    BY <1>6 DEF ReadData, AttemptThrows
  <1>7. ASSUME NEW a \in Assets, Pin(a) PROVE Goal
    BY <1>7 DEF Pin
  <1>8. ASSUME NEW a \in Assets, FinishAsset(a) PROVE Goal
    BY <1>8 DEF FinishAsset
  <1>9. ASSUME NEW a \in Assets, PinThrows(a) PROVE Goal
    BY <1>9 DEF PinThrows, AttemptThrows
  <1>10. ASSUME NEW a \in Assets, OnCompleted(a) PROVE Goal
    BY <1>10 DEF OnCompleted, ShortLives
  <1>11. ASSUME NEW a \in Assets, AssetCrash(a) PROVE Goal
    BY <1>11 DEF AssetCrash
  <1>12. ASSUME NEW a \in Assets, Expire(a) PROVE Goal
    BY <1>12 DEF Expire, Ends
  <1>13. ASSUME NEW r \in Requests, Validate(r) PROVE Goal
    BY <1>13 DEF Validate
  <1>14. ASSUME NEW r \in Requests, Enqueue(r) PROVE Goal
    BY <1>14 DEF Enqueue
  <1>15. ASSUME NEW r \in Requests, EnqueueFails(r) PROVE Goal
    BY <1>15 DEF EnqueueFails
  <1>16. ASSUME NEW r \in Requests, Evict(r) PROVE Goal
    BY <1>16 DEF Evict
  <1>17. ASSUME NEW r \in Requests, Promote(r) PROVE Goal
    BY <1>17 DEF Promote
  <1>18. ASSUME NEW p \in Procs, NEW r \in Requests, TakeRequest(p, r) PROVE Goal
    BY <1>18 DEF TakeRequest
  <1>19. ASSUME NEW p \in Procs, NEW a \in Assets, Check(p, a) PROVE Goal
    BY <1>19 DEF Check, GetPinned
  <1>20. ASSUME NEW p \in Procs, NEW a \in Assets, HashAttachment(p, a) PROVE Goal
    BY <1>20 DEF HashAttachment, GetPinned
  <1>21. ASSUME NEW p \in Procs, Decide(p) PROVE Goal
    BY <1>21 DEF Decide, SomeAreMissing, Postpone, Prepare
  <1>22. ASSUME NEW p \in Procs, MoveToDelayed(p) PROVE Goal
    BY <1>22 DEF MoveToDelayed, Holds, OneMore
  <1>23. ASSUME NEW p \in Procs, UpdateData(p) PROVE Goal
    BY <1>23 DEF UpdateData
  <1>24. ASSUME NEW p \in Procs, PinNote(p) PROVE Goal
    BY <1>24 DEF PinNote
  <1>25. ASSUME NEW p \in Procs, Announce(p) PROVE Goal
    BY <1>25 DEF Announce, Added
  <1>26. ASSUME NEW p \in Procs, FinishRequest(p) PROVE Goal
    BY <1>26 DEF FinishRequest, Holds
  <1>27. ASSUME NEW p \in Procs, ProcCrash(p) PROVE Goal
    BY <1>27 DEF ProcCrash, Holds, Stalls
  <1>28. ASSUME NEW p \in Procs, LockLost(p) PROVE Goal
    BY <1>28 DEF LockLost, Holds, Stalls
  <1> QED
    BY <1>1, <1>2, <1>3, <1>4, <1>5, <1>6, <1>7, <1>8, <1>9, <1>10, <1>11, <1>12,
       <1>13, <1>14, <1>15, <1>16, <1>17, <1>18, <1>19, <1>20, <1>21, <1>22, <1>23, <1>24,
       <1>25, <1>26, <1>27, <1>28
       DEF Next, UploadStep, AssetStep, ProcStep

(* One more attempt of fewer than there are. *)
LEMMA OneMoreTry == \A m \in Nat : \A n \in 0 .. m : n < m => n + 1 \in 0 .. m
  OBVIOUS

(* An upload's type. *)
LEMMA UploadType == \A s \in {"idle", "jobs", "meta"} : \A f \in SUBSET Assets :
                       [pc |-> s, files |-> f] \in UploadRec
  BY DEF UploadRec

(* An upload that goes on keeps its type. *)
LEMMA GotoType ==
  ASSUME TypeOK, NEW u \in Uploads, NEW s \in {"idle", "jobs", "meta"}, Goto(u, s)
  PROVE  upload' \in [Uploads -> UploadRec]
  <1>1. NoUpload \in UploadRec
    BY UploadType DEF NoUpload
  <1>2. upload \in [Uploads -> UploadRec]
    BY DEF TypeOK
  <1>3. [upload[u] EXCEPT !.pc = s] \in UploadRec
    BY <1>2 DEF UploadRec
  <1> QED BY <1>1, <1>2, <1>3 DEF Goto

(* The count after a delay. *)
LEMMA DelayCount ==
  ASSUME NEW n \in 0 .. 4, n <= 3
  PROVE  n \in 0 .. 3
  OBVIOUS

(* Every step keeps the types. *)
LEMMA TypeStep ==
  ASSUME TypeOK, Shape, \A r \in Requests : LockShape(r)', Next
  PROVE  TypeOK'
  <1>0. \A r \in Requests : (IF reqJob[r] = "active" THEN proc[owner[r]].req = r
                            ELSE owner[r] = None)'
    BY DEF LockShape
  <1>1. ASSUME NEW u \in Uploads, NEW files \in SUBSET Assets, StoreData(u, files) PROVE TypeOK'
    <2>1. upload' \in [Uploads -> UploadRec]
      <3>1. After("data") = "jobs"
        BY DEF After
      <3>2. [pc |-> After("data"), files |-> files] \in UploadRec
        BY <3>1, UploadType
      <3> QED BY <1>1, <3>2 DEF StoreData, TypeOK
    <2>2. uploads' \in 0 .. MaxEvents
      BY <1>1 DEF StoreData, TypeOK
    <2>3. dataKey' \in [Assets -> KeyStates]
      BY <1>1 DEF StoreData, Long, KeyStates, TypeOK
    <2> QED BY <1>1, <1>0, <2>1, <2>2, <2>3 DEF StoreData, TypeOK
  <1>2. ASSUME NEW u \in Uploads, AddJobs(u) PROVE TypeOK'
    <2>1. upload' \in [Uploads -> UploadRec]
      <3>1. After("jobs") = "meta"
        BY DEF After
      <3> QED BY <1>2, <3>1, GotoType DEF AddJobs
    <2>2. assetJob' \in [Assets -> {"none", "wait", "read", "pin", "finish", "failed"}]
      BY <1>2 DEF AddJobs, TypeOK
    <2>3. tries' \in [Assets -> 0 .. AssetAttempts]
      BY <1>2 DEF AddJobs, TypeOK
    <2>4. stalled' \subseteq Assets \cup Requests
      BY <1>2 DEF AddJobs, TypeOK
    <2> QED BY <1>2, <1>0, <2>1, <2>2, <2>3, <2>4 DEF AddJobs, TypeOK
  <1>3. ASSUME NEW u \in Uploads, StoreMetadata(u) PROVE TypeOK'
    <2>1. upload' \in [Uploads -> UploadRec]
      <3>1. After("meta") = "idle"
        BY DEF After
      <3> QED BY <1>3, <3>1, GotoType DEF StoreMetadata
    <2>2. metaKey' \in [Assets -> KeyStates]
      BY <1>3 DEF StoreMetadata, Long, KeyStates, TypeOK
    <2> QED BY <1>3, <1>0, <2>1, <2>2 DEF StoreMetadata, TypeOK
  <1>4. ASSUME NEW u \in Uploads, UploadFails(u) PROVE TypeOK'
    <2>1. upload' \in [Uploads -> UploadRec]
      <3>1. NoUpload.pc = "idle"
        BY DEF NoUpload
      <3> QED BY <1>4, <3>1, GotoType DEF UploadFails
    <2>2. faults' \in 0 .. MaxEvents
      BY <1>4 DEF UploadFails, TypeOK
    <2> QED BY <1>4, <1>0, <2>1, <2>2 DEF UploadFails, TypeOK
  <1>5. ASSUME NEW a \in Assets, TakeAsset(a) PROVE TypeOK'
    BY <1>5, <1>0 DEF TakeAsset, TypeOK
  <1>6. ASSUME NEW a \in Assets, ReadData(a) PROVE TypeOK'
    <2>1. assetJob' \in [Assets -> {"none", "wait", "read", "pin", "finish", "failed"}]
      BY <1>6 DEF ReadData, AttemptThrows, TypeOK
    <2>2. tries' \in [Assets -> 0 .. AssetAttempts]
      <3>1. tries[a] \in 0 .. AssetAttempts /\ tries[a] < AssetAttempts
        BY <1>6 DEF ReadData, TypeOK, Shape, AssetShape
      <3>2. tries[a] + 1 \in 0 .. AssetAttempts
        BY <3>1, OneMoreTry
      <3>3. UNCHANGED tries \/ tries' = [tries EXCEPT ![a] = tries[a] + 1]
        BY <1>6 DEF ReadData, AttemptThrows, TypeOK
      <3>4. tries \in [Assets -> 0 .. AssetAttempts]
        BY DEF TypeOK
      <3> QED BY <1>6, <3>2, <3>3, <3>4
    <2> QED BY <1>6, <1>0, <2>1, <2>2 DEF ReadData, TypeOK
  <1>7. ASSUME NEW a \in Assets, Pin(a) PROVE TypeOK'
    BY <1>7 DEF Pin, TypeOK
  <1>8. ASSUME NEW a \in Assets, FinishAsset(a) PROVE TypeOK'
    BY <1>8 DEF FinishAsset, TypeOK
  <1>9. ASSUME NEW a \in Assets, PinThrows(a) PROVE TypeOK'
    <2>1. assetJob' \in [Assets -> {"none", "wait", "read", "pin", "finish", "failed"}]
      BY <1>9 DEF PinThrows, AttemptThrows, TypeOK
    <2>2. tries' \in [Assets -> 0 .. AssetAttempts]
      <3>1. tries[a] \in 0 .. AssetAttempts /\ tries[a] < AssetAttempts
        BY <1>9 DEF PinThrows, TypeOK, Shape, AssetShape
      <3>2. tries[a] + 1 \in 0 .. AssetAttempts
        BY <3>1, OneMoreTry
      <3>3. UNCHANGED tries \/ tries' = [tries EXCEPT ![a] = tries[a] + 1]
        BY <1>9 DEF PinThrows, AttemptThrows, TypeOK
      <3>4. tries \in [Assets -> 0 .. AssetAttempts]
        BY DEF TypeOK
      <3> QED BY <1>9, <3>2, <3>3, <3>4
    <2>3. faults' \in 0 .. MaxEvents
      BY <1>9 DEF PinThrows, TypeOK
    <2> QED BY <1>9, <1>0, <2>1, <2>2, <2>3 DEF PinThrows, TypeOK
  <1>10. ASSUME NEW a \in Assets, OnCompleted(a) PROVE TypeOK'
    <2>1. completed' \subseteq Assets
      BY <1>10 DEF OnCompleted, TypeOK
    <2>2. dataKey' \in [Assets -> KeyStates]
      BY <1>10 DEF OnCompleted, ShortLives, KeyStates, TypeOK
    <2>3. metaKey' \in [Assets -> KeyStates]
      BY <1>10 DEF OnCompleted, ShortLives, KeyStates, TypeOK
    <2> QED BY <1>10, <1>0, <2>1, <2>2, <2>3 DEF OnCompleted, TypeOK
  <1>11. ASSUME NEW a \in Assets, AssetCrash(a) PROVE TypeOK'
    <2>1. assetJob' \in [Assets -> {"none", "wait", "read", "pin", "finish", "failed"}]
      BY <1>11 DEF AssetCrash, TypeOK
    <2>2. stalled' \subseteq Assets \cup Requests
      BY <1>11 DEF AssetCrash, TypeOK
    <2>3. completed' \subseteq Assets
      BY <1>11 DEF AssetCrash, TypeOK
    <2>4. faults' \in 0 .. MaxEvents
      BY <1>11 DEF AssetCrash, TypeOK
    <2> QED BY <1>11, <1>0, <2>1, <2>2, <2>3, <2>4 DEF AssetCrash, TypeOK
  <1>12. ASSUME NEW a \in Assets, Expire(a) PROVE TypeOK'
    <2>1. dataKey' \in [Assets -> KeyStates]
      BY <1>12 DEF Expire, KeyStates, TypeOK
    <2>2. metaKey' \in [Assets -> KeyStates]
      BY <1>12 DEF Expire, KeyStates, TypeOK
    <2> QED BY <1>12, <1>0, <2>1, <2>2 DEF Expire, TypeOK
  <1>13. ASSUME NEW r \in Requests, Validate(r) PROVE TypeOK'
    BY <1>13 DEF Validate, TypeOK
  <1>14. ASSUME NEW r \in Requests, Enqueue(r) PROVE TypeOK'
    <2>1. validated' \subseteq Requests
      BY <1>14 DEF Enqueue, TypeOK
    <2>2. reqJob' \in [Requests -> {"none", "wait", "active", "delayed", "done", "failed"}]
      BY <1>14 DEF Enqueue, TypeOK
    <2>3. attempt' \in [Requests -> 0 .. 3]
      <3>1. 0 \in 0 .. 3 /\ attempt \in [Requests -> 0 .. 3]
        BY DEF TypeOK
      <3>2. [attempt EXCEPT ![r] = 0] \in [Requests -> 0 .. 3]
        BY <3>1
      <3> QED BY <1>14, <3>1, <3>2 DEF Enqueue
    <2>4. delays' \in [Requests -> Nat]
      <3>1. 0 \in Nat /\ delays \in [Requests -> Nat]
        BY DEF TypeOK
      <3>2. [delays EXCEPT ![r] = 0] \in [Requests -> Nat]
        BY <3>1
      <3> QED BY <1>14, <3>1, <3>2 DEF Enqueue
    <2>5. stalled' \subseteq Assets \cup Requests
      BY <1>14 DEF Enqueue, TypeOK
    <2> QED BY <1>14, <1>0, <2>1, <2>2, <2>3, <2>4, <2>5 DEF Enqueue, TypeOK
  <1>15. ASSUME NEW r \in Requests, EnqueueFails(r) PROVE TypeOK'
    BY <1>15 DEF EnqueueFails, TypeOK
  <1>16. ASSUME NEW r \in Requests, Evict(r) PROVE TypeOK'
    <2>1. reqJob' \in [Requests -> {"none", "wait", "active", "delayed", "done", "failed"}]
      BY <1>16 DEF Evict, TypeOK
    <2>2. notes' \in [Requests -> Seq(SUBSET Assets)]
      <3>1. <<>> \in Seq(SUBSET Assets) /\ notes \in [Requests -> Seq(SUBSET Assets)]
        BY DEF TypeOK
      <3> QED BY <1>16, <3>1 DEF Evict
    <2> QED BY <1>16, <1>0, <2>1, <2>2 DEF Evict, TypeOK
  <1>17. ASSUME NEW r \in Requests, Promote(r) PROVE TypeOK'
    BY <1>17 DEF Promote, TypeOK
  <1>18. ASSUME NEW p \in Procs, NEW r \in Requests, TakeRequest(p, r) PROVE TypeOK'
    <2>1. reqJob' \in [Requests -> {"none", "wait", "active", "delayed", "done", "failed"}]
      BY <1>18 DEF TakeRequest, TypeOK
    <2>2. owner' \in [Requests -> Procs \cup {None}]
      BY <1>18 DEF TakeRequest, TypeOK
    <2>3. proc' \in [Procs -> ProcRec]
      BY <1>18, TakeEffect DEF TakeRequest, Moves
    <2> QED BY <1>18, <1>0, <2>1, <2>2, <2>3 DEF TakeRequest, TypeOK
  <1>19. ASSUME NEW p \in Procs, NEW a \in Assets, Check(p, a) PROVE TypeOK'
    <2>1. proc' \in [Procs -> ProcRec]
      BY <1>19, PinnedEffect DEF Check, Moves
    <2>2. faults' \in 0 .. MaxEvents
      BY <1>19 DEF Check, GetPinned, TypeOK
    <2> QED BY <1>19, <1>0, <2>1, <2>2 DEF Check, TypeOK
  <1>20. ASSUME NEW p \in Procs, NEW a \in Assets, HashAttachment(p, a) PROVE TypeOK'
    <2>1. proc' \in [Procs -> ProcRec]
      BY <1>20, PinnedEffect DEF HashAttachment, Moves
    <2>2. faults' \in 0 .. MaxEvents
      BY <1>20 DEF HashAttachment, GetPinned, TypeOK
    <2> QED BY <1>20, <1>0, <2>1, <2>2 DEF HashAttachment, TypeOK
  <1>21. ASSUME NEW p \in Procs, Decide(p) PROVE TypeOK'
    <2>1. proc' \in [Procs -> ProcRec]
      BY <1>21, DecideEffect DEF Decide, Moves, Shape, ProcShape
    <2> QED BY <1>21, <1>0, <2>1 DEF Decide, TypeOK
  <1>22. ASSUME NEW p \in Procs, MoveToDelayed(p) PROVE TypeOK'
    <2>1. proc' \in [Procs -> ProcRec]
      BY <1>22, MoveEffect DEF MoveToDelayed, Moves
    <2>2. reqJob' \in [Requests -> {"none", "wait", "active", "delayed", "done", "failed"}]
      BY <1>22 DEF MoveToDelayed, TypeOK
    <2>3. owner' \in [Requests -> Procs \cup {None}]
      BY <1>22 DEF MoveToDelayed, TypeOK
    <2>4. delays' \in [Requests -> Nat]
      <3>1. \A n \in Nat : OneMore(n) \in Nat
        BY DEF OneMore
      <3>2. delays \in [Requests -> Nat]
        BY DEF TypeOK
      <3> QED BY <1>22, <3>1, <3>2 DEF MoveToDelayed
    <2> QED BY <1>22, <1>0, <2>1, <2>2, <2>3, <2>4 DEF MoveToDelayed, TypeOK
  <1>23. ASSUME NEW p \in Procs, UpdateData(p) PROVE TypeOK'
    <2>1. proc' \in [Procs -> ProcRec]
      BY <1>23, Leaves DEF UpdateData, Moves
    <2>2. attempt' \in [Requests -> 0 .. 3]
      <3>1. proc[p].tries \in 0 .. 4
        BY DEF TypeOK, ProcRec
      <3>2. proc[p].tries <= 3
        <4>1. proc[p].pc = "update"
          BY <1>23 DEF UpdateData
        <4>2. ProcShape(p)
          BY DEF Shape
        <4> QED BY <4>1, <4>2 DEF ProcShape
      <3>3. proc[p].tries \in 0 .. 3
        BY <3>1, <3>2, DelayCount
      <3> QED BY <1>23, <3>3 DEF UpdateData, TypeOK
    <2> QED BY <1>23, <1>0, <2>1, <2>2 DEF UpdateData, TypeOK
  <1>24. ASSUME NEW p \in Procs, PinNote(p) PROVE TypeOK'
    <2>1. proc' \in [Procs -> ProcRec]
      BY <1>24, NextStep DEF PinNote, Moves
    <2>2. faults' \in 0 .. MaxEvents
      BY <1>24 DEF PinNote, TypeOK
    <2> QED BY <1>24, <1>0, <2>1, <2>2 DEF PinNote, TypeOK
  <1>25. ASSUME NEW p \in Procs, Announce(p) PROVE TypeOK'
    <2>1. proc' \in [Procs -> ProcRec]
      BY <1>25, NextStep DEF Announce, Moves
    <2>2. notes' \in [Requests -> Seq(SUBSET Assets)]
      <3>1. proc[p].empty \in SUBSET Assets
        BY <1>25 DEF TypeOK, ProcRec
      <3>2. <<proc[p].empty>> \in Seq(SUBSET Assets)
        BY <3>1
      <3> QED BY <1>25, <3>2 DEF Announce, Added, TypeOK
    <2> QED BY <1>25, <1>0, <2>1, <2>2 DEF Announce, TypeOK
  <1>26. ASSUME NEW p \in Procs, FinishRequest(p) PROVE TypeOK'
    <2>1. proc' \in [Procs -> ProcRec]
      BY <1>26, Leaves DEF FinishRequest, Moves
    <2>2. reqJob' \in [Requests -> {"none", "wait", "active", "delayed", "done", "failed"}]
      BY <1>26 DEF FinishRequest, TypeOK
    <2>3. owner' \in [Requests -> Procs \cup {None}]
      BY <1>26 DEF FinishRequest, TypeOK
    <2> QED BY <1>26, <1>0, <2>1, <2>2, <2>3 DEF FinishRequest, TypeOK
  <1>27. ASSUME NEW p \in Procs, ProcCrash(p) PROVE TypeOK'
    <2>1. proc' \in [Procs -> ProcRec]
      BY <1>27, Leaves DEF ProcCrash, Moves
    <2>2. reqJob' \in [Requests -> {"none", "wait", "active", "delayed", "done", "failed"}]
      BY <1>27 DEF ProcCrash, Stalls, TypeOK
    <2>3. owner' \in [Requests -> Procs \cup {None}]
      BY <1>27 DEF ProcCrash, Stalls, TypeOK
    <2>4. stalled' \subseteq Assets \cup Requests
      <3>1. proc[p].req \in Requests
        BY <1>27 DEF ProcCrash, Shape, ProcShape, NoJob
      <3> QED BY <1>27, <3>1 DEF ProcCrash, Stalls, TypeOK
    <2>5. faults' \in 0 .. MaxEvents
      BY <1>27 DEF ProcCrash, TypeOK
    <2> QED BY <1>27, <1>0, <2>1, <2>2, <2>3, <2>4, <2>5 DEF ProcCrash, TypeOK
  <1>28. ASSUME NEW p \in Procs, LockLost(p) PROVE TypeOK'
    <2>1. reqJob' \in [Requests -> {"none", "wait", "active", "delayed", "done", "failed"}]
      BY <1>28 DEF LockLost, Stalls, TypeOK
    <2>2. owner' \in [Requests -> Procs \cup {None}]
      BY <1>28 DEF LockLost, Stalls, TypeOK
    <2>3. stalled' \subseteq Assets \cup Requests
      <3>1. proc[p].req \in Requests
        BY <1>28 DEF LockLost, Shape, ProcShape, NoJob
      <3> QED BY <1>28, <3>1 DEF LockLost, Stalls, TypeOK
    <2>4. faults' \in 0 .. MaxEvents
      BY <1>28 DEF LockLost, TypeOK
    <2> QED BY <1>28, <1>0, <2>1, <2>2, <2>3, <2>4 DEF LockLost, TypeOK
  <1> QED
    BY <1>1, <1>2, <1>3, <1>4, <1>5, <1>6, <1>7, <1>8, <1>9, <1>10, <1>11, <1>12,
       <1>13, <1>14, <1>15, <1>16, <1>17, <1>18, <1>19, <1>20, <1>21, <1>22, <1>23, <1>24,
       <1>25, <1>26, <1>27, <1>28
       DEF Next, UploadStep, AssetStep, ProcStep

-----------------------------------------------------------------------------
(* How often a request is delayed. *)

(* What is counted is a number. *)
LEMMA Counts ==
  ASSUME TypeOK
  PROVE  /\ faults \in Nat
         /\ \A r \in Requests : delays[r] \in Nat /\ attempt[r] \in Nat
         /\ \A p \in Procs : proc[p].tries \in Nat
  <1>1. \A p \in Procs : proc[p] \in ProcRec
    BY DEF TypeOK
  <1>2. \A j \in ProcRec : j.tries \in Nat
    BY DEF ProcRec
  <1>3. \A p \in Procs : proc[p].tries \in Nat
    BY <1>1, <1>2
  <1>4. /\ faults \in 0 .. MaxEvents
        /\ delays \in [Requests -> Nat] /\ attempt \in [Requests -> 0 .. 3]
    BY DEF TypeOK
  <1> QED BY <1>3, <1>4

(* And so it is after a step. *)
LEMMA CountsNext ==
  ASSUME TypeOK'
  PROVE  /\ \A r \in Requests : delays'[r] \in Nat /\ attempt'[r] \in Nat
         /\ \A p \in Procs : proc'[p].tries \in Nat
  <1>1. \A p \in Procs : proc'[p] \in ProcRec
    BY DEF TypeOK
  <1>2. \A j \in ProcRec : j.tries \in Nat
    BY DEF ProcRec
  <1>3. \A p \in Procs : proc'[p].tries \in Nat
    BY <1>1, <1>2
  <1>4. delays' \in [Requests -> Nat] /\ attempt' \in [Requests -> 0 .. 3]
    BY DEF TypeOK
  <1> QED BY <1>3, <1>4

(* Most steps at most add to the mishaps. *)
LEMMA DelaysFrame ==
  ASSUME TypeOK, Shape, Delays, UNCHANGED <<reqJob, attempt, owner, proc, delays>>,
         faults' \in {faults, faults + 1}
  PROVE  Delays'
  <1> SUFFICES ASSUME NEW r \in Requests PROVE DelayShape(r)'
    BY DEF Delays
  <1>1. DelayShape(r)
    BY DEF Delays
  <1>2. reqJob[r] = "active" => owner[r] \in Procs
    BY DEF Shape, LockShape
  <1> QED BY <1>1, <1>2, Counts DEF DelayShape, Writes

(* A process goes on with its request, without moving it. *)
LEMMA DelaysGoOn ==
  ASSUME TypeOK, TypeOK', Shape, Delays, NEW p \in Procs, Moves(p),
         UNCHANGED <<reqJob, attempt, owner, delays>>, faults' \in {faults, faults + 1},
         proc[p].pc # "update", proc'[p].pc # "update",
         proc'[p].pc = "check" => proc[p].pc = "check" /\ proc'[p].tries = proc[p].tries,
         proc'[p].pc = "delay" => proc[p].pc = "check" /\ proc'[p].tries = proc[p].tries + 1
  PROVE  Delays'
  <1> SUFFICES ASSUME NEW r \in Requests PROVE DelayShape(r)'
    BY DEF Delays
  <1>1. DelayShape(r) /\ (reqJob[r] = "active" => owner[r] \in Procs)
    BY DEF Delays, Shape, LockShape
  <1>2. \A q \in Procs : Writes(q, r)' <=> Writes(q, r)
    BY DEF Moves, Writes
  <1>3. \A q \in Procs : Writes(q, r) => proc'[q].tries = proc[q].tries
    BY DEF Moves, Writes
  <1>4. /\ \A q \in Procs : Writes(q, r)' =>
              IF reqJob[r] = "delayed" THEN delays[r] <= proc'[q].tries + faults
                                       ELSE delays[r] + 1 <= proc'[q].tries + faults
        /\ reqJob[r] = "delayed" /\ (\A q \in Procs : ~Writes(q, r)') =>
              delays[r] <= attempt[r] + faults
    BY <1>1, <1>2, <1>3 DEF DelayShape
  <1>5. ASSUME reqJob[r] = "active"
        PROVE  /\ proc'[owner[r]].pc = "check" => delays[r] <= proc'[owner[r]].tries + faults
               /\ proc'[owner[r]].pc = "delay" => delays[r] + 1 <= proc'[owner[r]].tries + faults
    BY <1>1, <1>5, Counts DEF Moves, DelayShape
  <1>6. faults' \in Nat /\ faults <= faults'
    BY Counts
  <1> QED BY <1>1, <1>4, <1>5, <1>6, Counts, CountsNext DEF DelayShape

(* A process lets go of its request; what has become of the request is not delayed. *)
LEMMA DelaysLetGo ==
  ASSUME TypeOK, TypeOK', Shape, Delays, NEW p \in Procs,
         (Moves(p) /\ proc'[p].pc = "idle") \/ UNCHANGED proc,
         UNCHANGED <<attempt, delays>>,
         (proc[p].pc # "update" /\ faults' = faults) \/ faults' = faults + 1,
         \/ UNCHANGED <<reqJob, owner>>
         \/ /\ Holds(p) /\ proc[p].req \in Requests
            /\ \E what \in {"wait", "failed", "done"} :
                 reqJob' = [reqJob EXCEPT ![proc[p].req] = what]
            /\ owner' = [owner EXCEPT ![proc[p].req] = None]
  PROVE  Delays'
  <1> SUFFICES ASSUME NEW r \in Requests PROVE DelayShape(r)'
    BY DEF Delays
  <1>1. DelayShape(r) /\ LockShape(r)
    BY DEF Delays, Shape
  <1>2. \A q \in Procs : Writes(q, r)' => Writes(q, r) /\ proc'[q] = proc[q]
    BY DEF Moves, Writes
  <1>3. \/ reqJob'[r] = reqJob[r] /\ owner'[r] = owner[r]
        \/ reqJob[r] = "active" /\ reqJob'[r] \in {"wait", "failed", "done"}
    BY <1>1 DEF TypeOK, LockShape, Holds
  <1>4. /\ reqJob'[r] = "delayed" <=> reqJob[r] = "delayed"
        /\ reqJob'[r] = "active" => reqJob[r] = "active"
    BY <1>3
  <1>5. faults' \in Nat /\ faults <= faults'
    BY Counts
  <1>6. \A q \in Procs : Writes(q, r)' =>
           IF reqJob'[r] = "delayed" THEN delays[r] <= proc'[q].tries + faults
                                     ELSE delays[r] + 1 <= proc'[q].tries + faults
    BY <1>1, <1>2, <1>4 DEF DelayShape
  <1>7. ASSUME reqJob[r] = "delayed", \A q \in Procs : ~Writes(q, r)'
        PROVE  delays[r] <= attempt[r] + faults'
    <2>1. CASE faults' = faults + 1
      BY <1>1, <1>7, <2>1, Counts DEF DelayShape
    <2>2. CASE proc[p].pc # "update" /\ faults' = faults
      <3>1. \A q \in Procs : ~Writes(q, r)
        BY <1>7, <2>2 DEF Moves, Writes
      <3> QED BY <1>1, <1>7, <2>2, <3>1 DEF DelayShape
    <2> QED BY <2>1, <2>2
  <1>8. ASSUME reqJob'[r] = "active"
        PROVE  /\ proc'[owner'[r]].pc = "check" => delays[r] <= proc'[owner'[r]].tries + faults
               /\ proc'[owner'[r]].pc = "delay" =>
                     delays[r] + 1 <= proc'[owner'[r]].tries + faults
    <2>1. owner'[r] = owner[r] /\ owner[r] \in Procs
      BY <1>1, <1>3, <1>8 DEF LockShape
    <2> QED BY <1>1, <1>4, <1>8, <2>1 DEF Moves, DelayShape
  <1>9. reqJob'[r] # "delayed" => delays[r] <= attempt[r] + faults
    BY <1>1, <1>4 DEF DelayShape
  <1>10. reqJob'[r] = "delayed" => delays[r] <= attempt[r] + faults + 1
    BY <1>1, <1>4 DEF DelayShape
  <1>11. /\ faults \in Nat /\ delays'[r] = delays[r] /\ attempt'[r] = attempt[r]
         /\ delays[r] \in Nat /\ attempt[r] \in Nat
    BY Counts
  <1>12. reqJob'[r] = "active" => owner'[r] \in Procs
    BY <1>1, <1>3 DEF LockShape
  <1>13. reqJob'[r] = "active" =>
            /\ proc'[owner'[r]].pc = "check" => delays[r] <= proc'[owner'[r]].tries + faults'
            /\ proc'[owner'[r]].pc = "delay" => delays[r] + 1 <= proc'[owner'[r]].tries + faults'
    BY <1>5, <1>8, <1>11, <1>12, CountsNext
  <1>14. \A q \in Procs : Writes(q, r)' =>
           IF reqJob'[r] = "delayed" THEN delays[r] <= proc'[q].tries + faults'
                                     ELSE delays[r] + 1 <= proc'[q].tries + faults'
    BY <1>5, <1>6, <1>11, CountsNext
  <1> QED BY <1>4, <1>5, <1>7, <1>9, <1>10, <1>11, <1>13, <1>14 DEF DelayShape

(* The count and the delays stay related. *)
LEMMA DelaysStep ==
  ASSUME TypeOK, TypeOK', Shape, Delays, Next
  PROVE  Delays'
  <1>1. ASSUME NEW u \in Uploads, NEW files \in SUBSET Assets, StoreData(u, files) PROVE Delays'
    BY <1>1, DelaysFrame DEF StoreData
  <1>2. ASSUME NEW u \in Uploads, AddJobs(u) PROVE Delays'
    BY <1>2, DelaysFrame DEF AddJobs
  <1>3. ASSUME NEW u \in Uploads, StoreMetadata(u) PROVE Delays'
    BY <1>3, DelaysFrame DEF StoreMetadata
  <1>4. ASSUME NEW u \in Uploads, UploadFails(u) PROVE Delays'
    BY <1>4, DelaysFrame DEF UploadFails
  <1>5. ASSUME NEW a \in Assets, TakeAsset(a) PROVE Delays'
    BY <1>5, DelaysFrame DEF TakeAsset
  <1>6. ASSUME NEW a \in Assets, ReadData(a) PROVE Delays'
    BY <1>6, DelaysFrame DEF ReadData
  <1>7. ASSUME NEW a \in Assets, Pin(a) PROVE Delays'
    BY <1>7, DelaysFrame DEF Pin
  <1>8. ASSUME NEW a \in Assets, FinishAsset(a) PROVE Delays'
    BY <1>8, DelaysFrame DEF FinishAsset
  <1>9. ASSUME NEW a \in Assets, PinThrows(a) PROVE Delays'
    BY <1>9, DelaysFrame DEF PinThrows
  <1>10. ASSUME NEW a \in Assets, OnCompleted(a) PROVE Delays'
    BY <1>10, DelaysFrame DEF OnCompleted
  <1>11. ASSUME NEW a \in Assets, AssetCrash(a) PROVE Delays'
    BY <1>11, DelaysFrame DEF AssetCrash
  <1>12. ASSUME NEW a \in Assets, Expire(a) PROVE Delays'
    BY <1>12, DelaysFrame DEF Expire
  <1>13. ASSUME NEW r \in Requests, Validate(r) PROVE Delays'
    BY <1>13, DelaysFrame DEF Validate
  <1>14. ASSUME NEW r \in Requests, Enqueue(r) PROVE Delays'
    <2> SUFFICES ASSUME NEW s \in Requests PROVE DelayShape(s)'
      BY DEF Delays
    <2>0. DelayShape(s) /\ LockShape(s)
      BY DEF Delays, Shape
    <2>1. UNCHANGED <<owner, proc, faults>>
      BY <1>14 DEF Enqueue
    <2>2. CASE reqJob[r] # "none"
      <3>1. Delays'
        BY <1>14, <2>2, DelaysFrame DEF Enqueue
      <3> QED BY <3>1 DEF Delays
    <2>3. CASE reqJob[r] = "none" /\ s = r
      <3>1. reqJob'[s] = "wait" /\ attempt'[s] = 0 /\ delays'[s] = 0
        BY <1>14, <2>3 DEF Enqueue, TypeOK
      <3>2. \A q \in Procs : ~Writes(q, s)
        BY <2>3 DEF Writes, Shape, ProcShape
      <3> QED BY <2>1, <3>1, <3>2, Counts DEF DelayShape, Writes
    <2>4. CASE reqJob[r] = "none" /\ s # r
      <3>1. reqJob'[s] = reqJob[s] /\ attempt'[s] = attempt[s] /\ delays'[s] = delays[s]
        BY <1>14, <2>4 DEF Enqueue, TypeOK
      <3> QED BY <2>0, <2>1, <3>1 DEF DelayShape, Writes
    <2> QED BY <2>2, <2>3, <2>4 DEF Delays
  <1>15. ASSUME NEW r \in Requests, EnqueueFails(r) PROVE Delays'
    BY <1>15, DelaysFrame DEF EnqueueFails
  <1>16. ASSUME NEW r \in Requests, Evict(r) PROVE Delays'
    <2> SUFFICES ASSUME NEW s \in Requests PROVE DelayShape(s)'
      BY DEF Delays
    <2>0. DelayShape(s) /\ LockShape(s)
      BY DEF Delays, Shape
    <2>1. UNCHANGED <<attempt, owner, proc, delays, faults>>
      BY <1>16 DEF Evict
    <2>2. /\ reqJob'[s] = "active" => reqJob[s] = "active"
          /\ reqJob'[s] = "delayed" <=> reqJob[s] = "delayed"
      BY <1>16 DEF Evict, TypeOK
    <2> QED BY <2>0, <2>1, <2>2 DEF DelayShape, Writes
  <1>17. ASSUME NEW r \in Requests, Promote(r) PROVE Delays'
    <2> SUFFICES ASSUME NEW s \in Requests PROVE DelayShape(s)'
      BY DEF Delays
    <2>0. DelayShape(s) /\ LockShape(s)
      BY DEF Delays, Shape
    <2>1. UNCHANGED <<attempt, owner, proc, delays>> /\ reqJob[r] = "delayed"
          /\ faults' \in {faults, faults + 1}
      BY <1>17 DEF Promote
    <2>2. CASE s = r
      <3>1. reqJob'[s] = "wait"
        BY <1>17, <2>2 DEF Promote, TypeOK
      <3>2. (\E q \in Procs : Writes(q, s)) => faults' = faults + 1
        BY <1>17, <2>2 DEF Promote, Writes
      <3>3. delays[s] <= attempt[s] + faults'
        BY <2>0, <2>1, <2>2, <3>2, Counts DEF DelayShape
      <3>4. ASSUME NEW q \in Procs, Writes(q, s) PROVE delays[s] + 1 <= proc[q].tries + faults'
        BY <2>0, <2>1, <2>2, <3>2, <3>4, Counts DEF DelayShape
      <3> QED BY <2>1, <3>1, <3>3, <3>4 DEF DelayShape, Writes
    <2>3. CASE s # r
      <3>1. reqJob'[s] = reqJob[s]
        BY <1>17, <2>3 DEF Promote, TypeOK
      <3>2. reqJob[s] = "active" => owner[s] \in Procs
        BY <2>0 DEF LockShape
      <3> QED BY <2>0, <2>1, <3>1, <3>2, Counts DEF DelayShape, Writes
    <2> QED BY <2>2, <2>3
  <1>18. ASSUME NEW p \in Procs, NEW r \in Requests, TakeRequest(p, r) PROVE Delays'
    <2> SUFFICES ASSUME NEW s \in Requests PROVE DelayShape(s)'
      BY DEF Delays
    <2>0. DelayShape(s) /\ LockShape(s)
      BY DEF Delays, Shape
    <2>1. /\ UNCHANGED <<attempt, delays, faults>> /\ reqJob[r] = "wait"
          /\ reqJob' = [reqJob EXCEPT ![r] = "active"] /\ owner' = [owner EXCEPT ![r] = p]
      BY <1>18 DEF TakeRequest
    <2>2. /\ Moves(p) /\ proc[p].pc = "idle" /\ proc'[p].pc = "check"
          /\ proc'[p].tries = attempt[r]
      BY <1>18, TakeEffect
    <2>3. \A q \in Procs : /\ Writes(q, s)' <=> Writes(q, s)
                           /\ Writes(q, s) => proc'[q] = proc[q]
      BY <2>2 DEF Moves, Writes
    <2>4. CASE s = r
      <3>1. reqJob'[s] = "active" /\ owner'[s] = p
        BY <2>1, <2>4 DEF TypeOK
      <3>2. delays[s] <= attempt[s] + faults
        BY <2>0, <2>1, <2>4 DEF DelayShape
      <3>3. \A q \in Procs : Writes(q, s)' => delays[s] + 1 <= proc'[q].tries + faults
        BY <2>0, <2>1, <2>3, <2>4 DEF DelayShape
      <3> QED BY <2>1, <2>2, <2>4, <3>1, <3>2, <3>3 DEF DelayShape
    <2>5. CASE s # r
      <3>1. reqJob'[s] = reqJob[s] /\ owner'[s] = owner[s]
        BY <2>1, <2>5 DEF TypeOK
      <3>2. reqJob[s] = "active" => owner[s] \in Procs /\ proc'[owner[s]] = proc[owner[s]]
        BY <2>0, <2>2 DEF LockShape, Moves
      <3> QED BY <2>0, <2>1, <2>3, <3>1, <3>2 DEF DelayShape
    <2> QED BY <2>4, <2>5
  <1>19. ASSUME NEW p \in Procs, NEW a \in Assets, Check(p, a) PROVE Delays'
    <2>1. /\ UNCHANGED <<reqJob, attempt, owner, delays>>
          /\ faults' \in {faults, faults + 1}
      BY <1>19 DEF Check, GetPinned
    <2>2. /\ Moves(p) /\ proc[p].pc # "update" /\ proc'[p].pc \notin {"update", "delay"}
          /\ proc'[p].pc = "check" => proc[p].pc = "check" /\ proc'[p].tries = proc[p].tries
      BY <1>19, PinnedEffect DEF Check
    <2> QED BY <2>1, <2>2, DelaysGoOn
  <1>20. ASSUME NEW p \in Procs, NEW a \in Assets, HashAttachment(p, a) PROVE Delays'
    <2>1. /\ UNCHANGED <<reqJob, attempt, owner, delays>>
          /\ faults' \in {faults, faults + 1}
      BY <1>20 DEF HashAttachment, GetPinned
    <2>2. /\ Moves(p) /\ proc[p].pc # "update" /\ proc'[p].pc \notin {"update", "delay"}
          /\ proc'[p].pc = "check" => proc[p].pc = "check" /\ proc'[p].tries = proc[p].tries
      BY <1>20, PinnedEffect DEF HashAttachment
    <2> QED BY <2>1, <2>2, DelaysGoOn
  <1>21. ASSUME NEW p \in Procs, Decide(p) PROVE Delays'
    <2>1. UNCHANGED <<reqJob, attempt, owner, delays, faults>>
      BY <1>21 DEF Decide
    <2>2. proc[p].tries <= 3 /\ proc[p].req \in Requests
      BY <1>21 DEF Decide, Shape, ProcShape
    <2> QED BY <1>21, <2>1, <2>2, DecideEffect, DelaysGoOn
  <1>22. ASSUME NEW p \in Procs, MoveToDelayed(p) PROVE Delays'
    <2> SUFFICES ASSUME NEW s \in Requests PROVE DelayShape(s)'
      BY DEF Delays
    <2>0. DelayShape(s) /\ LockShape(s)
      BY DEF Delays, Shape
    <2>1. /\ UNCHANGED <<attempt, faults>> /\ Moves(p) /\ proc[p].pc = "delay"
          /\ proc[p].req \in Requests
      BY <1>22, MoveEffect DEF MoveToDelayed, Shape, ProcShape
    <2>2. CASE ~Holds(p)
      <3>1. UNCHANGED <<reqJob, owner, delays>> /\ proc'[p].pc = "idle"
        BY <1>22, <2>2, MoveEffect, NoJobType DEF MoveToDelayed
      <3>2. Delays'
        BY <2>1, <3>1, DelaysLetGo
      <3> QED BY <3>2 DEF Delays
    <2>3. CASE Holds(p)
      <3>0. /\ proc'[p].pc = "update" /\ proc'[p].req = proc[p].req
            /\ proc'[p].tries = proc[p].tries
        BY <1>22, <2>3, MoveEffect
      <3>1. /\ reqJob' = [reqJob EXCEPT ![proc[p].req] = "delayed"]
            /\ owner' = [owner EXCEPT ![proc[p].req] = None]
            /\ delays' = [delays EXCEPT ![proc[p].req] = OneMore(delays[proc[p].req])]
        BY <1>22, <2>3 DEF MoveToDelayed
      <3>2. CASE s = proc[p].req
        <4>1. reqJob[s] = "active" /\ owner[s] = p
          BY <2>0, <2>3, <3>2 DEF Holds, LockShape
        <4>2. reqJob'[s] = "delayed" /\ delays'[s] = OneMore(delays[s])
          BY <3>1, <3>2 DEF TypeOK
        <4>3. delays[s] \in Nat /\ delays'[s] \in Nat /\ delays'[s] <= delays[s] + 1
          BY <4>2, Counts DEF OneMore
        <4>4. delays[s] + 1 <= proc[p].tries + faults /\ delays[s] <= attempt[s] + faults
          BY <2>0, <2>1, <4>1 DEF DelayShape
        <4>5. Writes(p, s)'
          BY <3>0, <3>2 DEF Writes
        <4>6. ASSUME NEW q \in Procs, Writes(q, s)' PROVE delays'[s] <= proc'[q].tries + faults
          <5>1. CASE q = p
            BY <3>0, <4>3, <4>4, <5>1, Counts
          <5>2. CASE q # p
            <6>1. Writes(q, s) /\ proc'[q].tries = proc[q].tries
              BY <2>1, <4>6, <5>2 DEF Moves, Writes
            <6>2. delays[s] + 1 <= proc[q].tries + faults
              BY <2>0, <4>1, <6>1 DEF DelayShape
            <6> QED BY <4>3, <6>1, <6>2, Counts
          <5> QED BY <5>1, <5>2
        <4>7. delays'[s] <= attempt[s] + faults + 1
          BY <4>3, <4>4, Counts
        <4> QED BY <2>1, <4>2, <4>5, <4>6, <4>7 DEF DelayShape
      <3>3. CASE s # proc[p].req
        <4>1. reqJob'[s] = reqJob[s] /\ owner'[s] = owner[s] /\ delays'[s] = delays[s]
          BY <3>1, <3>3 DEF TypeOK
        <4>2. \A q \in Procs : /\ Writes(q, s)' <=> Writes(q, s)
                               /\ Writes(q, s) => proc'[q] = proc[q]
          BY <2>1, <3>0, <3>3 DEF Moves, Writes
        <4>3. reqJob[s] = "active" => owner[s] \in Procs /\ proc'[owner[s]] = proc[owner[s]]
          BY <2>0, <2>1, <3>3 DEF LockShape, Moves
        <4> QED BY <2>0, <2>1, <4>1, <4>2, <4>3 DEF DelayShape
      <3> QED BY <3>2, <3>3
    <2> QED BY <2>2, <2>3
  <1>23. ASSUME NEW p \in Procs, UpdateData(p) PROVE Delays'
    <2> SUFFICES ASSUME NEW s \in Requests PROVE DelayShape(s)'
      BY DEF Delays
    <2>0. DelayShape(s) /\ LockShape(s)
      BY DEF Delays, Shape
    <2>1. /\ UNCHANGED <<reqJob, owner, delays, faults>> /\ Moves(p) /\ proc'[p].pc = "idle"
          /\ proc[p].pc = "update" /\ proc[p].req \in Requests
          /\ attempt' = [attempt EXCEPT ![proc[p].req] = proc[p].tries]
      BY <1>23, Leaves, NoJobType DEF UpdateData, Shape, ProcShape
    <2>2. \A q \in Procs : Writes(q, s)' => Writes(q, s) /\ proc'[q] = proc[q]
      BY <2>1 DEF Moves, Writes
    <2>3. reqJob[s] = "active" => owner[s] \in Procs /\ proc'[owner[s]] = proc[owner[s]]
      BY <2>0, <2>1 DEF LockShape, Moves
    <2>4. CASE s = proc[p].req
      <3>1. attempt'[s] = proc[p].tries /\ Writes(p, s)
        BY <2>1, <2>4 DEF TypeOK, Writes
      <3>2. delays[s] <= attempt'[s] + faults
        BY <2>0, <3>1, Counts DEF DelayShape
      <3>3. delays[s] <= attempt'[s] + faults + 1
        BY <3>1, <3>2, Counts
      <3> QED BY <2>0, <2>1, <2>2, <2>3, <3>2, <3>3 DEF DelayShape
    <2>5. CASE s # proc[p].req
      <3>1. attempt'[s] = attempt[s] /\ ~Writes(p, s)
        BY <2>1, <2>5 DEF TypeOK, Writes
      <3>2. \A q \in Procs : Writes(q, s)' <=> Writes(q, s)
        BY <2>1, <2>2, <3>1 DEF Moves, Writes
      <3> QED BY <2>0, <2>1, <2>2, <2>3, <3>1, <3>2 DEF DelayShape
    <2> QED BY <2>4, <2>5
  <1>24. ASSUME NEW p \in Procs, PinNote(p) PROVE Delays'
    <2>1. /\ UNCHANGED <<reqJob, attempt, owner, delays>>
          /\ faults' \in {faults, faults + 1}
      BY <1>24 DEF PinNote, GetPinned
    <2>2. /\ Moves(p) /\ proc[p].pc # "update" /\ proc'[p].pc \notin {"update", "delay"}
          /\ proc'[p].pc = "check" => proc[p].pc = "check" /\ proc'[p].tries = proc[p].tries
      BY <1>24, NextStep DEF PinNote
    <2> QED BY <2>1, <2>2, DelaysGoOn
  <1>25. ASSUME NEW p \in Procs, Announce(p) PROVE Delays'
    <2>1. /\ UNCHANGED <<reqJob, attempt, owner, delays>>
          /\ faults' \in {faults, faults + 1}
      BY <1>25 DEF Announce, GetPinned
    <2>2. /\ Moves(p) /\ proc[p].pc # "update" /\ proc'[p].pc \notin {"update", "delay"}
          /\ proc'[p].pc = "check" => proc[p].pc = "check" /\ proc'[p].tries = proc[p].tries
      BY <1>25, NextStep DEF Announce
    <2> QED BY <2>1, <2>2, DelaysGoOn
  <1>26. ASSUME NEW p \in Procs, FinishRequest(p) PROVE Delays'
    <2>1. /\ proc[p].pc # "idle" /\ proc[p].req \in Requests
          /\ Moves(p) /\ proc'[p].pc = "idle"
      BY <1>26, Leaves, NoJobType DEF FinishRequest, Shape, ProcShape
    <2>2. /\ UNCHANGED <<attempt, delays>>
          /\ proc[p].pc # "update" /\ faults' = faults
      BY <1>26 DEF FinishRequest
    <2>3. \/ UNCHANGED <<reqJob, owner>>
          \/ /\ Holds(p)
             /\ \E what \in {"wait", "failed", "done"} :
                  reqJob' = [reqJob EXCEPT ![proc[p].req] = what]
             /\ owner' = [owner EXCEPT ![proc[p].req] = None]
      BY <1>26 DEF FinishRequest
    <2> QED BY <2>1, <2>2, <2>3, DelaysLetGo
  <1>27. ASSUME NEW p \in Procs, ProcCrash(p) PROVE Delays'
    <2>1. /\ proc[p].pc # "idle" /\ proc[p].req \in Requests
          /\ Moves(p) /\ proc'[p].pc = "idle"
      BY <1>27, Leaves, NoJobType DEF ProcCrash, Shape, ProcShape
    <2>2. /\ UNCHANGED <<attempt, delays>>
          /\ faults' = faults + 1
      BY <1>27 DEF ProcCrash
    <2>3. \/ UNCHANGED <<reqJob, owner>>
          \/ /\ Holds(p)
             /\ \E what \in {"wait", "failed", "done"} :
                  reqJob' = [reqJob EXCEPT ![proc[p].req] = what]
             /\ owner' = [owner EXCEPT ![proc[p].req] = None]
      BY <1>27 DEF ProcCrash, Stalls
    <2> QED BY <2>1, <2>2, <2>3, DelaysLetGo
  <1>28. ASSUME NEW p \in Procs, LockLost(p) PROVE Delays'
    <2>1. /\ proc[p].pc # "idle" /\ proc[p].req \in Requests
          /\ UNCHANGED proc
      BY <1>28, Leaves, NoJobType DEF LockLost, Shape, ProcShape
    <2>2. /\ UNCHANGED <<attempt, delays>>
          /\ faults' = faults + 1
      BY <1>28 DEF LockLost
    <2>3. \/ UNCHANGED <<reqJob, owner>>
          \/ /\ Holds(p)
             /\ \E what \in {"wait", "failed", "done"} :
                  reqJob' = [reqJob EXCEPT ![proc[p].req] = what]
             /\ owner' = [owner EXCEPT ![proc[p].req] = None]
      BY <1>28 DEF LockLost, Stalls
    <2> QED BY <2>1, <2>2, <2>3, DelaysLetGo
  <1> QED
    BY <1>1, <1>2, <1>3, <1>4, <1>5, <1>6, <1>7, <1>8, <1>9, <1>10, <1>11, <1>12,
       <1>13, <1>14, <1>15, <1>16, <1>17, <1>18, <1>19, <1>20, <1>21, <1>22, <1>23, <1>24,
       <1>25, <1>26, <1>27, <1>28
       DEF Next, UploadStep, AssetStep, ProcStep

-----------------------------------------------------------------------------
(* The theorems. *)

(* The invariant holds at the start. *)
LEMMA InitInv == Init => IInv
  <1> SUFFICES ASSUME Init PROVE IInv
    OBVIOUS
  <1>1. TypeOK
    <2>1. NoUpload \in UploadRec
      BY UploadType DEF NoUpload
    <2>2. upload \in [Uploads -> UploadRec] /\ proc \in [Procs -> ProcRec]
      BY <2>1, NoJobType DEF Init
    <2>3. notes \in [Requests -> Seq(SUBSET Assets)]
      BY DEF Init
    <2> QED BY <2>2, <2>3 DEF Init, TypeOK, KeyStates
  <1>2. Shape
    <2>1. \A p \in Procs : ProcShape(p)
      BY NoJobType DEF Init, ProcShape, NoJob
    <2>2. \A r \in Requests : LockShape(r) /\ NoteShape(r)
      BY DEF Init, LockShape, NoteShape
    <2>3. \A a \in Assets : AssetShape(a)
      BY DEF Init, AssetShape
    <2>4. \A u \in Uploads : UploadShape(u)
      BY DEF Init, UploadShape, NoUpload
    <2> QED BY <2>1, <2>2, <2>3, <2>4 DEF Shape
  <1>3. Delays
    <2>1. \A p \in Procs : proc[p].pc = "idle"
      BY NoJobType DEF Init
    <2> QED BY <2>1 DEF Init, Delays, DelayShape, Writes
  <1> QED BY <1>1, <1>2, <1>3 DEF IInv

(* Every step keeps the invariant. *)
LEMMA StepInv == IInv /\ [Next]_vars => IInv'
  <1> SUFFICES ASSUME IInv, [Next]_vars PROVE IInv'
    OBVIOUS
  <1>1. CASE Next
    <2>1. TypeOK /\ Shape /\ Delays
      BY DEF IInv
    <2>2. \A r \in Requests : LockShape(r)'
      BY <1>1, <2>1, LockShapeStep
    <2>3. TypeOK'
      BY <1>1, <2>1, <2>2, TypeStep
    <2>4. /\ \A p \in Procs : ProcShape(p)'
          /\ \A r \in Requests : NoteShape(r)'
          /\ \A a \in Assets : AssetShape(a)'
          /\ \A u \in Uploads : UploadShape(u)'
      BY <1>1, <2>1, <2>3, ProcShapeStep, NoteShapeStep, AssetShapeStep, UploadShapeStep
    <2>5. Shape'
      BY <2>2, <2>4 DEF Shape
    <2>6. Delays'
      BY <1>1, <2>1, <2>3, DelaysStep
    <2> QED BY <2>3, <2>5, <2>6 DEF IInv
  <1>2. CASE UNCHANGED vars
    <2>1. TypeOK'
      BY <1>2 DEF vars, IInv, TypeOK
    <2>2. Shape'
      <3>1. \A p \in Procs : ProcShape(p)'
        BY <1>2 DEF vars, IInv, Shape, ProcShape
      <3>2. \A r \in Requests : LockShape(r)' /\ NoteShape(r)'
        BY <1>2 DEF vars, IInv, Shape, LockShape, NoteShape
      <3>3. \A a \in Assets : AssetShape(a)'
        BY <1>2 DEF vars, IInv, Shape, AssetShape, Pinnable, Begun
      <3>4. \A u \in Uploads : UploadShape(u)'
        BY <1>2 DEF vars, IInv, Shape, UploadShape, Pinnable, Begun
      <3> QED BY <3>1, <3>2, <3>3, <3>4 DEF Shape
    <2>3. Delays'
      BY <1>2 DEF vars, IInv, Delays, DelayShape, Writes
    <2> QED BY <2>1, <2>2, <2>3 DEF IInv
  <1> QED BY <1>1, <1>2

(* The inductive invariant holds, for any constants that meet ContentAssumption. *)
THEOREM Inductive == Spec => []IInv
  BY InitInv, StepInv, PTL DEF Spec

(* Every variable keeps its type, and a lock belongs to the process that has the job. *)
THEOREM TypeCorrect == Spec => []TypeOK
  <1>1. IInv => TypeOK
    BY DEF IInv
  <1> QED BY <1>1, Inductive, PTL

(* An asset a request may refer to can be pinned, whatever step of its uploads fails, and  *)
(* however they interleave with the asset worker and with the keys' ends.                  *)
THEOREM ReferenceableSafety == Spec => []ReferenceableIsPinnable
  <1>1. IInv => ReferenceableIsPinnable
    <2> SUFFICES ASSUME IInv, NEW a \in Assets, metaKey[a] # "none", a \notin pinned,
                        assetJob[a] # "failed"
                 PROVE  assetJob[a] # "none" /\ dataKey[a] # "none"
      BY DEF ReferenceableIsPinnable
    <2>1. AssetShape(a)
      BY DEF IInv, Shape
    <2>2. assetJob[a] \in {"none", "wait", "read", "pin", "finish", "failed"}
      BY DEF IInv, TypeOK
    <2> QED BY <2>1, <2>2 DEF AssetShape, Begun, Pinnable
  <1> QED BY <1>1, Inductive, PTL

(* What is announced refers to assets on IPFS, for any requests, processes and mishaps. *)
THEOREM AnnouncedSafety == Spec => []AnnouncedIsPinned
  <1>1. IInv => AnnouncedIsPinned
    BY DEF IInv, Shape, NoteShape, AnnouncedIsPinned
  <1> QED BY <1>1, Inductive, PTL

(* A request is delayed three times, and once more for each mishap at most. *)
THEOREM DelaysSafety == Spec => []DelaysAreBounded
  <1>1. IInv => DelaysAreBounded
    <2> SUFFICES ASSUME IInv, NEW r \in Requests PROVE delays[r] <= 3 + faults
      BY DEF DelaysAreBounded
    <2>0. TypeOK /\ DelayShape(r)
      BY DEF IInv, Delays
    <2>1. attempt[r] \in 0 .. 3 /\ delays[r] \in Nat /\ faults \in Nat
      BY <2>0, Counts DEF TypeOK
    <2>2. CASE \E p \in Procs : Writes(p, r)
      <3>1. PICK p \in Procs : Writes(p, r)
        BY <2>2
      <3>2. delays[r] <= proc[p].tries + faults
        BY <2>0, <2>1, <3>1, Counts DEF DelayShape
      <3>3. proc[p].tries <= 3 /\ proc[p].tries \in Nat
        BY <2>0, <3>1, Counts DEF IInv, Shape, ProcShape, Writes
      <3> QED BY <2>1, <3>2, <3>3
    <2>3. CASE \A p \in Procs : ~Writes(p, r)
      BY <2>0, <2>1, <2>3 DEF DelayShape
    <2> QED BY <2>2, <2>3
  <1> QED BY <1>1, Inductive, PTL

-----------------------------------------------------------------------------
(* Content implements Announcing. *)

Asked == {r \in Requests : reqJob[r] # "none"}
Noted == [r \in Requests |-> Len(notes[r])]

Simulates == Implemented!Next \/ UNCHANGED Implemented!vars

(* The abstract steps, in the terms of this module. *)
LEMMA AbstractAsk ==
  ASSUME NEW r \in Requests, Asked' = Asked \cup {r}, UNCHANGED <<pinned, notes>>
  PROVE  Implemented!Next
  BY DEF Implemented!Next, Implemented!Ask, Asked

(* Pinning an asset. *)
LEMMA AbstractPin ==
  ASSUME NEW a \in Assets, pinned' = pinned \cup {a}, UNCHANGED <<reqJob, notes>>
  PROVE  Implemented!Next
  BY DEF Implemented!Next, Implemented!Pin

(* Announcing a request. *)
LEMMA AbstractNote ==
  ASSUME NEW r \in Requests, r \in Asked, notes[r] = <<>>, Refs[r] \subseteq pinned,
         Noted' = [Noted EXCEPT ![r] = 1], UNCHANGED <<reqJob, pinned>>
  PROVE  Implemented!Next
  BY DEF Implemented!Next, Implemented!Note, Asked, Noted

(* Forgetting a request. *)
LEMMA AbstractForget ==
  ASSUME NEW r \in Requests, Asked' = Asked \ {r},
         Noted' \in {Noted, [Noted EXCEPT ![r] = 0]}, UNCHANGED pinned
  PROVE  Implemented!Next
  BY DEF Implemented!Next, Implemented!Forget, Asked, Noted

(* A step that the abstraction does not see. *)
LEMMA AbstractStutter ==
  ASSUME UNCHANGED <<Asked, pinned, notes>>
  PROVE  Simulates
  BY DEF Simulates, Implemented!vars, Asked

(* What has become of a request's job does not make it forgotten. *)
LEMMA StillAsked ==
  ASSUME TypeOK, NEW r \in Requests, reqJob[r] # "none", NEW what, what # "none",
         reqJob' = [reqJob EXCEPT ![r] = what]
  PROVE  UNCHANGED Asked
  BY DEF TypeOK, Asked

(* Every step maps to a step of Announcing, or to none. *)
LEMMA Simulation ==
  ASSUME TypeOK, Shape, Next
  PROVE  Simulates
  <1>1. ASSUME NEW u \in Uploads, NEW files \in SUBSET Assets, StoreData(u, files) PROVE Simulates
    BY <1>1, AbstractStutter DEF StoreData, Asked
  <1>2. ASSUME NEW u \in Uploads, AddJobs(u) PROVE Simulates
    BY <1>2, AbstractStutter DEF AddJobs, Asked
  <1>3. ASSUME NEW u \in Uploads, StoreMetadata(u) PROVE Simulates
    BY <1>3, AbstractStutter DEF StoreMetadata, Asked
  <1>4. ASSUME NEW u \in Uploads, UploadFails(u) PROVE Simulates
    BY <1>4, AbstractStutter DEF UploadFails, Asked
  <1>5. ASSUME NEW a \in Assets, TakeAsset(a) PROVE Simulates
    BY <1>5, AbstractStutter DEF TakeAsset, Asked
  <1>6. ASSUME NEW a \in Assets, ReadData(a) PROVE Simulates
    BY <1>6, AbstractStutter DEF ReadData, Asked
  <1>7. ASSUME NEW a \in Assets, Pin(a) PROVE Simulates
    BY <1>7, AbstractPin DEF Pin, Simulates
  <1>8. ASSUME NEW a \in Assets, FinishAsset(a) PROVE Simulates
    BY <1>8, AbstractStutter DEF FinishAsset, Asked
  <1>9. ASSUME NEW a \in Assets, PinThrows(a) PROVE Simulates
    BY <1>9, AbstractStutter DEF PinThrows, Asked
  <1>10. ASSUME NEW a \in Assets, OnCompleted(a) PROVE Simulates
    BY <1>10, AbstractStutter DEF OnCompleted, Asked
  <1>11. ASSUME NEW a \in Assets, AssetCrash(a) PROVE Simulates
    BY <1>11, AbstractStutter DEF AssetCrash, Asked
  <1>12. ASSUME NEW a \in Assets, Expire(a) PROVE Simulates
    BY <1>12, AbstractStutter DEF Expire, Asked
  <1>13. ASSUME NEW r \in Requests, Validate(r) PROVE Simulates
    BY <1>13, AbstractStutter DEF Validate, Asked
  <1>14. ASSUME NEW r \in Requests, Enqueue(r) PROVE Simulates
    <2>1. UNCHANGED <<pinned, notes>>
      BY <1>14 DEF Enqueue
    <2>2. CASE reqJob[r] = "none"
      <3>1. Asked' = Asked \cup {r}
        BY <1>14, <2>2 DEF Enqueue, Asked, TypeOK
      <3> QED BY <2>1, <3>1, AbstractAsk DEF Simulates
    <2>3. CASE reqJob[r] # "none"
      BY <1>14, <2>1, <2>3, AbstractStutter DEF Enqueue, Asked
    <2> QED BY <2>2, <2>3
  <1>15. ASSUME NEW r \in Requests, EnqueueFails(r) PROVE Simulates
    BY <1>15, AbstractStutter DEF EnqueueFails, Asked
  <1>16. ASSUME NEW r \in Requests, Evict(r) PROVE Simulates
    <2>1. UNCHANGED pinned /\ Asked' = Asked \ {r}
      BY <1>16 DEF Evict, Asked, TypeOK
    <2>2. Noted' \in {Noted, [Noted EXCEPT ![r] = 0]}
      <3>1. CASE notes' = notes
        BY <3>1 DEF Noted
      <3>2. CASE notes' = [notes EXCEPT ![r] = <<>>]
        <4>1. notes'[r] = <<>> /\ \A s \in Requests : s # r => notes'[s] = notes[s]
          BY <3>2 DEF TypeOK
        <4>2. Len(notes'[r]) = 0
          BY <4>1
        <4> QED BY <4>1, <4>2 DEF Noted
      <3> QED BY <1>16, <3>1, <3>2 DEF Evict
    <2> QED BY <2>1, <2>2, AbstractForget DEF Simulates
  <1>17. ASSUME NEW r \in Requests, Promote(r) PROVE Simulates
    <2>1. UNCHANGED <<pinned, notes>> /\ UNCHANGED Asked
      BY <1>17, StillAsked DEF Promote
    <2> QED BY <2>1, AbstractStutter
  <1>18. ASSUME NEW p \in Procs, NEW r \in Requests, TakeRequest(p, r) PROVE Simulates
    <2>1. UNCHANGED <<pinned, notes>> /\ UNCHANGED Asked
      BY <1>18, StillAsked DEF TakeRequest
    <2> QED BY <2>1, AbstractStutter
  <1>19. ASSUME NEW p \in Procs, NEW a \in Assets, Check(p, a) PROVE Simulates
    BY <1>19, AbstractStutter DEF Check, Asked
  <1>20. ASSUME NEW p \in Procs, NEW a \in Assets, HashAttachment(p, a) PROVE Simulates
    BY <1>20, AbstractStutter DEF HashAttachment, Asked
  <1>21. ASSUME NEW p \in Procs, Decide(p) PROVE Simulates
    BY <1>21, AbstractStutter DEF Decide, Asked
  <1>22. ASSUME NEW p \in Procs, MoveToDelayed(p) PROVE Simulates
    <2>1. UNCHANGED <<pinned, notes>> /\ proc[p].req \in Requests /\ reqJob[proc[p].req] # "none"
      BY <1>22 DEF MoveToDelayed, Shape, ProcShape, NoJob
    <2>2. CASE Holds(p)
      <3>1. PICK what \in {"wait", "delayed", "failed", "done"} :
               reqJob' = [reqJob EXCEPT ![proc[p].req] = what]
        BY <1>22, <2>2 DEF MoveToDelayed
      <3>2. UNCHANGED Asked
        BY <2>1, <3>1, StillAsked
      <3> QED BY <2>1, <3>2, AbstractStutter
    <2>3. CASE ~Holds(p)
      BY <1>22, <2>1, <2>3, AbstractStutter DEF MoveToDelayed, Asked
    <2> QED BY <2>2, <2>3
  <1>23. ASSUME NEW p \in Procs, UpdateData(p) PROVE Simulates
    BY <1>23, AbstractStutter DEF UpdateData, Asked
  <1>24. ASSUME NEW p \in Procs, PinNote(p) PROVE Simulates
    BY <1>24, AbstractStutter DEF PinNote, Asked
  <1>25. ASSUME NEW p \in Procs, Announce(p) PROVE Simulates
    <2>1. /\ proc[p].pc = "announce" /\ UNCHANGED <<reqJob, pinned>>
          /\ notes' = [notes EXCEPT ![proc[p].req] =
                         IF notes[proc[p].req] = <<>> THEN <<proc[p].empty>>
                         ELSE notes[proc[p].req]]
      BY <1>25 DEF Announce, Added
    <2>2. /\ proc[p].req \in Requests /\ proc[p].req \in Asked
          /\ Refs[proc[p].req] \subseteq pinned
      BY <2>1 DEF Shape, ProcShape, Asked
    <2>3. CASE notes[proc[p].req] = <<>>
      <3>1. /\ notes'[proc[p].req] = <<proc[p].empty>>
            /\ \A s \in Requests : s # proc[p].req => notes'[s] = notes[s]
        BY <2>1, <2>2, <2>3 DEF TypeOK
      <3>2. Len(notes'[proc[p].req]) = 1
        BY <3>1
      <3>3. Noted' = [Noted EXCEPT ![proc[p].req] = 1]
        BY <2>2, <3>1, <3>2 DEF Noted
      <3> QED BY <2>1, <2>2, <2>3, <3>3, AbstractNote DEF Simulates
    <2>4. CASE notes[proc[p].req] # <<>>
      <3>1. notes' = notes
        BY <2>1, <2>2, <2>4 DEF TypeOK
      <3> QED BY <2>1, <3>1, AbstractStutter DEF Asked
    <2> QED BY <2>3, <2>4
  <1>26. ASSUME NEW p \in Procs, FinishRequest(p) PROVE Simulates
    <2>1. UNCHANGED <<pinned, notes>> /\ proc[p].req \in Requests /\ reqJob[proc[p].req] # "none"
      BY <1>26 DEF FinishRequest, Shape, ProcShape, NoJob
    <2>2. CASE Holds(p)
      <3>1. PICK what \in {"wait", "delayed", "failed", "done"} :
               reqJob' = [reqJob EXCEPT ![proc[p].req] = what]
        BY <1>26, <2>2 DEF FinishRequest
      <3>2. UNCHANGED Asked
        BY <2>1, <3>1, StillAsked
      <3> QED BY <2>1, <3>2, AbstractStutter
    <2>3. CASE ~Holds(p)
      BY <1>26, <2>1, <2>3, AbstractStutter DEF FinishRequest, Asked
    <2> QED BY <2>2, <2>3
  <1>27. ASSUME NEW p \in Procs, ProcCrash(p) PROVE Simulates
    <2>1. UNCHANGED <<pinned, notes>> /\ proc[p].req \in Requests /\ reqJob[proc[p].req] # "none"
      BY <1>27 DEF ProcCrash, Shape, ProcShape, NoJob
    <2>2. CASE Holds(p)
      <3>1. PICK what \in {"wait", "delayed", "failed", "done"} :
               reqJob' = [reqJob EXCEPT ![proc[p].req] = what]
        BY <1>27, <2>2 DEF ProcCrash, Stalls
      <3>2. UNCHANGED Asked
        BY <2>1, <3>1, StillAsked
      <3> QED BY <2>1, <3>2, AbstractStutter
    <2>3. CASE ~Holds(p)
      BY <1>27, <2>1, <2>3, AbstractStutter DEF ProcCrash, Asked
    <2> QED BY <2>2, <2>3
  <1>28. ASSUME NEW p \in Procs, LockLost(p) PROVE Simulates
    <2>1. UNCHANGED <<pinned, notes>> /\ proc[p].req \in Requests /\ reqJob[proc[p].req] # "none"
      BY <1>28 DEF LockLost, Shape, ProcShape, NoJob
    <2>2. CASE Holds(p)
      <3>1. PICK what \in {"wait", "delayed", "failed", "done"} :
               reqJob' = [reqJob EXCEPT ![proc[p].req] = what]
        BY <1>28, <2>2 DEF LockLost, Stalls
      <3>2. UNCHANGED Asked
        BY <2>1, <3>1, StillAsked
      <3> QED BY <2>1, <3>2, AbstractStutter
    <2>3. CASE ~Holds(p)
      BY <1>28, <2>1, <2>3, AbstractStutter DEF LockLost, Asked
    <2> QED BY <2>2, <2>3
  <1> QED
    BY <1>1, <1>2, <1>3, <1>4, <1>5, <1>6, <1>7, <1>8, <1>9, <1>10, <1>11, <1>12,
       <1>13, <1>14, <1>15, <1>16, <1>17, <1>18, <1>19, <1>20, <1>21, <1>22, <1>23, <1>24,
       <1>25, <1>26, <1>27, <1>28
       DEF Next, UploadStep, AssetStep, ProcStep

(* Whatever crashes, expires, is delayed or processed twice, a request is announced once,  *)
(* with its assets on IPFS, as Announcing says.                                            *)
THEOREM Refinement == Spec => ImplementsAnnouncing
  <1>1. Init => Implemented!Init
    <2> SUFFICES ASSUME Init PROVE Implemented!Init
      OBVIOUS
    <2>1. \A r \in Requests : Len(notes[r]) = 0
      BY DEF Init
    <2> QED BY <2>1 DEF Init, Implemented!Init
  <1>2. IInv /\ [Next]_vars => [Implemented!Next]_(Implemented!vars)
    <2> SUFFICES ASSUME IInv, [Next]_vars PROVE [Implemented!Next]_(Implemented!vars)
      OBVIOUS
    <2>1. CASE Next
      BY <2>1, Simulation DEF IInv, Simulates
    <2>2. CASE UNCHANGED vars
      BY <2>2, AbstractStutter DEF vars, Simulates, Asked
    <2> QED BY <2>1, <2>2
  <1> QED
    BY <1>1, <1>2, Inductive, PTL DEF Spec, ImplementsAnnouncing, Implemented!Spec
=============================================================================
