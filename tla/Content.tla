------------------------------ MODULE Content ------------------------------
(***************************************************************************)
(* From an upload to an announcement: ApiService stores assets and accepts *)
(* requests that refer to them, AssetProcessorService pins the assets on   *)
(* IPFS, and RequestProcessorService with DsnpAnnouncementProcessor waits  *)
(* until they are pinned, hashes them, and adds an announcement job.       *)
(*                                                                         *)
(* The queues are BullMQ's: a job that fails stays under its id, a         *)
(* completed asset job is removed, and to add a job under an id that is    *)
(* there does nothing.                                                     *)
(***************************************************************************)
EXTENDS Naturals, FiniteSets, Sequences

CONSTANTS
    Assets,
    Requests,
    Refs,         \* the assets a request refers to
    Uploads,      \* slots for calls of addAssets
    Procs,        \* processes, each with one request in hand
    None,
    AssetAttempts,  \* `attempts: 3` of an asset job
    MaxEvents,    \* bound: uploads and mishaps in one run
    Faults        \* which mishaps may happen

(* "crash": a process dies, or a Redis call of its fails; "ipfs": a call to IPFS fails; *)
(* "slow": a handler is outrun by the lock of its job, or by the delay it asked for     *)
(* (ASSET_UPLOAD_VERIFICATION_DELAY_SECONDS may be 0).                                  *)
ASSUME ContentAssumption ==
    /\ Refs \in [Requests -> SUBSET Assets]
    /\ Assets \cap Requests = {} /\ None \notin Procs \cup Requests
    /\ AssetAttempts \in Nat \ {0}
    /\ MaxEvents \in Nat
    /\ Faults \subseteq {"crash", "ipfs", "slow"}

VARIABLES
    upload,     \* what each call of addAssets is doing
    uploads,    \* uploads so far
    dataKey,    \* Redis: asset:data:<cid>, with the long or the short time to live
    metaKey,    \* Redis: asset:metadata:<cid>
    assetJob,   \* asset queue: what becomes of the job with this cid
    tries,      \* its attempts so far
    completed,  \* assets whose completed event is to be handled
    pinned,     \* IPFS: assets pinned
    validated,  \* requests whose assets the API has found, not enqueued yet
    reqJob,     \* request queue: the job with this id
    attempt,    \* its data.dependencyAttempt
    owner,      \* the process that holds its lock
    proc,       \* what each process does with the request in its hand
    notes,      \* announcement queue: the job of a request, with the assets it hashed as empty
    delays,     \* history: how often a request was delayed
    stalled,    \* jobs found stalled once
    faults      \* mishaps so far

api    == <<upload, uploads, validated>>
store  == <<dataKey, metaKey>>
asset  == <<assetJob, tries, completed, pinned>>
request == <<reqJob, attempt, owner, proc, notes, delays>>
vars == <<api, store, asset, request, stalled, faults>>

-----------------------------------------------------------------------------
UploadRec == [pc : {"idle", "jobs", "meta"}, files : SUBSET Assets]
NoUpload == [pc |-> "idle", files |-> {}]

ProcRec == [pc : {"idle", "check", "delay", "update", "prepare", "announce", "finish", "throw"},
            req : Requests \cup {None},
            tries : 0 .. 4,         \* dependencyAttempt, as read
            todo : SUBSET Assets,   \* getPinned calls that have not returned
            empty : SUBSET Assets]  \* those that returned an empty buffer

NoJob == [pc |-> "idle", req |-> None, tries |-> 0, todo |-> {}, empty |-> {}]

Mishap(kind) == /\ kind \in Faults
                /\ faults + uploads < MaxEvents
                /\ faults' = faults + 1

Init ==
    /\ upload = [u \in Uploads |-> NoUpload] /\ uploads = 0
    /\ dataKey = [a \in Assets |-> "none"] /\ metaKey = dataKey
    /\ assetJob = [a \in Assets |-> "none"]
    /\ tries = [a \in Assets |-> 0]
    /\ completed = {} /\ pinned = {} /\ validated = {}
    /\ reqJob = [r \in Requests |-> "none"]
    /\ attempt = [r \in Requests |-> 0] /\ delays = attempt
    /\ owner = [r \in Requests |-> None]
    /\ proc = [p \in Procs |-> NoJob]
    /\ notes = [r \in Requests |-> <<>>]
    /\ stalled = {} /\ faults = 0

-----------------------------------------------------------------------------
(* ApiService.addAssets: data in one transaction, then the jobs, then the metadata. *)

(* Mutant: the metadata comes before the jobs. *)
AfterMetaFirst(step) == CASE step = "data" -> "meta" [] step = "meta" -> "jobs"
                          [] step = "jobs" -> "idle"

After(step) == CASE step = "data" -> "jobs" [] step = "jobs" -> "meta" [] step = "meta" -> "idle"

Goto(u, step) == upload' = [upload EXCEPT ![u] = IF step = "idle" THEN NoUpload
                                                 ELSE [upload[u] EXCEPT !.pc = step]]

Long(key, files) == [a \in Assets |-> IF a \in files THEN "long" ELSE key[a]]

StoreData(u, files) ==
    /\ upload[u] = NoUpload /\ files # {}
    /\ faults + uploads < MaxEvents
    /\ uploads' = uploads + 1
    /\ dataKey' = Long(dataKey, files)
    /\ upload' = [upload EXCEPT ![u] = [pc |-> After("data"), files |-> files]]
    /\ UNCHANGED <<validated, metaKey, asset, request, stalled, faults>>

AddJobs(u) ==
    LET new == {a \in upload[u].files : assetJob[a] = "none"} IN
    /\ upload[u].pc = "jobs"
    /\ assetJob' = [a \in Assets |-> IF a \in new THEN "wait" ELSE assetJob[a]]
    /\ tries' = [a \in Assets |-> IF a \in new THEN 0 ELSE tries[a]]
    /\ stalled' = stalled \ new
    /\ Goto(u, After("jobs"))
    /\ UNCHANGED <<uploads, validated, store, completed, pinned, request, faults>>

StoreMetadata(u) ==
    /\ upload[u].pc = "meta"
    /\ metaKey' = Long(metaKey, upload[u].files)
    /\ Goto(u, After("meta"))
    /\ UNCHANGED <<uploads, validated, dataKey, asset, request, stalled, faults>>

UploadFails(u) ==
    /\ upload[u] # NoUpload
    /\ Mishap("crash")
    /\ Goto(u, "idle")
    /\ UNCHANGED <<uploads, validated, store, asset, request, stalled>>

-----------------------------------------------------------------------------
(* AssetProcessorService. *)

TakeAsset(a) ==
    /\ assetJob[a] = "wait"
    /\ assetJob' = [assetJob EXCEPT ![a] = "read"]
    /\ UNCHANGED <<api, store, tries, completed, pinned, request, stalled, faults>>

(* A backoff later it is tried again. *)
AttemptThrows(a) ==
    /\ tries' = [tries EXCEPT ![a] = @ + 1]
    /\ assetJob' = [assetJob EXCEPT ![a] = IF tries[a] + 1 < AssetAttempts THEN "wait" ELSE "failed"]

ReadData(a) ==
    /\ assetJob[a] = "read"
    /\ \/ /\ dataKey[a] # "none"
          /\ assetJob' = [assetJob EXCEPT ![a] = "pin"]
          /\ UNCHANGED tries
       \/ /\ dataKey[a] = "none"
          /\ AttemptThrows(a)
    /\ UNCHANGED <<api, store, completed, pinned, request, stalled, faults>>

Pin(a) ==
    /\ assetJob[a] = "pin"
    /\ pinned' = pinned \cup {a}
    /\ assetJob' = [assetJob EXCEPT ![a] = "finish"]
    /\ UNCHANGED <<api, store, tries, completed, request, stalled, faults>>

PinThrows(a) ==
    /\ assetJob[a] = "pin"
    /\ Mishap("ipfs")
    /\ AttemptThrows(a)
    /\ UNCHANGED <<api, store, completed, pinned, request, stalled>>

FinishAsset(a) ==
    /\ assetJob[a] = "finish"
    /\ assetJob' = [assetJob EXCEPT ![a] = "none"]
    /\ completed' = completed \cup {a}
    /\ UNCHANGED <<api, store, tries, pinned, request, stalled, faults>>

(* EXPIRE ... LT shortens a key's life, if it is there; zero seconds delete it. *)
ShortLives(key) == IF key = "none" THEN {"none"} ELSE {"short", "none"}

OnCompleted(a) ==
    /\ a \in completed
    /\ completed' = completed \ {a}
    /\ \E left \in ShortLives(dataKey[a]) : dataKey' = [dataKey EXCEPT ![a] = left]
    /\ \E left \in ShortLives(metaKey[a]) : metaKey' = [metaKey EXCEPT ![a] = left]
    /\ UNCHANGED <<api, assetJob, tries, pinned, request, stalled, faults>>

AssetCrash(a) ==
    /\ Mishap("crash")
    /\ \/ /\ assetJob[a] \in {"read", "pin", "finish"}
          /\ assetJob' = [assetJob EXCEPT ![a] = IF a \in stalled THEN "failed" ELSE "wait"]
          /\ stalled' = stalled \cup {a}
          /\ UNCHANGED completed
       \/ /\ a \in completed
          /\ completed' = completed \ {a}
          /\ UNCHANGED <<assetJob, stalled>>
    /\ UNCHANGED <<api, store, tries, pinned, request>>

(* A long life is 45 days: no upload and no job takes that long. *)
Ends(key, a) ==
    /\ key[a] # "none"
    /\ key[a] = "long" => /\ assetJob[a] \in {"none", "failed"}
                          /\ \A u \in Uploads : a \notin upload[u].files

Expire(a) ==
    /\ \/ Ends(dataKey, a) /\ dataKey' = [dataKey EXCEPT ![a] = "none"] /\ UNCHANGED metaKey
       \/ Ends(metaKey, a) /\ metaKey' = [metaKey EXCEPT ![a] = "none"] /\ UNCHANGED dataKey
    /\ UNCHANGED <<api, asset, request, stalled, faults>>

-----------------------------------------------------------------------------
(* ApiService.validateAssetsAndFetchMetadata and enqueueRequest. *)

Accepts(r) == \A a \in Refs[r] : metaKey[a] # "none"

(* The controller's handler enqueues what it has validated after another await. *)
Validate(r) ==
    /\ r \notin validated
    /\ Accepts(r)
    /\ validated' = validated \cup {r}
    /\ UNCHANGED <<upload, uploads, store, asset, request, stalled, faults>>

Enqueue(r) ==
    /\ r \in validated
    /\ validated' = validated \ {r}
    /\ IF reqJob[r] = "none"
       THEN /\ reqJob' = [reqJob EXCEPT ![r] = "wait"]
            /\ attempt' = [attempt EXCEPT ![r] = 0]
            /\ delays' = [delays EXCEPT ![r] = 0]
            /\ stalled' = stalled \ {r}
       ELSE UNCHANGED <<reqJob, attempt, delays, stalled>>
    /\ UNCHANGED <<upload, uploads, store, asset, owner, proc, notes, faults>>

EnqueueFails(r) ==
    /\ r \in validated
    /\ Mishap("crash")
    /\ validated' = validated \ {r}
    /\ UNCHANGED <<upload, uploads, store, asset, request, stalled>>

(* removeOnComplete: 2000 later requests push a completed one out, and its announcement too *)
(* if they were of its type.  No handler takes as long as that.                             *)
Evict(r) ==
    /\ reqJob[r] = "done"
    /\ \A p \in Procs : proc[p].req # r
    /\ reqJob' = [reqJob EXCEPT ![r] = "none"]
    /\ notes' \in {notes, [notes EXCEPT ![r] = <<>>]}
    /\ UNCHANGED <<api, store, asset, attempt, owner, proc, delays, stalled, faults>>

-----------------------------------------------------------------------------
(* RequestProcessorService. *)

(* Which of the idle processes takes a job makes no difference. *)
FirstIdle == CHOOSE p \in Procs : proc[p] = NoJob

TakeRequest(p, r) ==
    /\ proc[p] = NoJob /\ p = FirstIdle
    /\ reqJob[r] = "wait"
    /\ reqJob' = [reqJob EXCEPT ![r] = "active"]
    /\ owner' = [owner EXCEPT ![r] = p]
    /\ proc' = [proc EXCEPT ![p] = [pc |-> "check", req |-> r, tries |-> attempt[r],
                                    todo |-> Refs[r], empty |-> {}]]
    /\ UNCHANGED <<api, store, asset, attempt, notes, delays, stalled, faults>>

(* getPinned: isPinned logs an error of its request and returns undefined, so that the    *)
(* buffer is empty not only when the asset is not pinned.                                 *)
Answered(p, a, missing) == [proc[p] EXCEPT !.todo = @ \ {a}, !.empty = @ \cup missing]

GetPinned(p, a) ==
    /\ a \in proc[p].todo
    /\ \/ /\ proc' = [proc EXCEPT ![p] = Answered(p, a, {a} \ pinned)]
          /\ UNCHANGED faults
       \/ /\ Mishap("ipfs")
          /\ proc' = [proc EXCEPT ![p] = Answered(p, a, {a})]
       \/ /\ Mishap("ipfs") /\ a \in pinned
          /\ proc' = [proc EXCEPT ![p].pc = "throw"]

Check(p, a) ==
    /\ proc[p].pc = "check"
    /\ GetPinned(p, a)
    /\ UNCHANGED <<api, store, asset, reqJob, attempt, owner, notes, delays, stalled>>

(* Mutant: after the last delay the request goes on with what there is. *)
MissingEarly(p) == proc[p].empty # {} /\ proc[p].tries < 3

SomeAreMissing(p) == proc[p].empty # {}

(* delayJobAndIncrementAttempts: 'Dependency failed!' after three delays. *)
Postpone(p) == LET next == proc[p].tries + 1 IN
               [proc[p] EXCEPT !.pc = IF next <= 3 THEN "delay" ELSE "throw", !.tries = next]

(* prepareNote asks for the assets again. *)
Prepare(p) == [proc[p] EXCEPT !.pc = "prepare", !.todo = Refs[proc[p].req], !.empty = {}]

Decide(p) ==
    /\ proc[p].pc = "check" /\ proc[p].todo = {}
    /\ proc' = [proc EXCEPT ![p] = IF SomeAreMissing(p) THEN Postpone(p) ELSE Prepare(p)]
    /\ UNCHANGED <<api, store, asset, reqJob, attempt, owner, notes, delays, stalled, faults>>

(* The history need not count beyond what it is compared with. *)
OneMore(count) == IF count > 3 + MaxEvents THEN count ELSE count + 1

Holds(p) == owner[proc[p].req] = p

(* Who has lost the lock cannot move the job: moveToDelayed throws, and nothing comes of it. *)
MoveToDelayed(p) ==
    LET r == proc[p].req IN
    /\ proc[p].pc = "delay"
    /\ IF Holds(p)
       THEN /\ reqJob' = [reqJob EXCEPT ![r] = "delayed"]
            /\ owner' = [owner EXCEPT ![r] = None]
            /\ delays' = [delays EXCEPT ![r] = OneMore(@)]
            /\ proc' = [proc EXCEPT ![p].pc = "update", ![p].empty = {}]
       ELSE /\ proc' = [proc EXCEPT ![p] = NoJob]
            /\ UNCHANGED <<reqJob, owner, delays>>
    /\ UNCHANGED <<api, store, asset, attempt, notes, stalled, faults>>

(* Mutant: the data is updated as it was read. *)
UpdateStale(p) ==
    /\ proc[p].pc = "update"
    /\ attempt' = [attempt EXCEPT ![proc[p].req] = proc[p].tries - 1]
    /\ proc' = [proc EXCEPT ![p] = NoJob]
    /\ UNCHANGED <<api, store, asset, reqJob, owner, notes, delays, stalled, faults>>

(* job.updateData needs no lock; the DelayedError that follows ends the handler. *)
UpdateData(p) ==
    /\ proc[p].pc = "update"
    /\ attempt' = [attempt EXCEPT ![proc[p].req] = proc[p].tries]
    /\ proc' = [proc EXCEPT ![p] = NoJob]
    /\ UNCHANGED <<api, store, asset, reqJob, owner, notes, delays, stalled, faults>>

(* The delay is over; it may be before the handler has updated the data. *)
Promote(r) ==
    /\ reqJob[r] = "delayed"
    /\ IF \E p \in Procs : proc[p].pc = "update" /\ proc[p].req = r
       THEN Mishap("slow") ELSE UNCHANGED faults
    /\ reqJob' = [reqJob EXCEPT ![r] = "wait"]
    /\ UNCHANGED <<api, store, asset, attempt, owner, proc, notes, delays, stalled>>

-----------------------------------------------------------------------------
(* DsnpAnnouncementProcessor: the note is pinned, then the announcement job is added. *)

(* Mutant: the job gets an id of its own. *)
AddedAnew(r, note) == notes' = [notes EXCEPT ![r] = Append(@, note)]

(* jobId: data.id. *)
Added(r, note) == notes' = [notes EXCEPT ![r] = IF @ = <<>> THEN <<note>> ELSE @]

(* The attachments' hashes are taken over what getPinned returns this time. *)
HashAttachment(p, a) ==
    /\ proc[p].pc = "prepare"
    /\ GetPinned(p, a)
    /\ UNCHANGED <<api, store, asset, reqJob, attempt, owner, notes, delays, stalled>>

PinNote(p) ==
    /\ proc[p].pc = "prepare" /\ proc[p].todo = {}
    /\ \/ proc' = [proc EXCEPT ![p].pc = "announce"] /\ UNCHANGED faults
       \/ Mishap("ipfs") /\ proc' = [proc EXCEPT ![p].pc = "throw"]
    /\ UNCHANGED <<api, store, asset, reqJob, attempt, owner, notes, delays, stalled>>

Announce(p) ==
    /\ proc[p].pc = "announce"
    /\ Added(proc[p].req, proc[p].empty)
    /\ proc' = [proc EXCEPT ![p].pc = "finish"]
    /\ UNCHANGED <<api, store, asset, reqJob, attempt, owner, delays, stalled, faults>>

(* Mutant: after an error the handler's promise does not settle. *)
FinishDone(p) ==
    LET r == proc[p].req IN
    /\ proc[p].pc = "finish" /\ Holds(p)
    /\ reqJob' = [reqJob EXCEPT ![r] = "done"] /\ owner' = [owner EXCEPT ![r] = None]
    /\ proc' = [proc EXCEPT ![p] = NoJob]
    /\ UNCHANGED <<api, store, asset, attempt, notes, delays, stalled, faults>>

(* Request jobs have one attempt: done or failed is for good. *)
FinishRequest(p) ==
    LET r == proc[p].req
        end == IF proc[p].pc = "finish" THEN "done" ELSE "failed" IN
    /\ proc[p].pc \in {"finish", "throw"}
    /\ IF Holds(p)
       THEN reqJob' = [reqJob EXCEPT ![r] = end] /\ owner' = [owner EXCEPT ![r] = None]
       ELSE UNCHANGED <<reqJob, owner>>
    /\ proc' = [proc EXCEPT ![p] = NoJob]
    /\ UNCHANGED <<api, store, asset, attempt, notes, delays, stalled, faults>>

(* Mutant: its lock is not taken from the process. *)
StallsLocked(r) ==
    /\ reqJob' = [reqJob EXCEPT ![r] = IF r \in stalled THEN "failed" ELSE "wait"]
    /\ stalled' = stalled \cup {r}
    /\ UNCHANGED owner

(* The job goes back to the queue, unless it has been there before: maxStalledCount is 1. *)
Stalls(r) ==
    /\ reqJob' = [reqJob EXCEPT ![r] = IF r \in stalled THEN "failed" ELSE "wait"]
    /\ owner' = [owner EXCEPT ![r] = None]
    /\ stalled' = stalled \cup {r}

ProcCrash(p) ==
    /\ proc[p] # NoJob
    /\ Mishap("crash")
    /\ IF Holds(p) THEN Stalls(proc[p].req) ELSE UNCHANGED <<reqJob, owner, stalled>>
    /\ proc' = [proc EXCEPT ![p] = NoJob]
    /\ UNCHANGED <<api, store, asset, attempt, notes, delays>>

LockLost(p) ==
    /\ proc[p] # NoJob /\ Holds(p)
    /\ Mishap("slow")
    /\ Stalls(proc[p].req)
    /\ UNCHANGED <<api, store, asset, attempt, proc, notes, delays>>

-----------------------------------------------------------------------------
UploadStep(u) == AddJobs(u) \/ StoreMetadata(u)
AssetStep(a) == TakeAsset(a) \/ ReadData(a) \/ Pin(a) \/ FinishAsset(a)
ProcStep(p) == \/ \E a \in Assets : Check(p, a) \/ HashAttachment(p, a)
               \/ Decide(p) \/ MoveToDelayed(p) \/ UpdateData(p)
               \/ PinNote(p) \/ Announce(p) \/ FinishRequest(p)

Next == \/ \E u \in Uploads : \/ \E files \in SUBSET Assets : StoreData(u, files)
                              \/ UploadStep(u) \/ UploadFails(u)
        \/ \E a \in Assets : \/ AssetStep(a) \/ PinThrows(a) \/ OnCompleted(a)
                             \/ AssetCrash(a) \/ Expire(a)
        \/ \E r \in Requests : Validate(r) \/ Enqueue(r) \/ EnqueueFails(r) \/ Evict(r) \/ Promote(r)
        \/ \E p \in Procs : \/ \E r \in Requests : TakeRequest(p, r)
                            \/ ProcStep(p) \/ ProcCrash(p) \/ LockLost(p)

Spec == Init /\ [][Next]_vars

(* Workers run: they take jobs and their requests are answered; delays end. *)
Fairness ==
    /\ \A a \in Assets : WF_vars(AssetStep(a))
    /\ \A r \in Requests : WF_vars(Promote(r)) /\ WF_vars(\E p \in Procs : TakeRequest(p, r))
    /\ \A p \in Procs : WF_vars(ProcStep(p))

FairSpec == Spec /\ Fairness

-----------------------------------------------------------------------------
(* Properties. *)

KeyStates == {"none", "long", "short"}

(* Every variable has its type, and a lock belongs to the process that has the job in hand. *)
TypeOK ==
    /\ upload \in [Uploads -> UploadRec] /\ uploads \in 0 .. MaxEvents
    /\ {dataKey, metaKey} \subseteq [Assets -> KeyStates]
    /\ assetJob \in [Assets -> {"none", "wait", "read", "pin", "finish", "failed"}]
    /\ tries \in [Assets -> 0 .. AssetAttempts]
    /\ completed \subseteq Assets /\ pinned \subseteq Assets /\ validated \subseteq Requests
    /\ reqJob \in [Requests -> {"none", "wait", "active", "delayed", "done", "failed"}]
    /\ attempt \in [Requests -> 0 .. 3]
    /\ owner \in [Requests -> Procs \cup {None}]
    /\ proc \in [Procs -> ProcRec]
    /\ notes \in [Requests -> Seq(SUBSET Assets)]
    /\ delays \in [Requests -> Nat]
    /\ stalled \subseteq Assets \cup Requests
    /\ faults \in 0 .. MaxEvents
    /\ \A r \in Requests : IF reqJob[r] = "active" THEN proc[owner[r]].req = r ELSE owner[r] = None

(* api.service.ts, the comment on its three transactions: whatever step of an upload fails, *)
(* an asset a request may refer to is pinned, or its job and its data are there to pin it   *)
(* with, or the job has failed (and then no upload of the same file starts another).        *)
ReferenceableIsPinnable ==
    \A a \in Assets : metaKey[a] # "none" =>
        \/ a \in pinned
        \/ assetJob[a] = "failed"
        \/ assetJob[a] # "none" /\ dataKey[a] # "none"

(* What is announced refers to assets on IPFS, however their pinning and the checks of      *)
(* the request's attempts interleave.                                                       *)
AnnouncedIsPinned == \A r \in Requests : notes[r] # <<>> => Refs[r] \subseteq pinned

(* A request processed twice (its lock was lost, its process died after the announcement,   *)
(* it was submitted again after it was evicted) is announced once, as long as the queue     *)
(* remembers the announcement: from upload to announcement all this implements Announcing.  *)
Implemented == INSTANCE Announcing WITH
    asked <- {r \in Requests : reqJob[r] # "none"},
    available <- pinned,
    noted <- [r \in Requests |-> Len(notes[r])]
ImplementsAnnouncing == Implemented!Spec

(* dependencyAttempt is read with the job and written after it was moved: each mishap costs *)
(* at most one count, and the request is delayed three times otherwise.                     *)
DelaysAreBounded == \A r \in Requests : delays[r] <= 3 + faults

(* A request is announced or fails, although it waits for assets that may never come.       *)
RequestIsSettled == \A r \in Requests : (reqJob[r] # "none") ~> (reqJob[r] \in {"done", "failed"})

(* ipfs.client.ts, getPinned: "buffer of the data if exists and an empty buffer if not":    *)
(* no asset on IPFS is announced with the hash of nothing.                                  *)
NothingPinnedIsEmpty ==
    \A r \in Requests : \A i \in DOMAIN notes[r] : notes[r][i] \cap pinned = {}
=============================================================================
