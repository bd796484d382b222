# A TLA+ model of the Content Publishing Service

The service takes content from users' applications over HTTP, pins files and
notes on IPFS, collects the resulting DSNP announcements into batches, and
publishes each batch with one transaction on the Frequency chain. It consists of
an API process and any number of worker processes. They share nothing but Redis,
where BullMQ keeps the queues, and a few keys of the service itself live.

What makes it hard is not any single function. It is that every handler is a
sequence of awaits, and between two of them other handlers, other processes, the
stalled-job checker, a restart or the chain may move. This directory states what
must hold in spite of that, checks it with TLC on small instances, and proves all of
it that is not liveness with TLAPS for every instance.

Paths below are relative to `src/`.

## Inventory

| Component | Code | State | Operations |
|---|---|---|---|
| API upload | `apps/api/src/api.service.ts` `addAssets` | `asset:data:*`, `asset:metadata:*`, asset queue | three Redis transactions in a row |
| API requests | `content.controller.ts`, `profile.controller.ts`, `enqueueRequest` | request queue | validate the assets' metadata, add a job under a hash of the request |
| Request validation | `libs/common/src/dtos`, `dsnp-validation.decorator.ts` | none | accept or reject a body of each of six types |
| Asset processor | `apps/worker/src/asset_processor` | IPFS, lives of the two keys | read, pin, on completion shorten the lives |
| Request processor | `request_processor` | request queue, `dependencyAttempt`, announcement queues | ask IPFS for the assets, delay or hash them, build and pin the note, add the announcement |
| Batching stage | `batching_processor`, `lua/addToBatch.lua`, `lua/lockBatch.lua` | open batch, locked batch, timers, batch queue | add a row; close on count, timeout, boot |
| Batch announcer | `batch_announcer` | IPFS, publish queue | write parquet, pin, add a publish job |
| Publisher | `publisher/publishing.service.ts`, `ipfs.publisher.ts` | receipt queue, `capacityExhausted`, a named timeout | submit, leave a receipt job, check the capacity |
| Nonce service | `publisher/nonce.service.ts`, `lua/incrementNonce.lua` | `chain:nonce:*` keys | reserve the first free number from the node's index on |
| Monitor | `monitor/tx.status.monitor.service.ts` | publish queue, `epochCapacity:*` | look a transaction up in a window of blocks; settle it or put its batch back |
| Blockchain service | `libs/common/src/blockchain` | none of its own | crawl blocks, read ledger and epoch, sign and send |
| IPFS client | `libs/common/src/utils/ipfs.client.ts` | none | pin, cat, is it pinned? |
| Routing tables | `utils/queues.ts`, `utils/dsnp.schema.ts` | none | queue of a type, type of a queue, schema id on a chain |
| Graceful shutdown | `apps/worker/src/BaseConsumer.ts`, `utils/processing.ts` | the ids of running jobs | track, untrack, wait at the end |
| The rest | configuration, health and development endpoints, wiring | | see "Not modelled" |

    upload ──> asset queue ──> asset processor ──> IPFS
                                                     ^
    request ─> request queue ─> request processor ───┤ asks, hashes, pins the note
                                     │
                                     v
                   six announcement queues ─> batching stage ─> batch queue
                                                                    │
        chain <── publisher <── publish queue <── batch announcer <─┘
          │           │ receipt queue      ^
          └────────> monitor ──────────────┘ puts a batch back

Every arrow between two stages is a BullMQ queue, and three facts about BullMQ
carry most of the correctness: a job is handed out again when its lock runs out
(at most once with the default `maxStalledCount`), a job that throws is tried
again while it has attempts, and adding a job under an id that is in use does
nothing. The models have all three. The points where they bite are listed, line by
line, under `hazards` in `PROJECT.json`.

## Modules

There are two kinds. A *detailed* module is one stretch of the pipeline between
two queues, so that the modules can be read and checked apart. All have the same
shape: a *call* is one run of an asynchronous function with a program counter
`pc` that names the command it awaits; one action per command; a set `Faults` of
mishaps that a configuration allows, and a bound on how many occur in one run. An
*abstract* module is what such a stretch promises to the next, in three or four
actions; the detailed one is checked to implement it, and `Pipeline` puts the
abstract ones together.

| Module | Models | Calls are |
|---|---|---|
| `Content` | uploads, asset processor, requests, request processor | `addAssets`, request handlers, `process` |
| `Announcing` | what `Content` promises (abstract) | |
| `Batching` | the batching stage | `process`, the handler of a batch timeout, `setupActiveBatchTimeout` |
| `BatchDelivery` | what `Batching` promises (abstract) | |
| `Publishing` | announcer, publisher, monitor, the part of the chain they see | `process` of the three services |
| `Publication` | what `Publishing` promises (abstract) | |
| `Pipeline` | `Announcing`, `BatchDelivery` and `Publication`, joined by their queues | |
| `Requests` | what a request says: validation, MIME types, job id, note, announcement, queue, schema | HTTP handlers, request jobs |
| `Capacity` | `checkCapacity`, its two event handlers, timeouts, `setEpochCapacity` | publish jobs, checks, handlers, monitor updates |
| `Nonce` | `getNextNonce` and the submission after it | publishers, and the log line at boot |
| `Shutdown` | `BaseConsumer`: tracked jobs and `onModuleDestroy` | a worker's `process` calls and its completed handlers |
| `MC*` | values of constants that a configuration cannot write down | |
| `Content_proofs`, `Batching_proofs`, `Publishing_proofs`, `Pipeline_proofs`, `Requests_proofs`, `Capacity_proofs`, `Nonce_proofs`, `Shutdown_proofs` | theorems about the module of that name | |

How state corresponds to code:

* **Batching.** `openId`, `rowCount`, `openRows` are the two keys of the open
  batch; `lockId`, `lockRows` the two locked keys after the RENAMEs;
  `lockExpired` says that `lockTimestamp` is more than six seconds old. `out` is
  the batch queue as a function of job ids, `timers` the timeouts in each
  process's memory. `LockBatch` is the script with its four replies; after it a
  closer holds the rows in `call[c].rows`, as the code does in a local variable,
  and `Emit`, `Unlock`/`UnlockFails` and `NextRound` are the rest of `closeBatch`.
  `Restart` and `SetupActiveBatchTimeout` are the boot. The six announcement
  types use keys with their own names, so one of them is modelled. `minted`,
  `accepted`, `dropped`, `orphaned` and `untimed` are history; the last has the
  batches whose timeout was not set because a command failed, or fired while a
  slow closer held the lock.
* **Publishing.** The three queues are one function `state` on jobs, since their
  ids are disjoint (batch job, batch id, transaction hash). `Take`, `Finish`,
  `StallJob`, `Evict` are BullMQ's; `Announce`, `Enqueue` the announcer;
  `Send`, `Track`, `Check` the publisher's three awaits; `Crawl`, `Remove`, `Readd` the monitor's.
  Each has a form that throws, and where a request may take effect although its
  answer is lost both outcomes are there. The announcer is in this module and not
  in `Batching` because it shares the publish queue with the monitor. Whether the
  queue is paused is all that is left of capacity here. `interrupted`, `reorged`
  and `kept` are history: batches with a call that was cut short after an effect,
  with a replaced block, and with a publish job that was locked when the monitor
  wanted to replace it.
* **Capacity.** `flag`, `registry`, `stray` are the memory of a process:
  `capacityExhausted`, the timeout under the registered name, and timeouts that
  run although their name was taken. The handlers of an event that nobody awaits
  are calls of their own. `used` is `epochCapacity:<epoch>`.
* **Nonce.** `keys` are the names of the live keys; `older` and `late` remember
  which calls were running when a key was set, because a key's life (two seconds)
  matters only in relation to calls. A name is what the code makes of it
  (`KeyName`): `getNonce` returns the node's `Index` codec unconverted, so
  `currentNonce + i` appends the digits of `i` to those of the index. The keys of a
  caller that was told 5 are `50`, `51`, ..., and of one that was told 6 `60`, `61`,
  ...: a number has another key for each index it can be reached from. `meant`,
  `origin`, `skipped` and `unsafe` are history.
* **Content.** `dataKey` and `metaKey` have a long life (45 days), a short one,
  or none. A request's asset checks are one step per asset. `After` is the order
  of the upload's three transactions.
* **Requests.** A body is a record with the fields that some check or switch
  looks at; a date or a tag type is one representative of each way it is treated
  (a date: by whether `IsISO8601` and whether JavaScript's `Date` reads it), a user
  id its digits. Where the DTOs nest objects, an array may be in place of one
  (`IsArray`, the flag `array`), since `ValidateNested` walks through it. `Valid` is the DTO of the handler's type, `AssetsAreKnown`
  and `AssetToMimeType` are `validateAssetsAndFetchMetadata`. The worker's part is
  one step per reference, because the callbacks of its nested `map`s push to
  shared arrays as IPFS answers: `todo` are the references still to be hashed,
  `links` and `attachments` the arrays. `Batch` is where `closeBatch` looks up the
  schema. Retries and pinning are `Content`'s; here a job fails or does not.
* **Shutdown.** `actives` is the set of the same name; `locks` the slots whose job
  is still theirs; `handlers` the running handlers of the completed event, which
  alone outlive `worker.close(false)`. A call ends `Completed`, `Failed`, or
  `Unsettled` with no event to untrack its id: after `LoseLock`, or after
  `MoveToDelayed`, when the request processor gives its job back and throws
  `DelayedError`. `lost` and `delayed` are the history of the two.
* **Pipeline.** Each stage brings its three variables. `Note` is where the request
  processor adds to the announcement queue, `Store` where a batching worker takes
  from it, `Emit` where `closeBatch` adds to the batch queue and `Order` where the
  announcer takes from that. The id of a request is the id of its row, and the id
  of a batch is the id of its publish job, as in the code.

Lines marked "Mutant" are faulty variants of the definition below them, each a
plausible bug. They are used by no specification; `PROJECT.json` pairs every
property with one that breaks it.

## Runs

| Run | Configuration | Bounds | Result |
|---|---|---|---|
| `batching_faults` | `Batching_faults.cfg` | 2 jobs, 4 batch ids, 2 processes of which one starts later, 2 calls, batches of 2, one fault of any kind; 0.84 M states | holds |
| `batching_stranded` | `Batching_stranded.cfg` | 1 job, 1 crash | violated, see below |
| `publishing_faults` | `MCPublishing_faults.cfg` | 1 batch, 3 transactions, 2 calls at once, 2 of 13 kinds of mishaps; 1.06 M | holds |
| `publishing_dropped` | `MCPublishing_dropped.cfg` | 1 transaction, the real 3 and 4 attempts | violated |
| `capacity_faults` | `Capacity_faults.cfg` | 1 process with 2 listeners, 2 calls, 2 epochs, 1 fault; 1.2 M | holds |
| `capacity_limit` | `Capacity_limit.cfg` | no fault at all | violated |
| `nonce_faults` | `Nonce_faults.cfg` | 3 publishers, 2 candidate keys, indices to 1, numbers to 3, 1 fault; 0.60 M | holds |
| `content_faults` | `MCContent_faults.cfg` | 1 asset, 1 request, 2 processes, 3 uploads and faults together; 0.60 M | holds |
| `content_empty` | `MCContent_empty.cfg` | 1 asset, 1 failing request to IPFS | violated |
| `requests_all` | `MCRequests_all.cfg` | 2 HTTP calls, 33 bodies, 2 assets, 2 chains; 0.58 M | holds |
| `shutdown` | `Shutdown.cfg` | 2 ids, 2 slots, the real 20 polls; 81 k | holds |
| `pipeline` | `MCPipeline.cfg` | 2 requests, 1 asset, 3 batches, 2 transactions; 64 k | holds |

What the properties say:

* `KeysInStep`: the keys of a batch live and die together, and its count is
  exact while no job was repeated. `DedupIsSafe`: however many closers read the
  same locked batch, BullMQ's deduplication by batch id drops only equal copies.
  `LossNeedsTwoMishaps`: a stored row is lost only if its lock was deleted by
  another batch's closer *and* its own closer died. `NoDoubleBatching`: a row is
  in two batches only if its job was handed out twice. `ImplementsDelivery`: all
  of this as a refinement of `BatchDelivery`. `OpenBatchIsWatched` and
  `StoredIsEmitted`: every open batch has someone who will close it, and every
  stored row gets to the batch queue, unless a lock was left behind or the batch's
  timeout was lost to a failing command or a slow closer.
* `PublishedOnce`, `SentIsTracked`, `CompletedWasSent`, `EveryBatchIsSettled`: a
  batch gets to the chain once, or leaves a trace, and no transaction is
  unobserved. The excuses are history variables, and they are exactly the
  hazards: a call cut short after its effect, a block that was replaced, and a
  publish job that outlasts its own receipt. `ImplementsPublication`: a batch is
  submitted again only when its earlier transaction is lost or has failed.
* `RecheckIsPending`, `ExhaustionIsNotStale`: a process that noted the
  exhaustion will look again. This is worth checking because the timeout's name
  may be taken by one that has fired.
* `DrawnOnce`: publishers that run at once and were told the same index have drawn
  different numbers, while the keys hold. `ClashNeedsGap`: a number the node already
  has a transaction for is drawn only above a gap, after an outlasted key, when all
  keys were taken, or if that transaction was drawn from another index.
  `GapsAreFilled`: a number that was skipped is submitted later. Between publishers
  that were told different indices there is no promise to state, see below.
* `ReferenceableIsPinnable` is the comment in `addAssets` on partial failures;
  `AnnouncedIsPinned`, `DelaysAreBounded`, `RequestIsSettled` are about the request
  that waits for its assets, and `ImplementsAnnouncing` says that it is announced
  once as long as the queues remember it.
* `AcceptedCanBeBuilt`: the DTOs and the worker's switches are two lists of the
  same cases, apart from what `Overlooked` lists: dates JavaScript cannot read, and
  arrays in place of a note, a tag or an asset. `NothingIsLeftOut`: every attachment and
  every reference is in the note, whatever order IPFS answers in. `IconsAreImages`:
  also when the file is uploaded under another type meanwhile.
  `FiledUnderItsSchema`: the announcement's type, its queue and the schema of its
  batch agree on each chain. `OneSpellingPerUser` and `ResentIsRecognized`: the job
  id recognizes a request that is sent again, and only that.
* `HandlersAreAwaited`, `TrackedIsAlive`, `ShutdownEnds`: the shutdown waits for
  completed handlers, in vain only after a lost lock or a delayed request, and not for
  ever.
* `OnChainOnce`, `OnChainIsAnswerable`: from the API to the chain.

### From the parts to the whole

`ImplementsAnnouncing`, `ImplementsDelivery` and `ImplementsPublication` are the
abstract specifications as properties of the detailed ones, with all their faults.
`Pipeline` joins the abstract ones. A fault inside a stage is visible outside only
as what the abstract stage allows: `Forget` (the request queue has evicted a job, and
the announcement queue perhaps too), `Repeat` (an announcement was handed out
twice) and `Disturb`. `OnChainOnce` is then a statement about two deduplications in
a row, by request id and by batch id: neither stage alone can promise it, since
each only promises not to multiply what it is handed. The three refinements and the
two properties of `Pipeline` are proved. What links the detailed and the composed
level is by reading: the actions of two stages that share a queue are one action in
`Pipeline`.

### Bounds, and why they are enough

Two calls, or three where a race needs a bystander, are enough for every pair of
handlers to interleave at every await. Two rows with batches of two give a
full batch, a batch closed on its timeout, and one that is opened while the other
is locked, and a repeated job gives a row more; four batch ids leave fresh ones after
that. One mishap in `batching_faults` is what liveness can afford; the same
configuration has also been run with two of them, without liveness or with one
process, and what depends on more rows or processes is covered by the theorems, as
are the safety properties of the other runs beyond their bounds. In
`publishing_faults` and `content_faults` two and three reach the double faults, such
as a crash and then a dropped transaction. Three transactions let a batch be sent
twice again after a first transaction. The bodies of `requests_all` are, per check
and switch, one that passes and one that is there to be rejected, and pairs that are
close to each other. In `nonce_faults` two indices with two candidates each let a number
be reached from both of them; that two numbers share a key (from 1 on the key of 21 is
`120`, and so is the key of 12 from 12 on) takes more than ten candidates and is left to
the theorems. The mutants show that each property is sensitive within these
bounds. Two epochs let a timeout fire in an epoch after the one it was set in.

Slots and processes that nothing tells apart are taken in a fixed order where a job
is handed out (`FirstIdle` in `Batching`, `Publishing` and `Content`); batches and transactions
of `Pipeline` are declared symmetric. `MaxNonce`, `MaxEpoch`, `MaxJobs`, `MaxEvents`,
`MaxFaults`, `MaxHandlers`, the slots for calls, and the sets `BatchIds` and `Txs`
are bounds of the model and not of the program; `GapsAreFilled` is asked only of
numbers whose candidates lie within the bound. `CHECK_DEADLOCK FALSE` is set where
the system may really come to rest: all jobs done, no timeout pending.

### Fairness, and why the code justifies it

Weak fairness everywhere, of these kinds: an awaited command is answered (each
call's next step); BullMQ hands out a waiting job when a call is free, and finds
a job without an owner (its stalled checker runs every 30 seconds); a due
`setTimeout` fires while its process lives; a process that died is restarted by
its supervisor; keys and locks reach their expiry; the chain begins new epochs and includes what it
does not drop. Finality is not assumed. No fairness is assumed for faults, for uploads and
requests, for an operator, or for the handlers that a shutdown waits for. `Nonce` alone assumes that publish jobs keep coming, as a
gap can only be filled by someone who draws a number.

### Where the code differs from what it says

* **Stranded rows** (`batching_stranded`). `lua/lockBatch.lua` says it returns the
  data of a batch that is still locked. It returns early when no batch is open.
  After a crash between lock and delete, the rows wait until somebody posts
  another announcement of the type.
* **Dropped transactions** (`publishing_dropped`). The branch of the monitor that
  republishes a transaction which never got into a block cannot run:
  `attemptsMade` does not count the running attempt and is always below
  `attempts`. The batch stays unpublished with a failed receipt job.
* **Capacity limit** (`capacity_limit`). The amount a transaction withdrew is
  returned as `capacityWithDrawn` and read as `capacityWithdrawn`. The used
  capacity is always zero and `CAPACITY_LIMIT` is never reached.
* **Empty hash** (`content_empty`). `isPinned` swallows errors, so `getPinned`
  returns the empty buffer for a pinned asset when IPFS does not answer, and the
  announcement carries the hash of nothing.

More of the kind was met while modelling and has no run of its own:

* Two running publishers can draw the same nonce with no fault at all: the keys are named
  after the index and the offset run together (`nonce.service.ts:52`), so what one
  reserved is free for another that asked after the index had moved. `redis.ts` speaks
  of "temporarily locked keys" of which the "first available one" is taken.
* The DTOs take dates the worker cannot read: the basic format, week dates, times
  without minutes. `toISOString` then throws in the worker
  (`dsnp.announcement.processor.ts:155`), after the client got its reference. The
  stricter `ISO8601_REGEX` of `validation.dto.ts:3-11` is used nowhere, though
  `apps/api/test/app.e2e-spec.ts:132-157` expects "published must match", also for a
  `published` of `1980`, which `IsISO8601` takes.
* An array as `content` (empty, or of valid notes) passes the DTOs and fails in the
  worker in the same place, and an array among the tags or the assets in their
  switches: nothing asks that a nested value be an object. `Overlooked` excepts both.
* A request that is put off ends in no event, so its id stays tracked until it is handed
  out again and ends: a shutdown meanwhile polls its full six seconds in vain.
* The publish queue is paused when capacity runs out and nothing resumes it.
* Batches may exceed `BATCH_MAX_COUNT`, because rows are added while the full batch
  waits to be locked.
* `getLatestFinalizedBlockNumber` returns the best block, so that outcomes are acted on
  that may be taken back.
* The duration of a video or audio asset never reaches the note
  (`dsnp.announcement.processor.ts` lines 277 and 302 start from an empty string and
  keep it).
* Attachments are listed in the order in which IPFS answered, so that a retried request
  may pin another note.
* Only icons have their MIME type checked against what they are attached as.
* The calls that batch timeouts start are not tracked, so that a shutdown does not wait
  for them.

## Proofs

Every invariant that a run checks, and each of the three refinements, is a theorem:
it holds for every value of the constants that meets the assumption of the module,
so for any number of jobs, requests, processes, calls, batches and faults. Each
assumption says that model values are distinct and bounds are numbers, and:

* `BatchingAssumption`, `CapacityAssumption`, `NonceAssumption`: batches, concurrency,
  listeners and the keys to check are at least one.
* `PublishingAssumption`: each batch job is for a batch of its own (`jobId:
  metaData.batchId`), the attempts of publish and receipt jobs are positive, and a job
  that the monitor puts back has one attempt (`publishQueue.add` without `attempts`).
* `ContentAssumption`: asset jobs have at least one attempt.
* `RequestsAssumption`: no MIME type is an image and a video. `BodiesAssumption`: a body
  has the modelled fields of its own DTO with values of their kind or arrays in their
  place, and an array has none of the fields of what it replaces. A body with a field
  of another DTO is left out: the pipe has no whitelist, and with a `profile` beside
  its `content` the assets of a note would not be looked up (`api.service.ts:63`).

TLC evaluates them in every run. All proofs have one form. The property is not inductive
by itself, so a module states why it holds as an invariant `IInv` (of named parts, with
`TypeOK` one of them), and has a lemma for each action and a theorem `Inductive`;
the theorems about properties follow from it. `Batching_proofs` has an invariant for each
group of properties instead, each inductive relative to those before it.

**`Content_proofs`.** `ReferenceableSafety` rests on `AssetShape` and `UploadShape`, the
ladder of the upload: whoever may refer to an asset sees a metadata key, so a job had been
given, so the data was there or the asset is pinned, and data gets a short life only
after that. `AnnouncedSafety` needs `ProcShape`: what a request has checked stays
pinned while it is hashed. `DelaysSafety` counts (`DelayShape`): the number that will
be read is behind the delays by one for each mishap, and for nobody else than the call
that is about to write it. `Refinement` proves `ImplementsAnnouncing` action by action.

**`Batching_proofs`.** `TypeCorrect` needs `CallShape` (a closer has a batch and rows,
nobody else has) and `OpenKeys` (an id, a count and rows are there together or not at all).
For `DedupSafety`, `Content` says where each batch id may occur and that all copies of a
batch are equal; `CustodySafety` follows the rows of a batch with it. The steps are
first sorted by what they do to rows: most are `Quiet`, the others add a row, take over a
locked batch, lock the open one, emit, or unlock (`StepCases`, with an `...Effect`
lemma each). `OnceSafety` needs `OnceInv`: a row whose job was not repeated is in
one batch at most, counting all copies, and its job is with one call. `WatchSafety`
needs `WatchInv`, which says it of every lock holder in turn: the open batch is timed,
or someone will look at it after the batch that is locked. `KeysSafety` needs the
`Count` of the open rows and `OnceInv`. `Refinement` maps an emit to `Deliver`, an added
row to `Store`, a stall to `Repeat`, and every other step to a stutter.

**`Publishing_proofs`.** `PublishedOnceSafety` is the hardest. An undisturbed batch has
one thing at most from which a transaction can come, be it its batch job, its publish
job, a live transaction, or a failed one that the monitor is about to replace: `Once`.
That these exclude each other depends on who has which lock (`LockHeld`, `LockShape`) and
on receipts never being there before their transaction (`ReceiptShape`). For an
interrupted batch nothing is claimed, so the invariant survives every mishap.
`SentIsTrackedSafety` and `CompletedWasSentSafety` are inductive together with it.
`Refinement` proves `ImplementsPublication`: a submission is `Submit`, which is
allowed because of `Once`, and a call that is cut short or a replaced block disturbs.

**`Requests_proofs`.** `JobShape` says that a job is a request that was validated, with
the MIME types it was accepted with; `AcceptedSafety`, `IconsSafety` and `FiledSafety`
follow. An array among the parts never gets an attachment, and its request is never
announced. For `NothingIsLeftOutSafety`, `Match` is a one-to-one matching between the
attachments so far and the parts of the request of which nothing is left to fetch; it
grows with every order of callbacks, and in the end counts are equal (`FS_Bijection`).
`ResentSafety` is about the job id as a function of the body alone. `SpellingSafety` is
an induction over the digits of a user's id, done as the search for a least
counterexample (`WFMin`), as `Value` is a recursive function and no operator.

**`Nonce_proofs`.** `DrawnOnceSafety`: who has drawn a number keeps the key it was drawn
under from expiring, and that key holds this number for everyone who was told the same
index (`DrawnShape`). `ClashNeedsGapSafety` is about the past: below a key with no gap
each number up to the one it was set for is with the node or with a call the key waits
for (`KeyShape`), and when the key an accepted number was drawn under has gone, no call
will try that number again (`SettledShape`). The names of keys are opaque to the proof,
which uses nothing of how digits run together: it covers the keys that two numbers share,
where a caller passes over a number for another number's key (`PassedOver` makes it a gap).

**`Capacity_proofs`.** `RecheckSafety`: `Watched` says of each process that has noted the
exhaustion that a timeout is pending under the name, or is a stray one, or a call of the
process is at a step that ends in one. The proof has a case for each way a step may take
away one of them.

**`Shutdown_proofs`.** `HandlersSafety` and `TrackedSafety` rest on locks: an id has one
lock, and a handler that runs beside it is of an earlier job with the same id. An id that
nobody holds any more is in `lost` or `delayed` until the next event untracks it.

**`Pipeline_proofs`.** `EndToEndOnce` and `EndToEndAnswerable` follow from one invariant
that says what each queue guarantees at its ends: an unrepeated row is in one batch, a
stored row was noted when its assets were available, an ordered batch was delivered, and
a batch has two live transactions only if it was disturbed.

Only model-checked: the liveness properties under fairness (`StoredIsEmitted`,
`EveryBatchIsSettled`, `ExhaustionIsNotStale`, `GapsAreFilled`, `RequestIsSettled`,
`ShutdownEnds`), which together with `ENABLED` are beyond the prover, and the four
expected violations, of which TLC shows a counterexample.

## Not modelled

* Single fields that nothing later depends on: emoji, `apply`, lengths, location,
  image sizes, and `userDsnpId`, which the path only requires to be digits. Content
  hashes: their check is switched off in the code. Swagger.
* The health endpoint answers a constant. The development controller exists only in
  development.
* Configuration: read once, appears as constants. The connection handling of the
  blockchain service and the HTTP of the IPFS client: what their callers see of them
  is in the modules.
* CIDs, parquet, multihashes: a payload is the batch, asset or request it belongs to.
* BullMQ, Redis, IPFS and the chain: modelled from how this code uses them.
  Eviction of finished jobs (`removeOnComplete: 1000` or `2000`) is in `Publishing` and `Content`;
  in `Batching` a batch id is a fresh uuid and its closers are long gone by then. In
  `Requests` jobs stay: after an eviction a request that is sent again is announced
  again, as `Announcing` allows. Its URIs name a user; their content hash is not modelled.
* How long `worker.close(false)` waits for a running call: it has no limit, and a
  supervisor that kills the process is a crash.

## Plan

Done: the five stages, their contents, the shutdown, an abstract specification for
each stage of the pipeline and their composition; theorems for all safety properties and
refinements. What is left:

1. What can be proved of liveness without fairness: that the measures by which it holds
   (the polls of a shutdown, the attempts of a job) only ever fall.
2. More about `Pipeline`: what an interrupted batch may still rely on.
3. Shorter proofs where one lemma can stand for several actions.
