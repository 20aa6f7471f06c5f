# Formal models of the embodied-video data platform

Collectors upload egocentric videos; an AI service judges them; administrators
review the verdicts; accepted videos earn points that become withdrawable money
the next business day; accepted sources are cut into task segments, annotated
and delivered. The backend (`src/backend`) is a NestJS service with PostgreSQL,
RabbitMQ and S3-compatible storage; the web client (`src/web`) is a React
application. This directory holds TLA+ specifications of the backend, the TLC
configurations that check them, and proofs checked by TLAPS.

## 1. Inventory

All state is in PostgreSQL rows, except the messages in RabbitMQ, the objects in
the bucket, and the timers of the processes. Processes: the API servers (which
also run the settlement scheduler, the outbox pump and the automatic reclaimer),
the media worker, the AI quality worker, the annotation worker, the delivery
archive worker. Processes share rows under `pessimistic_write` locks and
advisory locks; they call each other only through the outbox and RabbitMQ.

| component | state | operations | interacts with | what is hard | what makes it correct |
|---|---|---|---|---|---|
| point cycles, settlement scheduler (`points/`) | `point_cycles`, `point_cycle_items`, their adjustments | accrue, reconcile, adjust, settle one cycle, tick | wallet, submissions, outbox | the same submission credited by a verdict, a review and a scan; lists that age; two schedulers after a deployment | credited once, settled once and on time, settled history final |
| wallet, payout (`wallet/`) | `wallet_balances`, `wallet_transactions`, `withdrawal_requests` | credit settling, settle to available, submit, confirm | point cycles, administrators | retries of a withdrawal, two administrators, statuses of an earlier process | balances explained by items and requests |
| rules (`rules/`, `points/point-rules`, `ai-quality/quality-rule`) | versions | calculate, publish | accrual, AI quality | rounding, boundaries | monotone, bounded prices |
| AI quality (`ai-quality/`) | `video_quality_results`, `submissions.processing_status`, queue | begin, complete, fail, retry, rerun | media, reclaimer, point cycles | redelivery, timeouts against late commits, a reclaimer with stale heartbeats | one verdict counts; every submission is judged or parked |
| submissions (`submissions/`) | `submissions` with their upload, storage and deletion columns | create, complete, abort, delete, review, rerun | storage, media, point cycles | a commit beside a bucket operation, client retries, reconciliation | a row says "available" only when the object is there |
| media (`media/`) | processing status, media metadata | claim, probe, finish, fail | RabbitMQ, reclaimer, annotation | a probe that was reclaimed and finishes late | a finished analysis stands |
| messaging (`messaging/`) | outbox rows, queues | publish batch, upsert | every producer | publication beside an upsert of the same row, crash between publish and commit | nothing owed is lost |
| operations (`operations/`) | heartbeats | reclaim timed-out tasks, requeue | AI, media, annotation | heartbeats that show one task of several | no task is left behind or run for ever |
| video annotation (`video-annotation/`) | runs with execution, review, publication and audit status | begin, complete, fail, retry, review, discard, new version | AI service, task segments, reclaimer | late results of runs reclaimed or cancelled, model calls that cost money | one formal result at most, a budget of calls |
| task segments, source retention (`task-segment/`) | assets, boundary refinements, JSON revisions | refine, cut, publish JSON, retain, delete source | point cycles (event), storage | handlers that overlap after a lost channel, a review accepted while its JSON is written | a published JSON is of the clip its row describes, and that clip is at its key; a source is deleted only when nothing needs it |
| delivery (`delivery/`) | packages, archive tasks | create, claim, renew, complete, fail, clean up | storage | a lease that expires under a worker, an answer that is lost after its commit | a completed task's archive is there, and no other stays |
| collection tasks, identity, rate limits, scenes, guide, pricing, public site | rows | CRUD with policies | the above | little concurrency | referential rules |
| storage adapter, audit, HTTP, CLI, quality lab, web client | none of their own | I/O | the above | - | - |

`PROJECT.json` lists every component with what is modelled of it, and the
hazards this code is exposed to at the line where each bites.

## 2. Modules

| module | what it is |
|---|---|
| `BusinessCalendar` | instants, local days of Asia/Shanghai, `nextSettlementAt` |
| `Sums` | totals of amounts, as cardinalities of sets of units |
| `Settlement` | the money core: verdicts, accrual, adjustment, settlement, withdrawals, scheduler |
| `Earnings` | the abstract specification: what the platform promises a collector about money |
| `MCSettlement` | the instances of `Settlement` for TLC |
| `SumTheorems` | the laws of totals |
| `Settlement_proofs` | totals over items and requests; type correctness |
| `SettlementAccounts_proofs` | the books balance |
| `SettlementSafety_proofs` | what follows: settlements accepted, announced, final, never early; `Earnings` implemented |
| `AiQuality` | delivery of AI quality tasks: outbox, retries, timeout, lock, crashes, heartbeats, reclaimer |
| `EvaluationDesk` | the abstract specification of an evaluation: one at a time, by one prompt, and a result that stands |
| `MCAiQuality` | its instances for TLC |
| `AiQuality_proofs` | shape, delivery, agreement of the rows, permanence of a result, `EvaluationDesk` implemented |
| `Submissions` | upload, deletion and media analysis of one video, without a next-state relation of its own |
| `AnnotationRuns` | EXTENDS `Submissions`: the annotation runs, and the whole life of a submission |
| `SubmissionLife` | the abstract specification of a submission: its video, its study, its runs and what they come to |
| `MCAnnotationRuns` | its instance for TLC |
| `AnnotationRuns_proofs` | shape, the store against the rows, awaited tasks, results, budget, `SubmissionLife` implemented |
| `TaskSegments` | task assets of a published run: refinement, clip, JSON, retention of the source |
| `VideoArchive` | the abstract specification of what is kept of an annotated video |
| `MCTaskSegments` | its instances for TLC |
| `TaskSegments_proofs` | shape, one model call, what a publication rests on, current reviews, retention, `VideoArchive` implemented |
| `DeliveryArchives` | archive tasks of delivery packages under leases |
| `ArchiveRegister` | the abstract specification of archives: tries, and the one that counts |
| `MCDeliveryArchives` | its instance for TLC |
| `DeliveryArchives_proofs` | shape, published archives, nothing left behind, capacity, attempts, `ArchiveRegister` implemented |

What connects them: `Settlement` takes a verdict as given, `AiQuality` is how a
task gets one; `Submissions` takes whatever the evaluation came to as `judge`;
`AnnotationRuns` ends where a run has a formal result, and `TaskSegments` begins
there. The settlement's retention event (`retention` in `Settlement`) is
`settle` and the event `Retain` in `TaskSegments`. Two are composed for real: a
finished probe queues the first run, and a deletion cancels the open ones, each
in one transaction (`commitProbeAndEnqueue`, `commitDeletionAndCancel`).

### Settlement and the code

Every operation of the services is one database transaction that begins by
locking the submission row (or the balance row, for a withdrawal), so an action
is a whole transaction: its guard is the code's early returns, its effect every
row the transaction writes, `accrueSubmission` included where the handler calls
it. What interleaves is what runs outside a transaction: AI evaluations in
flight (`evaluating`), and the scheduler's two scans (`scheduler`), whose lists
of identifiers are read once and then worked through one transaction at a time
while the rest of the system moves.

| variable | rows |
|---|---|
| `quality`, `asset`, `storage`, `duplicates` | `video_quality_results` with the submission's processing, asset and storage status; open duplicate candidates |
| `evaluating` | calls of `AiQualityAnalysisService.process` in flight |
| `cycle`, `item` | `point_cycles`, `point_cycle_items` with the latest adjustment |
| `wallet`, `ledger` | `wallet_balances`; per cycle and owner the sum of the "lock" transactions |
| `request` | `withdrawal_requests`, by owner and idempotency key |
| `retention` | source-retention events in the outbox |
| `scheduler`, `clock`, `crashes` | the scheduler processes, hours, restarts so far |

| action | code |
|---|---|
| `begin`, `complete`, `evaluationFails`, `workerDies` | `ai-quality-analysis.service.ts` |
| `reclaimTimedOutTask` | `operations.service.ts`, for one submission, whenever it may |
| `reviewQuality`, `rerunAiQuality`, `clearDuplicateCandidate`, `deleteObjects` | `submissions.service.ts` |
| `accrueSubmission`, `adjustItem`, `reconcileAccrual`, `settleDueCycles`, `settleDueCycle` (`settleCycle`) | `point-cycles.service.ts` |
| `tick`, `endTick`, `restart` | `settlement-scheduler.service.ts` |
| `submit`, `confirm` (`moveReserve`) | `payout.service.ts` |

Data the properties do not tell apart is abstracted. A *grade* stands for a
score with its invalid duration; `Passing`, `Accruing` and `PointsOf` are what
the quality rule and the point rule make of it. Amounts are whole cents up to
`MaxAmount`. A cycle's identifier is fresh (`Cycles` with status `absent`): the
code makes it from the approval's day and a random suffix. `delete_pending` and
`deleted` disqualify alike and are one value. An advisory lock allows one
evaluation per submission; `EvaluationsOf[s] = 2` lets a second begin after the
database session that held the lock was lost while the first still runs, which
the code cannot exclude.

The initial states are those the next-day-settlement migration leaves behind:
approved submissions nobody credited, grouped cycles of the earlier weekly
process, withdrawal requests in statuses nothing produces any more, and balances
that add up.

### The abstract specifications

Each core module implements a small specification of what it promises, written
without the machinery that keeps the promise. `Keeps...` in the core module is
the abstract `Spec` under a mapping of its rows and objects: every step of the
code is one step of the promise, or leaves it alone. Each abstract module also
states what it is good for (`Solvent`, `Sound`), which is proved under the same
mapping.

| promise | of | what it leaves out | mapping |
|---|---|---|---|
| `Earnings`, `KeepsPromise` | `Settlement` | wallets, cycles, verdicts, schedulers | `EarningOf`, `ClaimOf` |
| `EvaluationDesk`, `KeepsDesk` | `AiQuality` | messages, handlers, locks, timeouts, deaths, heartbeats | the rows, `Evaluated` (the prompt of the call that has the lock) |
| `SubmissionLife`, `KeepsLife` | `AnnotationRuns` with `Submissions` | requests, reconciliations, handlers, messages, locks, retries | `Stage`, `Video`, `Work` |
| `VideoArchive`, `KeepsArchive` | `TaskSegments` | handlers, messages, refinements, transcoding, retries | `Fate`, `Footage`, `Descriptions` |
| `ArchiveRegister`, `KeepsRegister` | `DeliveryArchives` | workers, leases, uploads under way | `Stage`, `Named` |

`Earnings`: an earning is given once per submission, may be corrected while
pending, becomes final with its amount or with nothing, and then never changes;
a collector may claim what is final and unclaimed, and a claim is paid at most
once.

`EvaluationDesk`: there is one desk for each task. What lies on it was begun by
one prompt, the row's unless a rerun changed that meanwhile, and the verdict is
by that prompt. What is judged stays so until a rerun asks again. A task that has
failed stays failed too, unless it failed before its first evaluation had begun:
then nothing tells a duplicate of its message from a first attempt, and it may
begin after all (`Final`). The reclaimer (`PutBack`) may put a task back while it
is being evaluated.

`SubmissionLife`: a video arrives once and is kept only if it is whole; it is
studied once, and not refused after that; runs are opened on it and come to
nothing or, if it was studied, to an outcome, once; a formal outcome replaces
the one before in the same step; a deletion ends when the video is gone and
closes what is open. It also says what the code does allow: an analysis that was
under way may be recorded after the deletion, a failed or abandoned run may be
opened again beside no other, and a run that was set aside may still come out.

`VideoArchive`: a task of a run is kept as a clip or needs none, and a kept task
keeps its clip; descriptions are numbered, each rendering the review in force at
that moment, and stand unchanged; the original goes only when a run has a clip
and a current description for every task that needs one. An administrator may
ask for a task again that needed none, even after that. A clip is its hash in the
row here, and a description its row with its file: what a late upload does to the
bytes at the clip's key is a matter of `PairedPublication` and `SourceKept`.

`ArchiveRegister`: a task is tried as often as it takes, each try may store an
archive at once or long after, and only the last try may give the task its
archive, if it has stored it. What is not the archive of its task may be removed.

### AiQuality and the code

`Settlement` takes a verdict as given. `AiQuality` is about how a task gets one,
and knows nothing of money. Here a transaction is an action again, and so is
each thing a worker process does between two of its `await`s that another actor
can see.

A *slot* is a place of a process for one message. It holds two things that end
separately: the handler of the message (`RabbitAiQualityWorker.handle`) and the
call it made (`AiQualityAnalysisService.process`). When the timeout wins the race
of `processWithTimeout`, the handler publishes the message to a retry queue and
acknowledges it, while the call goes on under the advisory lock until it notices
the abort, or commits.

| variable | what it is |
|---|---|
| `processing`, `quality` | `submissions.processing_status`; the `video_quality_results` row with attempts, snapshot and the snapshot behind its verdict |
| `outbox` | the task's `ai.quality.v1` event |
| `queue` | its messages in the main and the retry queues, by retry number |
| `call` | the slots; `phase` locates the call: waiting for the lock, evaluating, about to commit, returned. The lock is held in the two middle phases |
| `active`, `late` | `activeSubmissions` of each process, in the order of its `Map`, and the entries older than the timeout. The heartbeat row shows the first entry, and keeps it when the process dies |
| `candidates` | what a reclaimer concluded from the heartbeats, before its transaction |

| action | code |
|---|---|
| `publish` | `outbox-publisher.service.ts`, with a rollback after the broker confirmed |
| `take`, `resend`, `timesOut`, `finish` | `rabbit-ai-quality-worker.ts`: delivery under the prefetch, the retry queue, the race, acknowledgement |
| `lockBusy`, `skip`, `begin`, `beginFails`, `judge`, `complete`, `evaluationFails`, `infrastructureFails` | `ai-quality-analysis.service.ts` `process`, by the way it goes |
| `scan`, `reclaimTimedOutTasks` | `operations.service.ts`: the reading of the heartbeats, the transaction |
| `rerunAiQuality` | `submissions.service.ts` |
| `processDies`, `processStarts`, `runsLate` | death and restart of a process (redelivery by RabbitMQ, release of its locks), passing of time |

Abstractions. The persisted verdicts are one, "judged"; stages of progress and
scene detection write nothing that is read back, and are left out. A message in
a retry queue may be taken at once: its delay orders nothing. `attempts` counts
to the cap and the retry number to the length of `RETRY_DELAYS`, beyond which the
code tells values apart no more. A live process loses neither its heartbeat nor
its lock session: both go with the process. A worker that stops in order crashes
after its last message, and its row, which says "stopped", is not deleted. A
rerun's refusal for a submission with points is in `Settlement`.

`SlowSessions` says whether a call may be waiting for its database session when
the model timeout (fifteen minutes) strikes; the pool has no acquire timeout of
its own, so the code does not exclude it. With it, `NothingForgotten` has a
counterexample: a call waits for a session; its message times out, is sent again,
fails for good before a quality row exists (`markTerminalFailure` updates no row)
and is acknowledged; the first call gets its session, finds no final row to skip,
begins, sets the task to `ai_processing` and may fail retryably, with no message
left. The runs and `NeverForgotten` assume `~SlowSessions`; the other two theorems
do not.

### Submissions, AnnotationRuns and the code

One submission, from the multipart upload to its deletion, with the requests and
reconciliations (`Operators`), the handlers of probe messages (`Probes`) and of
annotation messages (`Workers`) that may be at work at once. A request is in two
actions where the code calls the object store outside a transaction: before the
call, after it; in between it may die, and everything else may happen.

| variable | what it is |
|---|---|
| `upload`, `storage`, `mode`, `keys`, `processing`, `metadata` | columns of `submissions`; `storage = "removed"` is no row |
| `multipart`, `original` | the multipart upload and the video in the store, of the declared size or short |
| `op` | what each request or reconciliation is at |
| `probeEvent`, `probeQueue`, `probe` | `media.probe.v1` in the outbox, at the broker, in the handlers |
| `run`, `runEvents`, `runQueue`, `attempt` | `annotation_runs`, `ai.annotation.v1` in the outbox and at the broker, attempts |

| action | code |
|---|---|
| `completeUpload`, `reconcileCompletion`, `ensureMultipartObject`, `commitCompletion`, `abortUpload` | `submissions.service.ts` |
| `deleteObjects`, `deleteSubmission`, `reconcileDeletion`, `deleteFiles`, `commitDeletionAndCancel` | `submissions.service.ts`: marking, the store, the transaction that ends it |
| `claimSubmission`, `skipProbe`, `waitForLock`, `analyze`, `commitProbeAndEnqueue`, `failProbe`, `probeUnrecorded` | `media-analysis.service.ts`, `rabbit-media-worker.ts` |
| `begin`, `callModel`, `complete`, `fail`, `failFails`, `timesOut`, `dropBusy` | `annotation-run.service.ts`, `rabbit-annotation-worker.ts` |
| `createNewVersion`, `retry`, `discard`, `review` | `annotation-management.service.ts` |
| `reclaimProbe`, `reclaim` | `operations.service.ts`: any task may be found late |
| `dies`, `losesChannel`, `losesSession`, `operatorDies` and the like | death of a process, a closed channel, a lost lock session |

Abstractions. `processing = "judged"` is whatever the AI evaluation came to, and
`"awaiting_ai"` includes that it runs. A run's `result` stands for its review,
publication and audit status, which are written together: nothing yet, waiting
for a review, published and waiting for an audit, published, withdrawn. One idle
request or handler is as good as another, and the first is taken. `attempts`
saturates at its cap. A second deletion of the same kind is a reconciliation of
the first. Previews and evidence frames are not tracked; a media command tried
again while a deletion is pending may leave previews behind. The reclaimer marks
a media task stuck and requeues it in one transaction here, since nothing
happens in between that the code tells apart. `SlowAborts = FALSE` says that the
delay before a retry is time enough for the aborted attempt to end.

What the code does and no property says: an error of the lock's session or query
(`annotation-run.service.ts:128-136`), or of recording a failed `begin`, is not
retryable, so that the message is dead-lettered at any retry number
(`rabbit-annotation-worker.ts:126-148`; `deliveryFails` may send it again or not,
and `WakeUpKept` exempts both as disturbances); a transaction of `fail` that fails
lets the message be dead-lettered, and the run is `running` until it is reclaimed; a
run whose attempt ended after its source had gone stays queued; with only
annotation runs to reclaim and no submission, the query at
`operations.service.ts:828` is given an empty list and fails, so that annotation
runs are reclaimed only along with a submission.

### TaskSegments and the code

One submission whose runs become formal, are corrected or withdrawn, with the
task assets of each run and the handlers at work. A handler of a clip goes
through claim, cutting, upload and `finalize`, a handler of a JSON through
`reserve`, `write` and `publishJson`, a handler of a refinement through the claim,
the call of the model and its result: each is an action, because reviews,
retries, deaths and other handlers come between.

| variable | what it is |
|---|---|
| `run`, `version` | whether a run is the formal result, and the review of it in force |
| `asset`, `refinement`, `revisions` | `task_segment_assets`, `task_boundary_refinements`, `task_segment_annotation_revisions` |
| `stored`, `settled`, `original`, `clip`, `json` | the storage status, a settled item of the submission, the objects |
| `outbox`, `queue`, `job` | events, messages with their retry number and redelivered flag, handlers |
| `calls`, `disturbances`, `outage` | calls of the refinement model; mishaps so far; whether database or broker failed |

| action | code |
|---|---|
| `autoAccept`, `reviewAccepts`, `reviewRejects` (with `enqueueForPublishedRun`) | `annotation-run.service.ts`, `annotation-management.service.ts`, `task-segment.service.ts` |
| `claimRefinement`, `callModel`, `completeRefinement` | `task-boundary-refinement.processor.ts` |
| `claim`, `skip`, `recoverCanonical`, `materialize`, `cutFails`, `upload`, `uploadFails`, `finalize` | `task-segment.processor.ts` |
| `busy`, `rejectPublication`, `alreadyPublished`, `reserve`, `write`, `writeFails`, `publishJson`, `recordFailure` | `task-segment-annotation.service.ts` |
| `retain`, with `deletionFails` (the store refuses: retried) and `archivingFails` (the transaction fails once the original is deleted: not retried) | `source-retention.processor.ts`, `rabbit-media-worker.ts` |
| `settle` | the retention event of `point-cycles.service.ts` |
| `retryCut`, `retryJson`, `backfill` | the administrators' retries |

Abstractions. A clip is told from another of the same asset by how it was made,
which is what its hash tells: as the plan prefers, or transcoded because that
failed. `Retain` is one event for the submission. A retry the broker refuses is
like one whose retries are used up. The gates of retention are those of
`source-retention.processor.ts`, which the repository's README.md tells at lines
369-372; the original is deleted last (371), and new bytes need a new
asset (374). Not modelled: the deletion of previews by retention; an audit that
corrects the number or the times of tasks (the assets stay as they are, and
retention then refuses, since their number differs). An accepted audit does not
renew JSON that was published before it.

A clip has one key, and the upload asks nobody. *One* mishap cannot make that
hurt: either there is one handler (`Solos`), or the handlers make the same clip
(`NoExact`). Two can: a handler loses its channel after cutting as the plan prefers;
the one that takes the redelivered message fails at that and transcodes, uploads and
finalizes, and its JSON is published; then the first one's upload
(`task-segment.processor.ts:282`) replaces the clip, and its `finalize` returns
without a word, because the asset is ready (604). The published SHA is no longer
that of the clip, for good. It may happen after the original was deleted, too: nothing
that retention checks knows of the handler. The repository's README.md, lines 370
and 374, has a published JSON bound to the SHA of its MP4, and changed bytes in a
new asset. `ClipStands` therefore exempts more than one mishap, and without that
exemption TLC finds this behaviour as a counterexample of `PairedPublication` in
the instance of `segments_progress`, whose two mishaps suffice, before the
original is deleted and after.

What else the code does and no property says: when the transaction of retention
fails after it has deleted the original, its message is acknowledged without a
retry (`rabbit-media-worker.ts:260-282`), and the row says "available" of a video
that is gone until a JSON is published again or a settlement wakes the retention.
`SourceKept` holds in that state.

### DeliveryArchives and the code

`Workers` are the places for claims of all processes together. Of a claim, each
statement on the task's row and each call of the store is an action. A claim has
a lease token of its own, which also names its archive; the model numbers claims
by `attempt` instead. The lease is live or expired, and `leaseExpires` is the
passing of a minute: free when nobody renews the lease any more, a disturbance
when a worker that should is late.

| action | code in `delivery-packages.service.ts` |
|---|---|
| `createArchiveTask`, `claimPendingArchiveTasks` (by `poll`) | of the same name; the poll is `delivery-archive.worker.ts` |
| `processArchiveClaim`, `built`, `buildFails`, `uploadObject`, `uploadDone` | `processArchiveClaim`, between its `await`s |
| `renewArchiveLease` | the heartbeat, which runs beside all this |
| `updateArchiveProgress` | after each asset |
| `completeArchiveClaim`, `failOrRetryArchiveClaim` | of the same name; a refused transaction has changed nothing, or everything |
| `deleteArchiveObjectUnlessPublished`, `deleteObject` | the reading of the row, the deletion |

Every statement compares the lease with an instant the worker read before it sent
the statement. `SlowDatabase` says that the row may be reached after the lease
found live has expired: then an expired lease is renewed, and more archives may be
under way than `GlobalConcurrency`, which `CapacityBounded` therefore proves
without it. `struck` is a history variable: archives whose worker died or was
refused the deletion, which nothing in the code looks for again. Left out: a
batch of claims is that many claims; an upload or a commit that takes effect
after its worker was told that it failed; clocks that differ between processes.
Two facts the model shows: claiming does not look at the attempts, so an archive
whose worker dies each time is claimed for ever (`TriesBounded` has the deaths in
its bound); and deleting a submission's video does not look at packages.

## 3. Runs

| run | question | instance | states |
|---|---|---|---|
| `settlement_submission` | is the money of one submission right through everything that can happen to it? | 1 submission, 2 evaluations at once, 3 grades, 2 cycles, clock to 4 (two local days), 1 withdrawal key | 410 000 |
| `settlement_grouped` | do two schedulers settle the migrated, grouped cycle once, and does every step keep the promise? | 3 submissions of 2 owners, 2 schedulers, the grouped cycle and a fresh one, 2 withdrawal keys, an old open and an old rejected request | 356 000 |
| `settlement_scheduler` | is what is entitled credited, and what is due settled? | 1 submission, 2 schedulers, failing transactions, 1 restart | 28 000 |
| `ai_delivery` | is a task ever forgotten or told two ways, and is every step one of the desk? | 1 task, 2 processes, 1 crash, 1 retry delay, attempts to 2 | 508 000 |
| `ai_progress` | does every task get its result? | 1 task, 1 process with 2 slots, 1 crash | 22 000 |
| `segments` | is what is published current, filed and of the clip at its key, is the source kept as long as needed, is every step one of the archive? | 2 tasks of one run beside another run, 2 handlers, 1 mishap | 670 000 |
| `segments_progress` | is the model called once, do clips and JSON come to an end, is a publication current and filed after two mishaps too? | 1 task with or without refinement, 2 handlers, 2 mishaps | 208 000 |
| `lifecycle` | do rows and store agree from upload to deletion, with one result and a budget, and is every step one of the submission's life? | 1 submission, 2 requests, 1 probe, 2 runs, 1 worker, 1 mishap | 846 000 |
| `delivery_archives` | does a published archive stand, is nothing else left, is every step one of the register, does every task end? | 2 tasks, 2 places, 1 archive at a time, 2 attempts, 2 mishaps | 610 000 |
| `ai_false_reclaim` | is a task that is being processed a candidate of the reclaimer? | 2 tasks, 2 processes, one with 2 slots | violated |
| `ai_stuck_requeued` | does a task over its cap wait for an administrator? | 1 task, attempts to 3 | violated |
| `ai_rerun_overtaken` | is a task judged by the snapshot of its last rerun? | 1 task, 2 snapshots | violated |

**Bounds.** `HoursPerDay = 2`, `ZoneOffset = 1`, `SettleHour = 1` keep what the
calendar is about: local midnight is not UTC midnight, the settlement hour is
not midnight, and approvals happen at both hours of a day. One submission is
enough for the order of operations on it, because operations on different
submissions meet only in the wallet, the cycle and the scheduler's lists: the
other runs have two or three for these. Two cycles leave a fresh one after the
first credit, so a second credit would be possible if the code allowed it; the
grouped run has the old cycle and one for the approval nobody credited. Two
schedulers are what a rolling deployment makes of one. `MaxClock`, `MaxCrashes`,
`MaxDuplicates`, `EvaluationsOf` and `MaxAmount` bound the rest, each named in
the module. The clock of the grouped run ends at 2, where its cycle is due.

Tasks of AI quality meet only in the slots of a process and in its heartbeat
row, so one task is enough except where the heartbeat is the question
(`ai_false_reclaim`). Two processes, or two slots of one, are two holders for the
one lock, which duplicates of a message need; the timeout makes duplicates
without end. One retry delay distinguishes the first try from the last.
`MaxCopies = 1` publishes an event only onto a queue that is empty of the task's
messages at some number: the reclaimer's and the rerun's events still meet
messages held by handlers, and a second message appears through a retry, a crash
or a rolled-back publication.

In the lifecycle two requests and two runs meet everything one of each may leave
behind, and a second mishap is only needed for `WithinBudget`, which allows for
it. A larger instance (one run, two probes, two workers, two mishaps) passes
too. In `segments` two tasks are what makes a run's clips incomplete; one of them
with both handlers, the refinement and two mishaps is `segments_progress`. The one
mishap of `segments` never reaches the exemption of `ClipStands`; the two of
`segments_progress` do, and so check both halves of `PairedPublication`. In
`delivery_archives` one archive at a time and two places make a late claim and
its successor meet, and two mishaps make them late twice. `MaxDisturbances`
counts failures, deaths and lost channels, sessions and answers; `MaxAttempts`,
`FullBudget` and `RetryDelays` are smaller than in the code (2 for 3, 1 for 3),
which loses nothing but repetitions of what a second try does.

**Symmetry** is used on fresh cycles, schedulers and the two tasks of `segments`,
in runs without liveness properties, where the specification never distinguishes
them.

**Deadlock** is checked in the runs of `Settlement`, where a scheduler can always
tick, and of `AiQuality`. The submissions, segments and archives of the other
runs may really come to rest: deleted, published, completed, with no mishap left.

**Fairness** (`Fairness`) is assumed of the clock and of the schedulers alone,
never of a user, an administrator or the AI worker. `setInterval` ticks for
ever, and after a restart `onModuleInit` ticks at once (weak fairness of a
scheduler's own steps). A transaction of a scan may fail any number of times but
not for ever: every minute another scan finds the same candidate and tries again
(strong fairness of each credit and each settlement, because a failure takes the
identifier off the list and the next scan puts it back). Both liveness
properties fail without it, and hold with a restart in the middle of a scan.

`AiQuality` assumes that the publisher and the workers run on and that a dead
worker is restarted (weak fairness of `publish` with its commit, of `resend`,
`finish`, `Process` and `processStarts`). Strong fairness is assumed of `take`,
because the queues are first in, first out and a message at the head is taken
when a slot is free; and of `begin` or `skip`, `judge` and `complete`, because a
model service that times out, or a database that refuses, for ever is an outage
and not a property of the code. A timeout, a crash, the reclaimer and the
administrator are assumed of nobody.

`TaskSegments` assumes that something the publisher, the queue or a handler can
do is done (weak fairness of `System` as a whole): the broker delivers and the
handlers run on. `DeliveryArchives` assumes weak fairness of the poll timer, of
each worker's own steps, and of the end of a lease nobody renews. Neither assumes
anything of people, deaths or failures. `JsonEventually` and `CutEventually` allow
for an outage (the database or the broker failed), and `JsonEventually` for more
than one mishap: its message is then gone, and an administrator has to retry.

**Violated by the code.** Three comments of the repository say more than the code
does. The comment at `operations.service.ts:773` says a task that a live worker
is processing normally is no candidate for reclaiming; the heartbeat row shows
one of a process's three tasks, and the row of a dead worker may name another of
them (`ai_false_reclaim`). The comment at `operations.service.ts:899` says a task
over its retry cap stays stuck until an administrator queues it; the next scan
finds it stuck already and requeues it without looking at its attempts
(`ai_stuck_requeued`). The comment at `submissions.service.ts:1612` says a rerun
uses the prompt, rules and labels in force; an evaluation that was reclaimed while
it ran, and commits after the rerun, puts the old prompt's verdict into the new
row (`ai_rerun_overtaken`). In each the task still ends with a result, as
`ai_delivery` and `ai_progress` show.

**Mutants.** Each checked property has a mutated operation beside the real one
(`accrueSubmissionAgain`, `adjustItemSettled`, ...), a plausible bug such as a
dropped guard; TLC finds the property violated with it.

## 4. Proofs

TLAPS checks the theorems for every value of the constants: any number of
submissions, owners, keys, cycles and schedulers, any prices up to any maximum,
any calendar with a settlement hour inside the day; and any number of tasks,
worker processes, slots and retries; of requests, handlers, runs and budgets; of
archives, places and caps. The money rests on the named assumptions
`MaxAmountAssumption`, `CalendarAssumption`, `SettlementAssumption` and
`ImportAssumption`, the last of which says what the migration guarantees of the
rows it leaves; the others on `WorkerAssumption`, `SubmissionAssumption` with
`RunAssumption`, `TaskAssumption` and `ArchiveAssumption`, which say little more
than that numbers are numbers. TLC evaluates them on every instance.

| theorem | establishes |
|---|---|
| `SumDisjoint`, `SumPositive` (`SumTheorems`) | the laws of totals |
| `TypeCorrect` | `[]TypeOK`: balances never leave the naturals |
| `AccountsBalance` | `[]Accounts`, the inductive invariant of the books |
| `PendingIsBacked`, `SettledIsBacked`, `RequestsAreBacked`, `LedgerExplains` | `[]PendingBacked`, `[]SettledBacked`, `[]RequestsBacked`, `[]LedgerExplainsItems` |
| `SettlementAccepted` | `[]SettlementNeverRefused` |
| `SettlementShown` | `[]NextSettlementShown` |
| `PromiseKept`, `NobodyOverdraws` | `KeepsPromise`, and with it `[]Promise!Solvent` |
| `SettledForEver` | `SettledIsFinal` |
| `ReleasedOnlyPaid` | `[]RetentionOnlyPaid` |
| `SettledNeverEarly` | `[]NeverEarly` |
| `TypeCorrect` (`AiQuality_proofs`) | `[]TypeOK` |
| `DeliveryCorrect` | `[]Delivery`, the inductive invariant of AI quality |
| `RowsAgree` | `[]StatusesAgree` |
| `NeverForgotten` | `[]NothingForgotten`, if not `SlowSessions` |
| `ResultStands` | `VerdictStands`: a final result changes only by a rerun |
| `DeskKept`, `DeskIsSound` | `KeepsDesk`, `[]Desk!Sound` |
| `TypeCorrect` (`AnnotationRuns_proofs`) | `[]TypeOK` |
| `ObjectIsWhole`, `DeletionIsClean` | `[]WholeObject`, `[]DeletedIsClean`: the store against the rows |
| `AnalysisStands`, `MediaIsAwaited` | `DownstreamStands`, `[]MediaAwaited` |
| `RunsAreAwaited` | `WakeUpKept` |
| `OneResultForEver`, `BudgetIsKept` | `[]OneResult`, `[]WithinBudget` |
| `LifeKept`, `LifeIsSound` | `KeepsLife`, `[]Life!Sound` |
| `TypeCorrect` (`TaskSegments_proofs`) | `[]TypeOK` |
| `ModelCalledOnce` | `[]OneModelCall` |
| `PublishedInPairs`, `SourceIsKept` | `[]PairedPublication`, `[]SourceKept` |
| `CurrentReviewPublished`, `RevisionsStand` | `PublishesCurrentReview`, `PublishedRevisionStands` |
| `ArchiveKept`, `ArchiveIsSound` | `KeepsArchive`, `[]Archive!Sound` |
| `TypeCorrect` (`DeliveryArchives_proofs`) | `[]TypeOK` |
| `ArchivesStand`, `NothingLeft` | `[]ArchiveStands`, `[]NothingLeftBehind` |
| `CapacityBounded` | `[]CapacityKept`, which is about `~SlowDatabase` |
| `TriesAreBounded` | `[]TriesBounded` |
| `RegisterKept`, `RegisterIsSound` | `KeepsRegister`, `[]Register!Sound` |

Four action properties, `VerdictStands`, `DownstreamStands`,
`PublishesCurrentReview` and `PublishedRevisionStands`, and of `DeliveryArchives`
the invariants `TypeOK`, `CapacityKept` and `TriesBounded` are theorems that no
run checks; where an action property was one of a run's, the run now checks the
refinement, which sees the whole life of what the property looks at step by step.

**Argument.** A total is the cardinality of a set of units, so that splitting,
inserting and correcting are laws of finite sets, and no induction over data is
needed. None of `PendingBacked`, `SettledBacked`, `LedgerExplainsItems` is
inductive alone. A credit preserves `PendingBacked` only if its fresh cycle has
no items, which is `CyclesExist`: a cycle that an item names is not absent. A
settlement moves what is payable and takes back what is reversed, so all three
change together with the cycle's status; that its two parts make up the whole
cycle is `PayableAndReversed`, and that the cycle is part of what is pending is
`CyclePending`. `Accounts` is the conjunction, with `RequestsBacked` and the
consistency of each wallet. One lemma per operation that moves money
(`AccrualAccounts`, `AdjustAccounts`, `PayoutAccounts`, `SettlementAccounts`)
shows it preserved, `AccountsFrame` covers every other operation, and
`StepAccounts` puts them together. `NeverEarly` needs `Timely`: a cycle is due no
earlier than each of its items alone would be, is settled no earlier than due,
and the instant a scan works with is never in the future; `NextDay` turns the due
instant into a calendar day.

In `AiQuality`, neither `NothingForgotten` nor `VerdictStands` is inductive. A
handler that has not acknowledged its message may be about to drop it, so that a
task's being on its way proves nothing of the next state: `Awaited` counts only
handlers that still work or will send their message again. A call that outlived
its handler may yet write, so its writes must be shown harmless:
`EvaluatedIsOpen` says that its task has no final result, which holds because
`LockExcludes` keeps any other call from giving it one, and the reclaimer and the
rerun write nothing final. `StatusesAgree` is needed for both: the reclaimer
looks at the submission's status and writes the quality row. `LockingIsHandled`
is where `SlowSessions` enters. One lemma per operation shows `Delivery`
preserved, by way of `SlotDelivers` (steps of one slot that change no row) or
`RowDelivers` (steps of a call that change its task's rows).

`KeepsPromise` needs the books. An earning is pending while its item's cycle is
locked and final when it is settled, with nothing if it was reversed
(`EarningOf`); a claim is a request (`ClaimOf`). `ClaimedAndEarned` reads the
wallet as promised: what was claimed is reserved or withdrawn, what was earned is
available or was claimed. So a withdrawal the balance allows is one the promise
allows, an accrual is `Earn`, an adjustment `Correct`, the settlement of a cycle
`Finalise` of all its items at once, and everything else leaves items, cycles and
requests alone (`PromiseFrame`). `ClaimedAndEarned` is `Solvent` as well.

`KeepsDesk` needs `Delivery` and `Prompted`: a row has a prompt if and only if it
exists, and a call that evaluates uses a prompt and has a row. `LockExcludes`
makes "the prompt a task is evaluated by" one value, and lets a call that takes
the lock begin at an empty desk. The one write that no lock protects is
`markTerminalFailure` for a task without a row; it is the exception `Final` makes.

In `AnnotationRuns` the difficulty is a request that decided on a row it read
and acts after the row has changed. `Store` says what stays true of what such a
request found: it still holds, or the submission was deleted since, and what a
deletion removed does not come back (`RowsFit`, `OperatorsFit`); an analysis that
went through has seen the whole video (`AnalysisFits`). `WholeObject`,
`DownstreamStands` and half of `DeletedIsClean` follow; the other half is
`NoOpenRun`, that a deleted submission keeps no unfinished run. `OneResult` needs
`SucceededOnly`: a chosen result belongs to a run that succeeded. `WakeUpKept` is
about single steps and is proved operation by operation. For `WithinBudget` the
invariant must allow for the one disturbance the bound tolerates: either two
happened, or each run has at most one worker (`Sole`), that worker has its lock
and its run unless the one disturbance took either (`Undisturbed`), and no run
has spent more than its budget (`Budget`). Only the removal of a submission
leaves a worker without a row (`RemovedOnly`).

`KeepsLife` rests on the same invariants and on `BegunStudied`, that an attempt
begins on an analysed video. A late completion, analysis or deletion must change
nothing the life forbids: `Store` shows that what it writes is what already
holds. The row with the store, the runs' work and their outcomes change in
different steps or in ways that can be told separately (`SubmissionLives`,
`WorkLives`, `OutcomeLives`), so that each operation is one of a few cases.

In `TaskSegments` a handler works on what it read before it cut: `FitJob` says
what its record means in each phase. `Publication` adds that a ready asset has
the hash of a clip, and `Reserved`: the revision a handler writes exists, one that
it publishes has its file, and an asset nobody has made has no current revision.
This makes the half of `PairedPublication` about rows and files inductive
(`Paired`). The half about the clip is `Standing`. `Placed`: a clip that is put is
never taken away, only replaced. `Calm`: without a mishap no clip was transcoded
(`NoExact`) and each asset has one handler, whose clip is the one at the key
(`Solos`); after one mishap either still holds, because a mishap that sets a second
handler to work transcodes nothing, and one that transcodes (`ExactMade`) sets
nobody to work. Either is enough for a ready asset to have the clip of its row
(`ReadyClipStands`). `Retention` adds `Uncut` and
`SourceGone`. `UncutAsset` says when a clip cannot appear: for an asset not yet
made, or with a refinement open (which is then queued), there is no clip and no
event or message that would cut one; a skipped asset has no clip and no handler
that cuts. `SourceGone` says that without the original some run is done: one of
its assets is ready, and each has clip and JSON, or was skipped or retried and no
handler can still give it a clip. `AssetStep` and `JobStep` summarise what any step may do
to an asset and to a handler, so that the two action properties are read off
them.

`KeepsArchive` needs `Retention` and `Filed`: a published revision has its file,
and nothing is retried before it is made. A step reserves a number, publishes,
releases the original, or is `Silent`; a silent step touches one asset
(`Only`) or judges the tasks of one run.

In `DeliveryArchives` each step of a claim is summarised once (`StepOf`, lemma
`ClaimSteps`): the claim follows its program, and the row, the bucket and the
counter change only as that place in the program allows. `Standing` says that no
claim is ahead of its task (`Ahead`), that no two claims at work are about one
archive (`Apart`), and what a claim past its upload or its deletion may rely on;
with it `ArchiveStands` is inductive. `NothingLeftBehind` is inductive with
`StoredOK`, by which a claim past its upload knows that it has stored something:
each object is named by its row, in the hands of a claim, or that of a claim that
was struck (`Accounted`). `TriesBounded` needs `Tries`: a queued task is below the
cap, and one in process that may lose its lease without a further disturbance
(`Spare`) is below the bound. `CapacityKept` follows because a step adds at most
one lease, and that only below the cap.

`KeepsRegister` is `Standing` with `Numbered`, that claims count from one. A step
of a claim changes the row or the bucket, never both; one that holds the lease is
the latest, so what it names is the last try; a task fails only at the cap.

The other four promises are proved sound under the same mappings: their type
invariant with `Sound` is inductive for their own `Next` (`LifeStep`,
`RegisterStep`, `DeskStep`, `ArchiveActionSound`), and the refinement carries it
to the code.

**Only model-checked.** The liveness properties: `EntitledIsCredited`,
`DueIsSettled`, `JudgedEventually`, `CutEventually`, `JsonEventually` and
`ArchivesEnd`. They rest on fairness, and so on `ENABLED`, which the prover does
not handle. Every invariant, action property and refinement that a passing run
checks is also a theorem. The three claims of comments that the code violates
are counterexamples of TLC.

## 5. Plan

Done: the money core with its scheduler; the delivery of AI quality tasks with
the reclaimer; uploads, deletion, media analysis and annotation runs of a
submission; task segments with the retention of the source; the archive tasks of
delivery packages; the abstract specification of each, implemented and proved.

Open, in this order:

1. The outbox as a component: a row that a producer renews (`settleCycle`,
   `upsertOutbox`) while a publisher has it in hand. The models have one event at
   a time, and a renewal that is never lost.
2. Delivery packages before their archive: candidates, creation, the deletion of
   an asset a package names.
3. The rule calculator and the interval algebra of the quality rules as
   operators against reference definitions over bounded inputs.
4. Liveness of uploads and deletions under the reconciler, whose batch is
   bounded, which needs several submissions.
5. Collection tasks: publication, claims and limits.

**Not modelled, and why.** Scenes, guide, pricing, the public site, identity and
sessions, payout evidence and saved recipients: rows changed by one transaction
each, with policies and little that interleaves. Rate limits: one atomic
statement. Object storage, messaging clients, audit, HTTP, configuration and CLI:
input and output, modelled where a component uses them by what may go wrong. The
video quality rule engine, the catalogues of AI quality, the prompts and schemas
of the annotation model: pure functions of data that the protocols pass on as one
value. The task asset projection: a read model. The quality lab and the web
client: tools and an interface, which keep no state the platform relies on.
These parts, with the data access and the presentation in the services that are
modelled, make up most of the code, which is why the models stand for about a
tenth of its lines: they cover the protocols, and of those what changes state.
