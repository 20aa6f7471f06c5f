---------------------------- MODULE TaskSegments ----------------------------
(***************************************************************************)
(* From a published annotation to an archived video: the task assets of    *)
(* the formal run, the refinement of their boundaries by one model call,   *)
(* the cutting of their clips, the publication of the JSON paired with     *)
(* each clip, and the deletion of the original video once everything that  *)
(* must be cut from it has been.  One submission, with the events, the     *)
(* messages and the handlers that carry this work.                         *)
(***************************************************************************)
EXTENDS Naturals, FiniteSets, Sequences, Bags

CONSTANTS
    Runs,            \* annotation runs of the submission
    Assets,          \* their tasks, each with the asset made for it
    RunOf,           \* the run of each asset
    Handlers,        \* handlers of messages that may be at work together
    NoAsset,
    Refinement,      \* settings of TASK_BOUNDARY_REFINEMENT_ENABLED, a subset of BOOLEAN
    RetryDelays,     \* length of RETRY_DELAYS
    MaxDisturbances  \* bound on what fails or dies, and on the administrators' retries

ASSUME TaskAssumption ==
    /\ RunOf \in [Assets -> Runs]
    /\ NoAsset \notin Assets
    /\ RetryDelays \in Nat
    /\ Refinement \subseteq BOOLEAN

VARIABLES
    run,           \* annotation_runs: not yet formal, the formal result, or no longer
    version,       \* annotation_runs.review_revision
    stored,        \* submissions.storage_status
    settled,       \* a settled cycle has an item of the submission
    asset,         \* task_segment_assets
    refinement,    \* task_boundary_refinements.execution_status, "ended" whichever way
    revisions,     \* task_segment_annotation_revisions of each asset, in order
    calls,         \* calls of the refinement model for each asset
    original,      \* the original video is in the bucket
    clip,          \* the video at an asset's clip key
    json,          \* numbers of the revisions whose file is in the bucket
    outbox,        \* job_outbox
    queue,         \* messages that wait at the broker
    job,           \* what each handler holds
    disturbances,  \* failures, deaths and administrators' retries so far
    outage         \* the database or the broker has failed

rowVars    == <<run, version, stored, settled, asset, refinement, revisions>>
bucketVars == <<original, clip, json>>
brokerVars == <<outbox, queue, job>>
faultVars  == <<disturbances, outage>>
vars       == <<rowVars, calls, bucketVars, brokerVars, faultVars>>

----------------------------------------------------------------------------
\* Rows, events and messages.

\* A clip is told from another of the same asset by how it was made: in the mode
\* the plan prefers, or transcoded because that failed. They differ in bytes and size.
Clips  == {"preferred", "exact"}
NoClip == "none"

\* code: why an asset is skipped, by what retention makes of the reason.
Asset == [generation  : {"none", "queued", "processing", "ready", "failed", "skipped"},
          code        : {"none", "allowed", "other"},
          sha         : Clips \cup {NoClip},
          publication : {"pending", "publishing", "published", "failed", "not_applicable"},
          current     : Nat,
          retried     : BOOLEAN]

NewAsset == [generation |-> "none", code |-> "none", sha |-> NoClip,
             publication |-> "not_applicable", current |-> 0, retried |-> FALSE]

\* The fingerprint of a revision: the review it renders and the clip it describes.
Revision == [version : {0, 1}, sha : Clips, status : {"publishing", "published", "failed"}]

AssetsOf(r) == {a \in Assets : RunOf[a] = r}
Accepted(a) == run[RunOf[a]] = "formal"
Ready(a)    == asset[a].generation = "ready"

Retain == <<"retain", NoAsset>>
Events == ({"refine", "cut", "json"} \X Assets) \cup {Retain}

RetryNumbers == 0..RetryDelays
Messages == [event : Events, retry : RetryNumbers, redelivered : BOOLEAN]

Job == [message : Messages,
        phase   : {"calling", "answered", "cutting", "uploading", "finalizing",
                   "recovering", "writing", "publishing"},
        made    : Clips \cup {NoClip},
        revision  : Nat,
        connected : BOOLEAN]
Idle == [phase |-> "idle"]

Subject(h) == job[h].message.event[2]
At(h, phase) == job[h].phase = phase

Init ==
    /\ run = [r \in Runs |-> "candidate"]
    /\ version = [r \in Runs |-> 0]
    /\ stored = "available"
    /\ settled = FALSE
    /\ asset = [a \in Assets |-> NewAsset]
    /\ refinement = [a \in Assets |-> "none"]
    /\ revisions = [a \in Assets |-> <<>>]
    /\ calls = [a \in Assets |-> 0]
    /\ original = TRUE
    /\ clip = [a \in Assets |-> NoClip]
    /\ json = [a \in Assets |-> {}]
    /\ outbox = [e \in Events |-> "none"]
    /\ queue = EmptyBag
    /\ job = [h \in Handlers |-> Idle]
    /\ disturbances = 0
    /\ outage = FALSE

----------------------------------------------------------------------------
\* The broker and the handlers of messages.

Disturbed == disturbances < MaxDisturbances /\ disturbances' = disturbances + 1
Fault  == Disturbed /\ UNCHANGED outage
Outage == Disturbed /\ outage' = TRUE

Enqueue(E) == outbox' = [e \in Events |-> IF e \in E THEN "pending" ELSE outbox[e]]

Sent(Q, m)  == Q (+) SetToBag({m})
Taken(Q, m) == Q (-) SetToBag({m})

\* An event is published inside the transaction that marks it: one that fails
\* after the publication leaves the event to be published again.
publish(e) ==
    /\ outbox[e] = "pending"
    /\ queue' = Sent(queue, [event |-> e, retry |-> 0, redelivered |-> FALSE])
    /\ \/ outbox' = [outbox EXCEPT ![e] = "published"] /\ UNCHANGED faultVars
       \/ Outage /\ UNCHANGED outbox
    /\ UNCHANGED <<rowVars, calls, bucketVars, job>>

Delivered(m) == BagIn(m, queue) /\ queue' = Taken(queue, m)

\* The handler's first transaction starts the work, or lets go of the message.
\* One idle handler is as good as another.
Start(h, m, phase, revision) ==
    /\ job[h] = Idle
    /\ h = CHOOSE k \in Handlers : job[k] = Idle
    /\ Delivered(m)
    /\ job' = [job EXCEPT ![h] = [message |-> m, phase |-> phase, made |-> NoClip,
                                  revision |-> revision, connected |-> TRUE]]
Drop(m) == Delivered(m) /\ UNCHANGED job

Step(h, phase) == job' = [job EXCEPT ![h].phase = phase]

NextTry(m) == [m EXCEPT !.retry = @ + 1, !.redelivered = FALSE]

\* A message is sent again under the next number while there is one, by a
\* handler that still has its channel, and acknowledged either way.
Retry(h) ==
    /\ job' = [job EXCEPT ![h] = Idle]
    /\ IF job[h].connected /\ job[h].message.retry < RetryDelays
         THEN queue' = Sent(queue, NextTry(job[h].message))
         ELSE UNCHANGED queue

\* Mutant: a message is sent again however often it has been.
RetryForever(m) ==
    /\ BagIn(m, queue)
    /\ UNCHANGED job
    /\ queue' = Sent(Taken(queue, m), NextTry(m))

RetryDelivered(m) ==
    /\ BagIn(m, queue)
    /\ UNCHANGED job
    /\ queue' = IF m.retry < RetryDelays THEN Sent(Taken(queue, m), NextTry(m))
                                        ELSE Taken(queue, m)
Acknowledge(h) == job' = [job EXCEPT ![h] = Idle] /\ UNCHANGED queue

Redelivered(m) == [m EXCEPT !.redelivered = TRUE]

\* A process dies with the messages it holds, before or after their first
\* transaction; or it only loses its channel, and its handler works on.
dies(h) ==
    /\ job[h] # Idle
    /\ Fault
    /\ job' = [job EXCEPT ![h] = Idle]
    /\ queue' = IF job[h].connected
                  THEN Sent(queue, Redelivered(job[h].message))
                  ELSE queue
    /\ UNCHANGED <<rowVars, calls, bucketVars, outbox>>

diesAtOnce(m) ==
    /\ ~m.redelivered
    /\ BagIn(m, queue)
    /\ Fault
    /\ queue' = Sent(Taken(queue, m), Redelivered(m))
    /\ UNCHANGED <<rowVars, calls, bucketVars, outbox, job>>

losesChannel(h) ==
    /\ job[h] # Idle
    /\ job[h].connected
    /\ Fault
    /\ job' = [job EXCEPT ![h].connected = FALSE]
    /\ queue' = Sent(queue, Redelivered(job[h].message))
    /\ UNCHANGED <<rowVars, calls, bucketVars, outbox>>

\* A transaction fails, of a handler or on delivery, and nothing of it is kept.
\* Retention does not take a failing database for retryable (archivingFails is the
\* failure after it has deleted the original); a refinement on its
\* last try then fails to be closed as well.
handlerFails(h) ==
    /\ job[h] # Idle
    /\ Outage
    /\ Retry(h)
    /\ UNCHANGED <<rowVars, calls, bucketVars, outbox>>

deliveryFails(m) ==
    /\ Outage
    /\ IF m.event = Retain THEN Drop(m) ELSE RetryDelivered(m)
    /\ UNCHANGED <<rowVars, calls, bucketVars, outbox>>

----------------------------------------------------------------------------
\* The formal run and its assets.

\* What becomes of a task when its run is published: its clip is cut, after a
\* refinement of its boundaries where that is enabled; or it is skipped, as
\* uncertain or too short, or as invalid, or for its evidence.
Outcomes == {"cut", "allowed", "other", "evidence"}

Published(outcome) ==
    [NewAsset EXCEPT
       !.generation  = IF outcome = "cut" THEN "queued" ELSE "skipped",
       !.code        = CASE outcome = "cut" -> "none"
                         [] outcome = "allowed" -> "allowed"
                         [] OTHER -> "other",
       !.publication = CASE outcome = "cut" -> "pending"
                         [] outcome = "evidence" -> "failed"
                         [] OTHER -> "not_applicable"]

\* Nothing looks at the storage of the video; the assets of a run already there
\* are left as they are.
enqueueForPublishedRun(r) ==
    IF \E a \in AssetsOf(r) : asset[a].generation # "none"
      THEN UNCHANGED <<asset, refinement, outbox>>
      ELSE \E enabled \in Refinement, outcome \in [AssetsOf(r) -> Outcomes] :
             LET cut == {a \in AssetsOf(r) : outcome[a] = "cut"}
             IN  /\ asset' = [a \in Assets |-> IF RunOf[a] = r THEN Published(outcome[a])
                                                               ELSE asset[a]]
                 /\ refinement' = [a \in Assets |->
                      CASE enabled /\ a \in cut -> "queued"
                        [] enabled /\ RunOf[a] = r /\ outcome[a] = "allowed" -> "ended"
                        [] OTHER -> refinement[a]]
                 /\ Enqueue({IF enabled THEN <<"refine", a>> ELSE <<"cut", a>> : a \in cut})

\* One formal result: the former one is superseded in the same transaction.
BecomesFormal(r) ==
    run' = [q \in Runs |-> CASE q = r -> "formal"
                             [] q # r /\ run[q] = "formal" -> "withdrawn"
                             [] OTHER -> run[q]]

autoAccept(r) ==
    /\ run[r] = "candidate"
    /\ BecomesFormal(r)
    /\ enqueueForPublishedRun(r)
    /\ UNCHANGED <<version, stored, settled, revisions, calls, bucketVars, queue, job, faultVars>>

\* The review of a candidate, or the audit of a run accepted automatically.
Reviewable(r) == run[r] = "candidate" \/ (run[r] = "formal" /\ version[r] = 0)

reviewAccepts(r) ==
    /\ Reviewable(r)
    /\ BecomesFormal(r)
    /\ version' = [version EXCEPT ![r] = 1]
    /\ enqueueForPublishedRun(r)
    /\ UNCHANGED <<stored, settled, revisions, calls, bucketVars, queue, job, faultVars>>

reviewRejects(r) ==
    /\ Reviewable(r)
    /\ run' = [run EXCEPT ![r] = "withdrawn"]
    /\ version' = [version EXCEPT ![r] = 1]
    /\ UNCHANGED <<stored, settled, asset, refinement, revisions, calls, bucketVars,
                   brokerVars, faultVars>>

----------------------------------------------------------------------------
\* TaskBoundaryRefinementProcessor.

\* The boundary is applied with the refinement's result, or with the coarse one:
\* the asset is to be cut, or it is skipped as too short or uncertain, or for a time
\* range that is invalid.
Complete(a) ==
    \E outcome \in {"cut", "allowed", "other"} :
      /\ refinement' = [refinement EXCEPT ![a] = "ended"]
      /\ asset' = [asset EXCEPT ![a].generation = IF outcome = "cut" THEN "queued" ELSE "skipped",
                                ![a].code = IF outcome = "cut" THEN "none" ELSE outcome]
      /\ Enqueue(IF outcome = "cut" THEN {<<"cut", a>>} ELSE {})

Recovering(m) == m.retry > 0 \/ m.redelivered

\* Mutant: a refinement found running is started again.
ClaimsRunning(a, m) ==
    \/ refinement[a] = "queued"
    \/ refinement[a] = "running" /\ Recovering(m)

ClaimsRefinement(a, m) == refinement[a] = "queued"

\* A refinement that was running when its handler went is closed without a call.
claimRefinement(h, m) ==
    LET a == m.event[2] IN
    /\ m.event[1] = "refine"
    /\ \/ /\ ClaimsRefinement(a, m)
          /\ Start(h, m, "calling", 0)
          /\ refinement' = [refinement EXCEPT ![a] = "running"]
          /\ UNCHANGED <<asset, outbox>>
       \/ /\ ~ClaimsRefinement(a, m)
          /\ Drop(m)
          /\ IF refinement[a] = "running" /\ Recovering(m)
               THEN Complete(a)
               ELSE UNCHANGED <<refinement, asset, outbox>>
    /\ UNCHANGED <<run, version, stored, settled, revisions, calls, bucketVars, faultVars>>

Refinable(a) == Accepted(a) /\ stored = "available" /\ original

callModel(h) ==
    LET a == Subject(h) IN
    /\ At(h, "calling")
    /\ Refinable(a)
    /\ calls' = [calls EXCEPT ![a] = @ + 1]
    /\ Step(h, "answered")
    /\ UNCHANGED <<rowVars, bucketVars, outbox, queue, faultVars>>

Open(a) == refinement[a] = "running"

\* With the result of the call or, when the run or the video is no longer there
\* to be refined or something fails before the call, without one.
completeRefinement(h) ==
    LET a == Subject(h) IN
    /\ \/ At(h, "answered") /\ UNCHANGED faultVars
       \/ At(h, "calling") /\ ~Refinable(a) /\ UNCHANGED faultVars
       \/ At(h, "calling") /\ Fault
    /\ IF Open(a) THEN Complete(a) ELSE UNCHANGED <<refinement, asset, outbox>>
    /\ Acknowledge(h)
    /\ UNCHANGED <<run, version, stored, settled, revisions, calls, bucketVars>>

----------------------------------------------------------------------------
\* TaskSegmentProcessor.

\* Mutant: a redelivered message does not take over the cutting of its asset.
ClaimsNoneCutting(a, m) == asset[a].generation \in {"queued", "failed"}

Claimable(a, m) ==
    \/ asset[a].generation \in {"queued", "failed"}
    \/ asset[a].generation = "processing" /\ Recovering(m)

claim(h, m) ==
    LET a == m.event[2] IN
    /\ m.event[1] = "cut"
    /\ \/ /\ Claimable(a, m)
          /\ Start(h, m, "cutting", 0)
          /\ asset' = [asset EXCEPT ![a].generation = "processing", ![a].code = "none"]
       \/ /\ ~Claimable(a, m)
          /\ Drop(m)
          /\ UNCHANGED asset
    /\ UNCHANGED <<run, version, stored, settled, refinement, revisions, calls,
                   bucketVars, outbox, faultVars>>

\* Only a row still in processing is given up.
GiveUp(a, status) ==
    asset' = IF asset[a].generation = "processing"
               THEN [asset EXCEPT ![a].generation = status, ![a].code = "other",
                                  ![a].publication = "not_applicable"]
               ELSE asset

skip(h) ==
    /\ At(h, "cutting")
    /\ ~Accepted(Subject(h))
    /\ GiveUp(Subject(h), "skipped")
    /\ Acknowledge(h)
    /\ UNCHANGED <<run, version, stored, settled, refinement, revisions, calls,
                   bucketVars, outbox, faultVars>>

\* The run, the submission and the bucket are read without locks. A valid clip
\* left by an earlier attempt is taken; otherwise one is made of the source.
Made(h, phase, c) == job' = [job EXCEPT ![h].phase = phase, ![h].made = c]

recoverCanonical(h) ==
    /\ At(h, "cutting")
    /\ Accepted(Subject(h))
    /\ clip[Subject(h)] # NoClip
    /\ Made(h, "recovering", clip[Subject(h)])
    /\ UNCHANGED <<rowVars, calls, bucketVars, outbox, queue, faultVars>>

SourceThere == stored = "available" /\ original

\* Mutant: an attempt chooses the mode for itself, and not by the plan.
materializeEitherWay(h) ==
    /\ At(h, "cutting")
    /\ Accepted(Subject(h))
    /\ SourceThere
    /\ \E c \in Clips : Made(h, "uploading", c)
    /\ UNCHANGED <<rowVars, calls, bucketVars, outbox, queue, faultVars>>

materialize(h) ==
    /\ At(h, "cutting")
    /\ Accepted(Subject(h))
    /\ SourceThere
    /\ \/ clip[Subject(h)] = NoClip /\ Made(h, "uploading", "preferred") /\ UNCHANGED faultVars
       \/ Made(h, "uploading", "exact") /\ Fault
    /\ UNCHANGED <<rowVars, calls, bucketVars, outbox, queue>>

\* Without its source an asset fails for good; so it does when the source cannot
\* be read. A transcode that fails, or its result, is retried.
cutFails(h) ==
    /\ At(h, "cutting")
    /\ Accepted(Subject(h))
    /\ GiveUp(Subject(h), "failed")
    /\ \/ clip[Subject(h)] = NoClip /\ ~SourceThere /\ Acknowledge(h) /\ UNCHANGED faultVars
       \/ Fault /\ (Acknowledge(h) \/ Retry(h))
    /\ UNCHANGED <<run, version, stored, settled, refinement, revisions, calls,
                   bucketVars, outbox>>

\* The upload overwrites whatever is at the clip's key; it is then verified.
Uploaded(h) == [clip EXCEPT ![Subject(h)] = job[h].made]

upload(h) ==
    /\ At(h, "uploading")
    /\ clip' = Uploaded(h)
    /\ Step(h, "finalizing")
    /\ UNCHANGED <<rowVars, calls, original, json, outbox, queue, faultVars>>

uploadFails(h) ==
    /\ At(h, "uploading")
    /\ Fault
    /\ clip' \in {clip, Uploaded(h)}
    /\ GiveUp(Subject(h), "failed")
    /\ Retry(h)
    /\ UNCHANGED <<run, version, stored, settled, refinement, revisions, calls,
                   original, json, outbox>>

\* Of two handlers that cut the same asset the first one finalizes it.
finalize(h) ==
    LET a == Subject(h) IN
    /\ At(h, "finalizing") \/ At(h, "recovering")
    /\ \/ /\ asset[a].generation = "processing"
          /\ asset' = [asset EXCEPT ![a].generation = "ready", ![a].sha = job[h].made,
                                    ![a].publication = "pending", ![a].code = "none"]
          /\ Enqueue({<<"json", a>>})
          /\ Acknowledge(h)
       \/ /\ Ready(a)
          /\ Acknowledge(h)
          /\ UNCHANGED <<asset, outbox>>
       \/ /\ asset[a].generation # "processing" /\ ~Ready(a)
          /\ Retry(h)
          /\ UNCHANGED <<asset, outbox>>
    /\ UNCHANGED <<run, version, stored, settled, refinement, revisions, calls,
                   bucketVars, faultVars>>

----------------------------------------------------------------------------
\* TaskSegmentAnnotationService: the JSON of a clip.

\* The session lock of an asset goes with the process, not with its channel.
Publishing(h, a) == (At(h, "writing") \/ At(h, "publishing")) /\ Subject(h) = a
Busy(a) == \E h \in Handlers : Publishing(h, a)

busy(m) ==
    /\ m.event[1] = "json"
    /\ Busy(m.event[2])
    /\ RetryDelivered(m)
    /\ UNCHANGED <<rowVars, calls, bucketVars, outbox, faultVars>>

\* The revisions made from what the asset and its run are now: one at most.
Current(a) == {i \in DOMAIN revisions[a] : /\ revisions[a][i].version = version[RunOf[a]]
                                           /\ revisions[a][i].sha = asset[a].sha}
IsPublished(a, i) == revisions[a][i].status = "published"

\* The run is not the formal result, the clip is not ready, or no JSON can be
\* made from them: the message is given up.
rejectPublication(m) ==
    LET a == m.event[2] IN
    /\ m.event[1] = "json"
    /\ ~Busy(a)
    /\ Accepted(a) /\ Ready(a) => Fault
    /\ ~(Accepted(a) /\ Ready(a)) => UNCHANGED faultVars
    /\ Drop(m)
    /\ asset' = [asset EXCEPT ![a].publication = "failed"]
    /\ UNCHANGED <<run, version, stored, settled, refinement, revisions, calls,
                   bucketVars, outbox>>

EnqueueRetentionIfSettled == IF settled THEN Enqueue({Retain}) ELSE UNCHANGED outbox

alreadyPublished(m) ==
    LET a == m.event[2] IN
    /\ m.event[1] = "json"
    /\ ~Busy(a) /\ Accepted(a) /\ Ready(a)
    /\ \E i \in Current(a) : IsPublished(a, i) /\ asset[a].current = i
    /\ asset[a].publication = "published"
    /\ Drop(m)
    /\ EnqueueRetentionIfSettled
    /\ UNCHANGED <<rowVars, calls, bucketVars, faultVars>>

NewRevision(a) ==
    [version |-> version[RunOf[a]], sha |-> asset[a].sha, status |-> "publishing"]

WithNext(a) == Append(revisions[a], NewRevision(a))

\* A published revision is made current again as it is; one that failed is
\* reserved anew, with its number and its bytes.
reserve(h, m) ==
    LET a == m.event[2] IN
    /\ m.event[1] = "json"
    /\ ~Busy(a) /\ Accepted(a) /\ Ready(a)
    /\ \/ \E i \in Current(a) :
            /\ IsPublished(a, i)
            /\ asset[a].current # i \/ asset[a].publication # "published"
            /\ Start(h, m, "writing", i)
            /\ UNCHANGED <<asset, revisions>>
       \/ \E i \in Current(a) :
            /\ ~IsPublished(a, i)
            /\ Start(h, m, "writing", i)
            /\ revisions' = [revisions EXCEPT ![a][i].status = "publishing"]
            /\ asset' = [asset EXCEPT ![a].publication = "publishing"]
       \/ /\ Current(a) = {}
          /\ Start(h, m, "writing", Len(WithNext(a)))
          /\ revisions' = [revisions EXCEPT ![a] = WithNext(a)]
          /\ asset' = [asset EXCEPT ![a].publication = "publishing"]
    /\ UNCHANGED <<run, version, stored, settled, refinement, calls, bucketVars,
                   outbox, faultVars>>

FailRevision(a, i) ==
    revisions' = IF IsPublished(a, i) THEN revisions
                                      ELSE [revisions EXCEPT ![a][i].status = "failed"]

\* Mutant: a failure is put on the revision and not on its asset.
recordOnRevision(h) ==
    /\ FailRevision(Subject(h), job[h].revision)
    /\ UNCHANGED asset

recordFailure(h) ==
    /\ asset' = [asset EXCEPT ![Subject(h)].publication = "failed"]
    /\ FailRevision(Subject(h), job[h].revision)

SameClip(a, i) == clip[a] = revisions[a][i].sha

\* The clip is compared with its row, the file written unless it is there, and
\* read back. What fails here is retried.
write(h) ==
    /\ At(h, "writing")
    /\ SameClip(Subject(h), job[h].revision)
    /\ json' = [json EXCEPT ![Subject(h)] = @ \cup {job[h].revision}]
    /\ Step(h, "publishing")
    /\ UNCHANGED <<rowVars, calls, original, clip, outbox, queue, faultVars>>

\* Mutant: a file that could not be written is not missed.
writeUnread(h) ==
    /\ At(h, "writing")
    /\ Fault
    /\ Step(h, "publishing")
    /\ UNCHANGED <<rowVars, calls, bucketVars, outbox, queue>>

writeFails(h) ==
    LET a == Subject(h)  i == job[h].revision IN
    /\ At(h, "writing")
    /\ \/ SameClip(a, i) /\ Fault /\ json' \in {json, [json EXCEPT ![a] = @ \cup {i}]}
       \/ ~SameClip(a, i) /\ UNCHANGED <<json, faultVars>>
    /\ recordFailure(h)
    /\ Retry(h)
    /\ UNCHANGED <<run, version, stored, settled, refinement, calls, original, clip, outbox>>

\* Mutant: the fingerprint is not computed again before the publication.
AnyFingerprint(a, i) == TRUE

SameFingerprint(a, i) == i \in Current(a)

\* The revision, the pointer and the wake-up of the retention in one transaction.
publishJson(h) ==
    LET a == Subject(h)  i == job[h].revision
        bound == Accepted(a) /\ Ready(a) /\ SameFingerprint(a, i)
    IN
    /\ At(h, "publishing")
    /\ Acknowledge(h)
    /\ \/ /\ bound
          /\ revisions' = [revisions EXCEPT ![a][i].status = "published"]
          /\ asset' = [asset EXCEPT ![a].publication = "published", ![a].current = i]
          /\ EnqueueRetentionIfSettled
       \/ /\ ~bound
          /\ recordFailure(h)
          /\ UNCHANGED outbox
    /\ UNCHANGED <<run, version, stored, settled, refinement, calls, bucketVars, faultVars>>

----------------------------------------------------------------------------
\* The settlement, and SourceRetentionProcessor.

settle ==
    /\ ~settled
    /\ settled' = TRUE
    /\ Enqueue({Retain})
    /\ UNCHANGED <<run, version, stored, asset, refinement, revisions, calls, bucketVars,
                   queue, job, faultVars>>

Formal == {r \in Runs : run[r] = "formal"}

AllowedSkip(a) == asset[a].generation = "skipped" /\ asset[a].code = "allowed"

\* Mutant: clips that failed or are being cut do not hold the video.
AwaitsRefinement(r) == \E a \in AssetsOf(r) : refinement[a] \in {"queued", "running"}

\* A refinement is open, a clip is still to be cut or has failed, or was skipped
\* for a reason that may need the video.
Awaits(r) ==
    \E a \in AssetsOf(r) : \/ refinement[a] \in {"queued", "running"}
                           \/ ~Ready(a) /\ ~AllowedSkip(a)

\* Without one formal run with a ready clip the video is kept, and the decision
\* is not tried again.
Kept ==
    \/ stored # "available"
    \/ Cardinality(Formal) # 1
    \/ \E r \in Formal : \A a \in AssetsOf(r) : asset[a].generation = "none"
    \/ \E r \in Formal : ~Awaits(r) /\ \A a \in AssetsOf(r) : ~Ready(a)

\* The clip and the JSON of an asset are in the bucket as its rows have them.
CurrentRevision(a) ==
    LET i == asset[a].current IN
    /\ i \in DOMAIN revisions[a]
    /\ IsPublished(a, i)
    /\ revisions[a][i].sha = asset[a].sha
    /\ i \in json[a]

Releasable(r) ==
    /\ ~Awaits(r)
    /\ \A a \in AssetsOf(r) :
         Ready(a) => /\ clip[a] = asset[a].sha
                     /\ asset[a].publication = "published"
                     /\ CurrentRevision(a)

\* The deletion of the original, as the last object, is answered by an error, before
\* or after it has been done: it is tried again, and finds it gone in the second case.
deletionFails(m) ==
    /\ Fault
    /\ original' \in {original, FALSE}
    /\ RetryDelivered(m)

\* The original is deleted, and the transaction fails when it records that. This is
\* not taken for retryable: the row keeps saying that the video is available.
archivingFails(m) ==
    /\ Outage
    /\ original' = FALSE
    /\ Drop(m)

\* One transaction under the locks of all it reads.
retain(m) ==
    /\ m.event = Retain
    /\ \/ Kept /\ Drop(m) /\ UNCHANGED <<stored, original, faultVars>>
       \/ /\ ~Kept
          /\ \E r \in Formal : ~Releasable(r)
          /\ RetryDelivered(m)
          /\ UNCHANGED <<stored, original, faultVars>>
       \/ /\ ~Kept
          /\ \A r \in Formal : Releasable(r)
          /\ original' = FALSE
          /\ stored' = "deleted"
          /\ Drop(m)
          /\ UNCHANGED faultVars
       \/ /\ ~Kept
          /\ \A r \in Formal : Releasable(r)
          /\ deletionFails(m) \/ archivingFails(m)
          /\ UNCHANGED stored
    /\ UNCHANGED <<run, version, settled, asset, refinement, revisions, calls, clip, json,
                   outbox>>

----------------------------------------------------------------------------
\* The administrators' retries.

\* TaskSegmentService.retry.
retryCut(a) ==
    /\ Fault
    /\ asset[a].generation \in {"failed", "skipped"}
    /\ asset' = [asset EXCEPT ![a].generation = "queued", ![a].code = "none",
                              ![a].retried = TRUE]
    /\ Enqueue({<<"cut", a>>})
    /\ UNCHANGED <<run, version, stored, settled, refinement, revisions, calls, bucketVars,
                   queue, job>>

\* TaskSegmentAnnotationService.retry, of a publication that may have been going
\* on for longer than SEGMENT_ANNOTATION_STALE_MS.
retryJson(a) ==
    /\ Fault
    /\ Ready(a)
    /\ asset[a].publication # "published"
    /\ asset' = [asset EXCEPT ![a].publication = "pending"]
    /\ Enqueue({<<"json", a>>})
    /\ UNCHANGED <<run, version, stored, settled, refinement, revisions, calls, bucketVars,
                   queue, job>>

backfill(a) ==
    /\ Fault
    /\ Ready(a)
    /\ asset[a].current = 0
    /\ asset[a].publication # "publishing"
    /\ Enqueue({<<"json", a>>})
    /\ UNCHANGED <<rowVars, calls, bucketVars, queue, job>>

----------------------------------------------------------------------------
Handler(h) ==
    \/ \E m \in BagToSet(queue) : claimRefinement(h, m) \/ claim(h, m) \/ reserve(h, m)
    \/ callModel(h) \/ completeRefinement(h)
    \/ skip(h) \/ recoverCanonical(h) \/ materialize(h) \/ cutFails(h)
    \/ upload(h) \/ uploadFails(h) \/ finalize(h)
    \/ write(h) \/ writeFails(h) \/ publishJson(h)

Delivery(m) == busy(m) \/ rejectPublication(m) \/ alreadyPublished(m) \/ retain(m)

System ==
    \/ \E e \in Events : publish(e)
    \/ \E m \in BagToSet(queue) : Delivery(m)
    \/ \E h \in Handlers : Handler(h)

Faults ==
    \/ \E h \in Handlers : dies(h) \/ losesChannel(h) \/ handlerFails(h)
    \/ \E m \in BagToSet(queue) : diesAtOnce(m) \/ deliveryFails(m)

People ==
    \/ \E r \in Runs : autoAccept(r) \/ reviewAccepts(r) \/ reviewRejects(r)
    \/ \E a \in Assets : retryCut(a) \/ retryJson(a) \/ backfill(a)
    \/ settle

Next == System \/ Faults \/ People

Spec == Init /\ [][Next]_vars

\* The publisher and the handlers run on; nobody has to fail, retry or settle.
FairSpec == Spec /\ WF_vars(System)

----------------------------------------------------------------------------
(* Properties *)

\* Every variable keeps the shape of its rows, messages and objects.
TypeOK ==
    /\ run \in [Runs -> {"candidate", "formal", "withdrawn"}]
    /\ version \in [Runs -> {0, 1}]
    /\ stored \in {"available", "deleted"}
    /\ settled \in BOOLEAN
    /\ asset \in [Assets -> Asset]
    /\ refinement \in [Assets -> {"none", "queued", "running", "ended"}]
    /\ revisions \in [Assets -> Seq(Revision)]
    /\ calls \in [Assets -> Nat]
    /\ original \in BOOLEAN
    /\ clip \in [Assets -> Clips \cup {NoClip}]
    /\ json \in [Assets -> SUBSET Nat]
    /\ outbox \in [Events -> {"none", "pending", "published"}]
    /\ IsABag(queue) /\ BagToSet(queue) \subseteq Messages
    /\ job \in [Handlers -> Job \cup {Idle}]
    /\ disturbances \in Nat
    /\ outage \in BOOLEAN

\* The video at an asset's key is the one its row describes, unless two mishaps have
\* happened. Two are enough to part them for good: a handler loses its channel, another
\* one cuts for the redelivered message, and a transcode of one of them fails, so that
\* they make different clips. One uploads and finalizes the asset; then the other's
\* upload replaces the clip, and its finalize says nothing
\* (task-segment.processor.ts:282).
ClipStands(a) == clip[a] = asset[a].sha \/ disturbances > 1

\* What is published for an asset is a pair: a revision that says so, of the clip the
\* row describes, whose file is in the bucket; and, after any one mishap, that very clip
\* is in the bucket as well. No review or late failure tears rows and file apart, and
\* no single failure, death or lost channel the clip.
PairedPublication ==
    \A a \in Assets :
        asset[a].publication = "published" => CurrentRevision(a) /\ ClipStands(a)

\* One call of the refinement model for a task, whatever is redelivered
\* (REFINEMENT_INTERRUPTED, task-boundary-refinement.processor.ts:209).
OneModelCall == \A a \in Assets : calls[a] <= 1

\* The original goes only when nothing needs it: some run has a clip and its JSON
\* for every task that is to have them, and all other tasks were skipped for good
\* unless an administrator thought otherwise. Some clip and the JSON stay ever after;
\* it is the clip the row describes as far as ClipStands goes, since a late upload may
\* replace its bytes even then.
ClipsRemain(r) ==
    /\ \E a \in AssetsOf(r) : Ready(a)
    /\ \A a \in AssetsOf(r) :
         \/ Ready(a) /\ clip[a] # NoClip /\ ClipStands(a) /\ CurrentRevision(a)
         \/ AllowedSkip(a)
         \/ asset[a].retried /\ ~Ready(a)

SourceKept == ~original => \E r \in Runs : ClipsRemain(r)

\* What the rows and the bucket say of a video, as VideoArchive tells it. A task is
\* kept when its clip is ready and waived while it is skipped as uncertain or too
\* short; a description is a published revision whose file can be read.
Fate(a) == IF Ready(a) THEN "kept"
           ELSE IF AllowedSkip(a) THEN "waived"
           ELSE IF asset[a].retried THEN "resumed" ELSE "open"

\* What the row calls the clip: ClipStands says when the bucket has it.
Footage(a) == IF Ready(a) THEN asset[a].sha ELSE NoClip

Readable(a) == {i \in DOMAIN revisions[a] : IsPublished(a, i) /\ i \in json[a]}

Descriptions(a) == [i \in Readable(a) |-> [version |-> revisions[a][i].version,
                                          sha |-> revisions[a][i].sha]]

Archive == INSTANCE VideoArchive WITH
    Tasks     <- Assets,
    review    <- version,
    task      <- [a \in Assets |-> Fate(a)],
    footage   <- [a \in Assets |-> Footage(a)],
    numbered  <- [a \in Assets |-> Len(revisions[a])],
    published <- [a \in Assets |-> Descriptions(a)],
    current   <- [a \in Assets |-> asset[a].current],
    source    <- original

\* The work of all handlers, events and retries amounts to keeping the video as
\* VideoArchive says: what a task has come to, the hash of its clip and its descriptions
\* are never taken back, each publication renders the review of that moment, and the
\* original goes only for a complete run. It is about the rows and the files, not
\* about the bytes at the clip's key.
KeepsArchive == Archive!Spec

\* What a publication makes current renders the review of that moment: one that
\* is accepted while the file is being written is not overlooked.
PublishesCurrentReview ==
    [][\A a \in Assets :
         asset[a].publication # "published" /\ asset'[a].publication = "published"
           => revisions'[a][asset'[a].current].version = version[RunOf[a]]]_vars

\* A published revision stays what it is, and an asset that has one keeps one.
PublishedRevisionStands ==
    [][\A a \in Assets :
         /\ \A i \in DOMAIN revisions[a] :
              IsPublished(a, i) => i \in DOMAIN revisions'[a] /\ revisions'[a][i] = revisions[a][i]
         /\ asset[a].current # 0 => asset'[a].current # 0]_vars

\* A clip that is to be cut is cut, fails or is skipped in the end, whichever
\* handlers die or lose their channel on the way; only a failing database may
\* leave it behind.
CutEventually ==
    \A a \in Assets :
        asset[a].generation \in {"queued", "processing"}
          ~> \/ asset[a].generation \in {"ready", "failed", "skipped"}
             \/ outage

\* The JSON of a ready clip is published or reported as failed in the end, after
\* any one mishap; a second one, while the message of the first waits in vain for
\* the publisher that lost its channel, leaves it to the administrators.
JsonEventually ==
    \A a \in Assets :
        Ready(a) /\ asset[a].publication \in {"pending", "publishing"}
          ~> \/ asset[a].publication \in {"published", "failed"}
             \/ outage \/ disturbances > 1
=============================================================================
