---------------------------- MODULE Submissions ----------------------------
(***************************************************************************)
(* The video of one submission in the object store, from its multipart     *)
(* upload to its deletion, and its media analysis in between: the requests *)
(* that complete, cancel or delete, which call the store outside their     *)
(* transactions and may die in the middle, the reconciliation that takes   *)
(* up what they leave, and the handlers of the probe messages, which hold  *)
(* a session lock and may be overtaken by the reclaimer.                   *)
(* The next-state relation is in AnnotationRuns, which a deletion and a    *)
(* finished probe reach into.                                              *)
(***************************************************************************)
EXTENDS Naturals, FiniteSets, Bags

CONSTANTS
    Operators,       \* requests and reconciliations that may be at work together
    Probes,          \* handlers of probe messages that may be at work together
    RetryDelays,     \* length of RETRY_DELAYS
    MaxDisturbances  \* bound on what fails, dies or is reclaimed while it runs

ASSUME SubmissionAssumption == RetryDelays \in Nat

VARIABLES
    upload,      \* submissions.upload_status
    storage,     \* submissions.storage_status, "removed" without the row
    mode,        \* submissions.storage_delete_mode
    keys,        \* submissions.storage_delete_object_keys names the video
    processing,  \* submissions.processing_status
    metadata,    \* the submission has its media_metadata
    multipart,   \* the multipart upload in the store
    original,    \* the original video in the store: of the size declared, or short
    op,          \* what each operator is at
    probeEvent,  \* the job_outbox event media.probe.v1 is pending
    probeQueue,  \* probe messages at the broker, by their retry number
    probe,       \* what each handler of probe messages is at
    disturbances \* failures and deaths so far

rowVars    == <<upload, storage, mode, keys, processing, metadata>>
storeVars  == <<multipart, original>>
probeVars  == <<probeEvent, probeQueue, probe>>
submissionVars == <<rowVars, storeVars, op, probeVars, disturbances>>

----------------------------------------------------------------------------
Sizes == {"whole", "short"}

\* "failed" may be tried again (MEDIA_PROCESSING_FAILED), "rejected" may not;
\* "judged" is whatever the AI evaluation came to.
Processing == {"uploading", "queued", "probing", "failed", "rejected", "awaiting_ai", "judged"}
ActiveProcessing == {"queued", "probing", "awaiting_ai"}

Operation == [kind  : {"complete", "reconcile", "delete"},
              step  : {"store", "commit"},
              found : Sizes \cup {"none"},
              upload : BOOLEAN,
              keys  : BOOLEAN]
NoOperation == [kind |-> "none"]

Probe == [retry     : 0..RetryDelays,
          step      : {"analyzing", "analyzed"},
          connected : BOOLEAN,
          locked    : BOOLEAN]
NoProbe == [step |-> "idle"]

SubmissionInit ==
    /\ upload = "uploading" /\ storage = "available" /\ mode = "none" /\ keys = FALSE
    /\ processing = "uploading" /\ metadata = FALSE
    /\ multipart = "open" /\ original = "none"
    /\ op = [o \in Operators |-> NoOperation]
    /\ probeEvent = FALSE
    /\ probeQueue = EmptyBag
    /\ probe = [h \in Probes |-> NoProbe]
    /\ disturbances = 0

Fault == disturbances < MaxDisturbances /\ disturbances' = disturbances + 1
Steady == UNCHANGED disturbances

----------------------------------------------------------------------------
\* Completing the upload.

Uploaded == upload = "uploaded"
Available == storage = "available"

\* One idle operator is as good as another.
Begin(o, operation) ==
    /\ op[o] = NoOperation
    /\ o = CHOOSE k \in Operators : op[k] = NoOperation
    /\ op' = [op EXCEPT ![o] = operation]
End(o) == op' = [op EXCEPT ![o] = NoOperation]

Completion(kind) == [kind |-> kind, step |-> "store", found |-> "none",
                     upload |-> TRUE, keys |-> FALSE]

completeUpload(o) ==
    /\ Available
    /\ upload \in {"uploading", "completing"}
    /\ Begin(o, Completion("complete"))
    /\ upload' = "completing"
    /\ UNCHANGED <<storage, mode, keys, processing, metadata, storeVars, probeVars, disturbances>>

\* The reconciliation reads the row without a lock.
reconcileCompletion(o) ==
    /\ upload = "completing" /\ storage # "removed"
    /\ Begin(o, Completion("reconcile"))
    /\ UNCHANGED <<rowVars, storeVars, probeVars, disturbances>>

AtStore(o, kinds) == op[o].kind \in kinds /\ op[o].step = "store"

\* The parts become an object; an upload completed before is not completed again,
\* its object is looked up. Either call may fail, after the first has taken effect.
ensureMultipartObject(o) ==
    /\ AtStore(o, {"complete", "reconcile"})
    /\ IF multipart = "open"
         THEN multipart' = "completed" /\ original' \in Sizes
         ELSE UNCHANGED <<multipart, original>>
    /\ \/ /\ original' # "none"
          /\ op' = [op EXCEPT ![o].step = "commit", ![o].found = original']
          /\ Steady
       \/ original' = "none" /\ End(o) /\ Steady
       \/ End(o) /\ Fault
    /\ UNCHANGED <<rowVars, probeVars>>

completionFails(o) ==
    /\ AtStore(o, {"complete", "reconcile"})
    /\ Fault
    /\ End(o)
    /\ UNCHANGED <<rowVars, storeVars, probeVars>>

\* Mutant: the object is taken for complete whatever its size.
AnySize(o) == TRUE

SizeMatches(o) == op[o].found = "whole"

\* Mutant: the completion does not look at the status again.
StillCompletingAnyway == storage # "removed"

StillCompleting == upload = "completing" /\ storage # "removed"

\* The probe is queued with its event. Of a wrong size the request itself takes
\* note whatever has become of the upload, the reconciliation does not.
commitCompletion(o) ==
    /\ op[o].kind \in {"complete", "reconcile"}
    /\ op[o].step = "commit"
    /\ End(o)
    /\ \/ /\ SizeMatches(o) /\ StillCompleting
          /\ upload' = "uploaded" /\ processing' = "queued" /\ probeEvent' = TRUE
       \/ /\ ~SizeMatches(o)
          /\ \/ StillCompleting
             \/ op[o].kind = "complete" /\ storage # "removed"
          /\ upload' = "uploaded" /\ processing' = "rejected"
          /\ UNCHANGED probeEvent
       \/ /\ ~StillCompleting
          /\ op[o].kind = "complete" /\ ~SizeMatches(o) => storage = "removed"
          /\ UNCHANGED <<upload, processing, probeEvent>>
    /\ UNCHANGED <<storage, mode, keys, metadata, storeVars, probeQueue, probe, disturbances>>

----------------------------------------------------------------------------
\* Deletion. A request marks the row and goes on as the reconciliation does for
\* the marks it finds: it reads the row, removes the objects, and commits.

ProcessPending(o, ks) ==
    Begin(o, [kind |-> "delete", step |-> "store", found |-> "none", keys |-> ks,
              upload |-> upload \in {"uploading", "completing"}])

Mark(m, ks) == storage' = "delete_pending" /\ mode' = m /\ keys' = ks

abortUpload(o) ==
    /\ Available
    /\ upload = "uploading"
    /\ Mark("objects", TRUE)
    /\ ProcessPending(o, TRUE)
    /\ UNCHANGED <<upload, processing, metadata, storeVars, probeVars, disturbances>>

\* A pending deletion of the same kind is taken up, any other refused. What an
\* expired retention asks for, the administrator may force.
deleteObjects(o) ==
    /\ storage = "available"
    /\ Uploaded
    /\ processing \notin ActiveProcessing
    /\ Mark("objects", TRUE)
    /\ ProcessPending(o, TRUE)
    /\ UNCHANGED <<upload, processing, metadata, storeVars, probeVars, disturbances>>

\* Mutant: an upload that is being completed does not stand in the way.
NotInProcessing == processing \notin ActiveProcessing

Deletable == processing \notin ActiveProcessing /\ upload # "completing"

\* Unless it has entered a cycle or a package, which is a refusal at any time.
deleteSubmission(o) ==
    LET ks == Uploaded /\ storage # "deleted" IN
    /\ storage \in {"available", "deleted"}
    /\ Deletable
    /\ Mark("submission", ks)
    /\ ProcessPending(o, ks)
    /\ UNCHANGED <<upload, processing, metadata, storeVars, probeVars, disturbances>>

reconcileDeletion(o) ==
    /\ storage = "delete_pending"
    /\ ProcessPending(o, keys)
    /\ UNCHANGED <<rowVars, storeVars, probeVars, disturbances>>

\* An upload that cannot be aborted any more has become the object.
deleteFiles(o) ==
    LET cancels == op[o].upload
        late    == cancels /\ multipart # "open"
    IN
    /\ AtStore(o, {"delete"})
    /\ multipart' = IF cancels /\ multipart = "open" THEN "aborted" ELSE multipart
    /\ original' = IF late \/ op[o].keys THEN "none" ELSE original
    /\ op' = [op EXCEPT ![o].step = "commit"]
    /\ UNCHANGED <<rowVars, probeVars, disturbances>>

\* Some of the calls fail; those before them have taken effect.
deletionFails(o) ==
    /\ AtStore(o, {"delete"})
    /\ Fault
    /\ \/ UNCHANGED storeVars
       \/ /\ multipart' = IF op[o].upload /\ multipart = "open" THEN "aborted" ELSE multipart
          /\ \/ UNCHANGED original
             \/ op[o].keys /\ original' = "none"
    /\ End(o)
    /\ UNCHANGED <<rowVars, probeVars>>

\* Another operator may have been faster. With the row goes everything that refers
\* to it; a row whose objects are gone has no open work left.
Pending == storage = "delete_pending"

commitDeletion(o) ==
    /\ op[o].kind = "delete" /\ op[o].step = "commit"
    /\ End(o)
    /\ \/ /\ Pending
          /\ upload' = "aborted" /\ mode' = "none" /\ keys' = FALSE
          /\ probeEvent' = FALSE
          /\ \/ /\ mode = "objects"
                /\ storage' = "deleted"
                /\ UNCHANGED <<processing, metadata>>
             \/ /\ mode = "submission"
                /\ storage' = "removed" /\ processing' = "uploading" /\ metadata' = FALSE
       \/ ~Pending /\ UNCHANGED <<rowVars, probeEvent>>
    /\ UNCHANGED <<storeVars, probeQueue, probe, disturbances>>

operatorDies(o) ==
    /\ op[o] # NoOperation
    /\ Fault
    /\ End(o)
    /\ UNCHANGED <<rowVars, storeVars, probeVars>>

----------------------------------------------------------------------------
\* MediaAnalysisService and its messages.

\* Published inside the transaction that marks the event: should that fail
\* afterwards, the event is published again.
publishProbe ==
    /\ probeEvent
    /\ probeQueue' = probeQueue (+) SetToBag({0})
    /\ \/ probeEvent' = FALSE /\ Steady
       \/ Fault /\ UNCHANGED probeEvent
    /\ UNCHANGED <<rowVars, storeVars, op, probe>>

LockFree == \A h \in Probes : probe[h] # NoProbe => ~probe[h].locked

\* Mutant: a message that waits counts its retries on.
Uncapped(n) == n + 1

Later(n) == IF n < RetryDelays THEN n + 1 ELSE RetryDelays
Without(n) == probeQueue (-) SetToBag({n})
With(n)    == probeQueue (+) SetToBag({n})

Claimable == /\ storage # "removed" /\ Uploaded
             /\ processing \in {"queued", "probing", "failed"}

\* Whether its source is still available the claim does not ask.
claimSubmission(h, n) ==
    /\ probe[h] = NoProbe
    /\ h = CHOOSE k \in Probes : probe[k] = NoProbe
    /\ LockFree /\ Claimable
    /\ probeQueue' = Without(n)
    /\ processing' = "probing"
    /\ probe' = [probe EXCEPT ![h] = [retry |-> n, step |-> "analyzing",
                                      connected |-> TRUE, locked |-> TRUE]]
    /\ UNCHANGED <<upload, storage, mode, keys, metadata, storeVars, op, probeEvent, disturbances>>

\* A task that is over, or was never ready, is acknowledged.
skipProbe(n) ==
    /\ LockFree /\ ~Claimable
    /\ probeQueue' = Without(n)
    /\ UNCHANGED <<rowVars, storeVars, op, probeEvent, probe, disturbances>>

\* Mutant: a busy lock is taken for a sign that the message is not needed.
letGo(n) ==
    /\ \/ ~LockFree /\ Steady
       \/ Fault
    /\ probeQueue' = Without(n)
    /\ UNCHANGED <<rowVars, storeVars, op, probeEvent, probe>>

\* A busy lock is waited for as long as it takes, and so is a failing database.
waitForLock(n) ==
    /\ \/ ~LockFree /\ Steady
       \/ Fault
    /\ probeQueue' = Without(n) (+) SetToBag({Later(n)})
    /\ UNCHANGED <<rowVars, storeVars, op, probeEvent, probe>>

Analyzing(h)  == probe[h].step = "analyzing"
Analyzed(h)   == probe[h].step = "analyzed"

\* The video has the checksum declared and can be read; whatever previews can be
\* made of it are.
analyze(h) ==
    /\ Analyzing(h)
    /\ original = "whole"
    /\ probe' = [probe EXCEPT ![h].step = "analyzed"]
    /\ UNCHANGED <<rowVars, storeVars, op, probeEvent, probeQueue, disturbances>>

StillProbing == storage # "removed" /\ processing = "probing"

\* The evaluation is queued in the same transaction.
commitProbe(h) ==
    /\ Analyzed(h)
    /\ probe' = [probe EXCEPT ![h] = NoProbe]
    /\ IF StillProbing
         THEN /\ processing' = "awaiting_ai"
              /\ metadata' = TRUE
         ELSE UNCHANGED <<processing, metadata>>
    /\ UNCHANGED <<upload, storage, mode, keys, storeVars, op, probeEvent, probeQueue, disturbances>>

\* A wrong checksum or an unreadable file is final; anything else, the missing
\* source included, is tried again while there are retries.
failProbe(h) ==
    /\ probe[h] # NoProbe
    /\ probe' = [probe EXCEPT ![h] = NoProbe]
    /\ \/ /\ Analyzing(h) /\ original # "none"
          /\ Steady
          /\ processing' = IF StillProbing THEN "rejected" ELSE processing
          /\ UNCHANGED probeQueue
       \/ /\ IF Analyzing(h) /\ original = "none" THEN Steady ELSE Fault
          /\ processing' = IF StillProbing THEN "failed" ELSE processing
          /\ probeQueue' = IF probe[h].connected /\ probe[h].retry < RetryDelays
                             THEN With(probe[h].retry + 1) ELSE probeQueue
    /\ UNCHANGED <<upload, storage, mode, keys, metadata, storeVars, op, probeEvent>>

\* The database fails when the result is to be written, and when the failure is.
probeUnrecorded(h) ==
    /\ probe[h] # NoProbe
    /\ Fault
    /\ probe' = [probe EXCEPT ![h] = NoProbe]
    /\ probeQueue' = IF probe[h].connected THEN With(Later(probe[h].retry)) ELSE probeQueue
    /\ UNCHANGED <<rowVars, storeVars, op, probeEvent>>

\* A worker dies with its message, or loses its channel and works on.
probeDies(h) ==
    /\ probe[h] # NoProbe
    /\ Fault
    /\ probe' = [probe EXCEPT ![h] = NoProbe]
    /\ probeQueue' = IF probe[h].connected THEN With(probe[h].retry) ELSE probeQueue
    /\ UNCHANGED <<rowVars, storeVars, op, probeEvent>>

probeLosesChannel(h) ==
    /\ probe[h] # NoProbe
    /\ probe[h].connected
    /\ Fault
    /\ probe' = [probe EXCEPT ![h].connected = FALSE]
    /\ probeQueue' = With(probe[h].retry)
    /\ UNCHANGED <<rowVars, storeVars, op, probeEvent>>

\* The lock goes with its session, the analysis does not notice.
probeLosesSession(h) ==
    /\ probe[h] # NoProbe
    /\ probe[h].locked
    /\ Fault
    /\ probe' = [probe EXCEPT ![h].locked = FALSE]
    /\ UNCHANGED <<rowVars, storeVars, op, probeEvent, probeQueue>>

\* The reclaimer: of a task whose worker is silent, or has been at it for too long.
reclaimProbe ==
    /\ storage # "removed" /\ processing = "probing"
    /\ IF \A h \in Probes : probe[h] = NoProbe THEN Steady ELSE Fault
    /\ processing' = "queued"
    /\ probeEvent' = TRUE
    /\ UNCHANGED <<upload, storage, mode, keys, metadata, storeVars, op, probeQueue, probe>>

\* The AI evaluation and its rerun, as AiQuality has them; the rerun does not ask
\* for the source either.
judge ==
    /\ storage # "removed" /\ processing = "awaiting_ai"
    /\ processing' = "judged"
    /\ UNCHANGED <<upload, storage, mode, keys, metadata, storeVars, op, probeVars, disturbances>>

rerunAiQuality ==
    /\ storage # "removed" /\ processing = "judged"
    /\ Fault
    /\ processing' = "awaiting_ai"
    /\ UNCHANGED <<upload, storage, mode, keys, metadata, storeVars, op, probeVars>>
=============================================================================
