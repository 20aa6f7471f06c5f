--------------------------- MODULE AnnotationRuns ---------------------------
(***************************************************************************)
(* The life of a submission: its video (Submissions) and its annotation    *)
(* runs.  A finished media analysis queues the first run and an            *)
(* administrator the others; attempts under a session lock call the model  *)
(* within a budget of full calls; people review or audit what comes out;   *)
(* the reclaimer starts again what a silent worker had; and a deletion of  *)
(* the video cancels whatever is open.                                     *)
(***************************************************************************)
EXTENDS Submissions

CONSTANTS
    Runs,         \* annotation runs of the submission
    Initial,      \* the one its media analysis may create
    Workers,      \* handlers of annotation messages that may be at work together
    SlowAborts,   \* a retry may find the attempt it retries not yet aborted
    FullBudget,   \* full calls of the model for a run, 2 in the code
    MaxAttempts   \* MAX_AUTO_RETRY_ATTEMPTS

ASSUME RunAssumption ==
    /\ Initial \in Runs
    /\ SlowAborts \in BOOLEAN
    /\ FullBudget \in Nat
    /\ MaxAttempts \in Nat

VARIABLES
    run,        \* annotation_runs
    runEvents,  \* runs whose job_outbox event ai.annotation.v1 is pending
    runQueue,   \* annotation messages at the broker
    attempt     \* what each worker is at

annotationVars == <<run, runEvents, runQueue, attempt>>
vars == <<submissionVars, annotationVars>>

----------------------------------------------------------------------------
\* result: review_status, publication_status and audit_status, which are written
\* together, by what can still be done: "pending" is a candidate that waits for its
\* review, "audit" a run published automatically that waits for one, "formal" any
\* other published run, "withdrawn" one rejected, discarded or superseded, or of
\* which nobody could tell.
Executions == {"none", "queued", "running", "retry_scheduled", "stuck",
               "succeeded", "system_failed", "cancelled"}
Results == {"none", "pending", "audit", "formal", "withdrawn"}

\* attempts is attempt_count up to where it makes no difference any more.
Run == [execution : Executions, result : Results, attempts : 0..MaxAttempts, full : Nat]
NewRun == [execution |-> "none", result |-> "none", attempts |-> 0, full |-> 0]

Startable == {"queued", "retry_scheduled", "stuck"}
Active    == {"queued", "running", "retry_scheduled"}
Open      == Startable \cup {"running"}
Published == {"formal", "audit"}

RunMessages == [run : Runs, retry : 0..RetryDelays]

\* message: held by the worker; back at the broker, which took it from a worker
\* that lost its channel; or handed back by the timeout.
Attempt == [run     : Runs,
            retry   : 0..RetryDelays,
            phase   : {"calling", "completing", "failing"},
            cause   : {"none", "retryable", "invalid", "terminal"},
            message : {"held", "lost", "resent"},
            locked  : BOOLEAN]
NoAttempt == [phase |-> "idle"]

RunInit ==
    /\ run = [r \in Runs |-> NewRun]
    /\ runEvents = {}
    /\ runQueue = EmptyBag
    /\ attempt = [w \in Workers |-> NoAttempt]

Init == SubmissionInit /\ RunInit

NoRunChanges == UNCHANGED annotationVars
OnlyRunsChange == UNCHANGED <<rowVars, storeVars, op, probeVars>>

Queued(r) == [run EXCEPT ![r].execution = "queued"]
OtherActive(r) == \E q \in Runs \ {r} : run[q].execution \in Active
SourceReady == Uploaded /\ Available /\ metadata

----------------------------------------------------------------------------
\* What Submissions does to the runs, each in the transaction it is part of.

\* Settings and sampling decide whether there is a first run at all.
commitProbeAndEnqueue(h) ==
    /\ commitProbe(h)
    /\ \/ /\ StillProbing /\ Uploaded /\ Available
          /\ run[Initial].execution = "none"
          /\ run' = Queued(Initial)
          /\ runEvents' = runEvents \cup {Initial}
       \/ UNCHANGED <<run, runEvents>>
    /\ UNCHANGED <<runQueue, attempt>>

cancelAnnotationRuns ==
    /\ run' = [r \in Runs |-> IF run[r].execution \in Open
                                THEN [run[r] EXCEPT !.execution = "cancelled"] ELSE run[r]]
    /\ runEvents' = {}

commitDeletionAndCancel(o) ==
    /\ commitDeletion(o)
    /\ \/ Pending /\ mode = "objects" /\ cancelAnnotationRuns
       \/ Pending /\ mode = "submission" /\ run' = [r \in Runs |-> NewRun] /\ runEvents' = {}
       \/ ~Pending /\ UNCHANGED <<run, runEvents>>
    /\ UNCHANGED <<runQueue, attempt>>

----------------------------------------------------------------------------
\* Messages.

Message(r, n) == [run |-> r, retry |-> n]
Gone(m)       == runQueue (-) SetToBag({m})
Resent(m)     == IF m.retry < RetryDelays
                   THEN Gone(m) (+) SetToBag({Message(m.run, m.retry + 1)}) ELSE Gone(m)

publishRun(r) ==
    /\ r \in runEvents
    /\ runQueue' = runQueue (+) SetToBag({Message(r, 0)})
    /\ \/ runEvents' = runEvents \ {r} /\ Steady
       \/ Fault /\ UNCHANGED runEvents
    /\ OnlyRunsChange /\ UNCHANGED <<run, attempt>>

Working(r)  == {w \in Workers : attempt[w] # NoAttempt /\ attempt[w].run = r}

\* The delay before a retry is time enough for the attempt it retries to abort.
Delivered(m) ==
    /\ BagIn(m, runQueue)
    /\ SlowAborts \/ \A w \in Working(m.run) : attempt[w].message # "resent"

LockHeld(r) == \E w \in Working(r) : attempt[w].locked

\* Mutant: the number of full answers is not looked at before another attempt.
NeverExhausted(r) == FALSE

Exhausted(r) == run[r].full >= FullBudget /\ run[r].execution \in Startable

\* A busy lock is taken for a sign that the message is not needed.
dropBusy(m) ==
    /\ Delivered(m)
    /\ LockHeld(m.run)
    /\ runQueue' = Gone(m)
    /\ OnlyRunsChange /\ Steady /\ UNCHANGED <<run, runEvents, attempt>>

\* A run that is over, or that another attempt is thought to be at.
skipRun(m) ==
    /\ Delivered(m)
    /\ ~LockHeld(m.run)
    /\ run[m.run].execution \notin Startable
    /\ runQueue' = Gone(m)
    /\ OnlyRunsChange /\ Steady /\ UNCHANGED <<run, runEvents, attempt>>

markFullBudgetExhausted(m) ==
    /\ Delivered(m)
    /\ ~LockHeld(m.run)
    /\ Exhausted(m.run)
    /\ run' = [run EXCEPT ![m.run].execution = "system_failed"]
    /\ runQueue' = Gone(m)
    /\ OnlyRunsChange /\ Steady /\ UNCHANGED <<runEvents, attempt>>

\* Without its source a run cannot begin. The message goes to the dead letters,
\* and fail, which expects a running run, leaves the run as it is.
rejectRun(m) ==
    /\ Delivered(m)
    /\ ~LockHeld(m.run)
    /\ run[m.run].execution \in Startable
    /\ ~Exhausted(m.run)
    /\ ~SourceReady
    /\ runQueue' = Gone(m)
    /\ OnlyRunsChange /\ Steady /\ UNCHANGED <<run, runEvents, attempt>>

\* The database fails before the run has begun. A transaction that fails is retryable,
\* unless its failure cannot be recorded either; so is not a session or a lock that
\* cannot be had: then the message is dead-lettered, whatever its number.
deliveryFails(m) ==
    /\ Delivered(m)
    /\ ~LockHeld(m.run)
    /\ Fault
    /\ runQueue' \in {Resent(m), Gone(m)}
    /\ OnlyRunsChange /\ UNCHANGED <<run, runEvents, attempt>>

----------------------------------------------------------------------------
\* AnnotationRunService.process.

\* One idle worker is as good as another. The lock is of the run: two runs of a
\* submission may be worked on at a time.
begin(w, m) ==
    LET r == m.run IN
    /\ Delivered(m)
    /\ ~LockHeld(r)
    /\ attempt[w] = NoAttempt
    /\ w = CHOOSE k \in Workers : attempt[k] = NoAttempt
    /\ run[r].execution \in Startable
    /\ ~Exhausted(r)
    /\ SourceReady
    /\ run' = [run EXCEPT ![r].execution = "running",
                          ![r].attempts = IF @ < MaxAttempts THEN @ + 1 ELSE @]
    /\ attempt' = [attempt EXCEPT ![w] = [run |-> r, retry |-> m.retry, phase |-> "calling",
                                          cause |-> "none", message |-> "held", locked |-> TRUE]]
    /\ runQueue' = Gone(m)
    /\ OnlyRunsChange /\ Steady /\ UNCHANGED runEvents

At(w, phase) == attempt[w].phase = phase
Aborted(w)   == attempt[w].message = "resent"
Fails(w, cause) == attempt' = [attempt EXCEPT ![w].phase = "failing", ![w].cause = cause]

\* The video is read and the model called: an answer counts for the budget, be it
\* of use or not. An HTTP status may be final, other failures are not.
callModel(w) ==
    LET r == attempt[w].run
        counted == run' = [run EXCEPT ![r].full = @ + 1]
    IN
    /\ At(w, "calling") /\ ~Aborted(w)
    /\ \/ /\ original = "whole" /\ Steady
          /\ counted
          /\ \/ attempt' = [attempt EXCEPT ![w].phase = "completing"]
             \/ Fails(w, "invalid")
       \/ original = "none" /\ Steady /\ Fails(w, "retryable") /\ UNCHANGED run
       \/ /\ original = "whole" /\ Fault
          /\ counted \/ UNCHANGED run
          /\ \E cause \in {"retryable", "terminal"} : Fails(w, cause)
    /\ OnlyRunsChange /\ UNCHANGED <<runEvents, runQueue>>

\* An aborted attempt breaks off where it reads or calls.
abort(w) ==
    /\ At(w, "calling") /\ Aborted(w)
    /\ Fails(w, "retryable")
    /\ OnlyRunsChange /\ Steady /\ UNCHANGED <<run, runEvents, runQueue>>

Release(w) == attempt' = [attempt EXCEPT ![w] = NoAttempt]

\* A formal result takes the place of the one before.
Superseding(r, result) ==
    [q \in Runs |-> IF q = r THEN [run[r] EXCEPT !.execution = "succeeded", !.result = result]
                    ELSE IF run[q].result \in Published
                      THEN [run[q] EXCEPT !.result = "withdrawn"] ELSE run[q]]

OtherPending(r) == \E q \in Runs \ {r} : run[q].result = "pending"

\* Whatever has become of the attempt, its answer is used unless the run is over.
\* What the gate does not pass awaits a review, of which the database admits one.
complete(w) ==
    LET r == attempt[w].run IN
    /\ At(w, "completing")
    /\ \/ /\ run[r].execution \in Open
          /\ \/ \E result \in Published : run' = Superseding(r, result)
             \/ /\ ~OtherPending(r)
                /\ run' = [run EXCEPT ![r].execution = "succeeded", ![r].result = "pending"]
          /\ Release(w) /\ Steady
       \/ run[r].execution \notin Open /\ Release(w) /\ Steady /\ UNCHANGED run
       \/ /\ run[r].execution \in Open
          /\ \/ OtherPending(r) /\ Steady
             \/ Fault
          /\ Fails(w, "retryable") /\ UNCHANGED run
    /\ OnlyRunsChange /\ UNCHANGED <<runEvents, runQueue>>

\* The message is tried again unless the failure is final or the retries are used
\* up; a worker that lost its channel has none to hand on.
HandOn(w, again) ==
    LET a == attempt[w] IN
    runQueue' = IF a.message = "held" /\ again /\ a.retry < RetryDelays
                  THEN runQueue (+) SetToBag({Message(a.run, a.retry + 1)}) ELSE runQueue

fail(w) ==
    LET a == attempt[w]  r == a.run
        final == \/ a.cause = "terminal"
                 \/ a.cause = "invalid" /\ run[r].full >= FullBudget
                 \/ a.retry = RetryDelays
    IN
    /\ At(w, "failing")
    /\ IF run[r].execution = "running"
         THEN run' = [run EXCEPT ![r].execution =
                        IF final THEN "system_failed" ELSE "retry_scheduled"]
         ELSE UNCHANGED run
    /\ HandOn(w, a.cause # "terminal")
    /\ Release(w)
    /\ OnlyRunsChange /\ Steady /\ UNCHANGED runEvents

\* That transaction may fail too: the message goes to the dead letters.
failFails(w) ==
    /\ At(w, "failing")
    /\ Fault
    /\ Release(w)
    /\ OnlyRunsChange /\ UNCHANGED <<run, runEvents, runQueue>>

\* AI_ANNOTATION_TASK_TIMEOUT_MS: the message is handed on, the attempt aborted.
timesOut(w) ==
    /\ attempt[w] # NoAttempt
    /\ attempt[w].message # "resent"
    /\ Fault
    /\ HandOn(w, TRUE)
    /\ attempt' = [attempt EXCEPT ![w].message = "resent"]
    /\ OnlyRunsChange /\ UNCHANGED <<run, runEvents>>

\* The broker takes back what a worker held that died or lost its channel.
TakenBack(w) ==
    runQueue' = IF attempt[w].message = "held"
                  THEN runQueue (+) SetToBag({Message(attempt[w].run, attempt[w].retry)})
                  ELSE runQueue

dies(w) ==
    /\ attempt[w] # NoAttempt
    /\ Fault
    /\ TakenBack(w)
    /\ Release(w)
    /\ OnlyRunsChange /\ UNCHANGED <<run, runEvents>>

losesChannel(w) ==
    /\ attempt[w] # NoAttempt
    /\ attempt[w].message = "held"
    /\ Fault
    /\ TakenBack(w)
    /\ attempt' = [attempt EXCEPT ![w].message = "lost"]
    /\ OnlyRunsChange /\ UNCHANGED <<run, runEvents>>

losesSession(w) ==
    /\ attempt[w] # NoAttempt
    /\ attempt[w].locked
    /\ Fault
    /\ attempt' = [attempt EXCEPT ![w].locked = FALSE]
    /\ OnlyRunsChange /\ UNCHANGED <<run, runEvents, runQueue>>

----------------------------------------------------------------------------
\* The reclaimer and the administrators.

\* Mutant: a run is queued without an event.
NoEvent(r) == UNCHANGED runEvents

Enqueue(r) == runEvents' = runEvents \cup {r}

\* Of a run whose worker is silent, or has been at it for too long.
reclaim(r) ==
    /\ run[r].execution \in {"running", "stuck"}
    /\ IF Working(r) = {} THEN Steady ELSE Fault
    /\ IF run[r].attempts >= MaxAttempts \/ OtherActive(r)
         THEN run' = [run EXCEPT ![r].execution = "stuck"] /\ UNCHANGED runEvents
         ELSE run' = Queued(r) /\ Enqueue(r)
    /\ OnlyRunsChange /\ UNCHANGED <<runQueue, attempt>>

\* A run that is stuck or has failed does not stand in the way of another.
createNewVersion(r) ==
    /\ r # Initial
    /\ run[r].execution = "none"
    /\ r = CHOOSE q \in Runs \ {Initial} : run[q].execution = "none"
    /\ Uploaded /\ Available
    /\ \A q \in Runs : run[q].execution \notin Active /\ run[q].result # "pending"
    /\ run' = Queued(r)
    /\ Enqueue(r)
    /\ OnlyRunsChange /\ Steady /\ UNCHANGED <<runQueue, attempt>>

retry(r) ==
    /\ run[r].execution \in {"system_failed", "stuck"}
    /\ run[r].full < FullBudget
    /\ Uploaded /\ Available
    /\ ~OtherActive(r)
    /\ run' = Queued(r)
    /\ Enqueue(r)
    /\ OnlyRunsChange /\ Steady /\ UNCHANGED <<runQueue, attempt>>

discard(r) ==
    /\ storage # "removed"
    /\ run[r].result = "pending"
    /\ run' = [run EXCEPT ![r].result = "withdrawn"]
    /\ OnlyRunsChange /\ Steady /\ UNCHANGED <<runEvents, runQueue, attempt>>

\* Mutant: an accepted result leaves the one before it formal.
AlongsideOthers(r, result) == [run EXCEPT ![r].result = result]

Accepting(r, result) == Superseding(r, result)

\* A review decides about a candidate, an audit about a published result.
review(r) ==
    /\ storage # "removed"
    /\ run[r].result \in {"pending", "audit"}
    /\ \/ run' = Accepting(r, "formal")
       \/ run' = [run EXCEPT ![r].result = "withdrawn"]
    /\ OnlyRunsChange /\ Steady /\ UNCHANGED <<runEvents, runQueue, attempt>>

----------------------------------------------------------------------------
Operator(o) ==
    \/ completeUpload(o) \/ reconcileCompletion(o) \/ ensureMultipartObject(o)
    \/ completionFails(o) \/ commitCompletion(o)
    \/ abortUpload(o) \/ deleteObjects(o) \/ deleteSubmission(o) \/ reconcileDeletion(o)
    \/ deleteFiles(o) \/ deletionFails(o) \/ operatorDies(o)

Prober(h) ==
    \/ \E n \in BagToSet(probeQueue) : claimSubmission(h, n)
    \/ analyze(h) \/ failProbe(h) \/ probeUnrecorded(h)
    \/ probeDies(h) \/ probeLosesChannel(h) \/ probeLosesSession(h)

SubmissionStep ==
    \/ \E o \in Operators : Operator(o)
    \/ \E h \in Probes : Prober(h)
    \/ \E n \in BagToSet(probeQueue) : skipProbe(n) \/ waitForLock(n)
    \/ publishProbe \/ reclaimProbe \/ judge \/ rerunAiQuality

Delivery(m) == \/ dropBusy(m) \/ skipRun(m) \/ markFullBudgetExhausted(m)
               \/ rejectRun(m) \/ deliveryFails(m)

Worker(w) ==
    \/ \E m \in BagToSet(runQueue) : begin(w, m)
    \/ callModel(w) \/ abort(w) \/ complete(w) \/ fail(w) \/ failFails(w)
    \/ timesOut(w) \/ dies(w) \/ losesChannel(w) \/ losesSession(w)

RunStep ==
    \/ \E r \in Runs : \/ publishRun(r) \/ reclaim(r)
                       \/ createNewVersion(r) \/ retry(r) \/ discard(r) \/ review(r)
    \/ \E m \in BagToSet(runQueue) : Delivery(m)
    \/ \E w \in Workers : Worker(w)

Next ==
    \/ SubmissionStep /\ NoRunChanges
    \/ \E h \in Probes : commitProbeAndEnqueue(h)
    \/ \E o \in Operators : commitDeletionAndCancel(o)
    \/ RunStep

Spec == Init /\ [][Next]_vars

----------------------------------------------------------------------------
(* Properties *)

\* Every variable keeps the shape of its rows, messages and objects.
TypeOK ==
    /\ upload \in {"uploading", "completing", "uploaded", "aborted"}
    /\ storage \in {"available", "delete_pending", "deleted", "removed"}
    /\ mode \in {"none", "objects", "submission"}
    /\ keys \in BOOLEAN
    /\ processing \in Processing
    /\ metadata \in BOOLEAN
    /\ multipart \in {"open", "completed", "aborted"}
    /\ original \in Sizes \cup {"none"}
    /\ op \in [Operators -> Operation \cup {NoOperation}]
    /\ probeEvent \in BOOLEAN
    /\ IsABag(probeQueue) /\ BagToSet(probeQueue) \subseteq 0..RetryDelays
    /\ probe \in [Probes -> Probe \cup {NoProbe}]
    /\ disturbances \in Nat
    /\ run \in [Runs -> Run]
    /\ runEvents \subseteq Runs
    /\ IsABag(runQueue) /\ BagToSet(runQueue) \subseteq RunMessages
    /\ attempt \in [Workers -> Attempt \cup {NoAttempt}]

\* A submission that says its video is there has it, in full: no completion that
\* comes late, and no deletion given up half way, leaves the row ahead of the store.
WholeObject ==
    Uploaded /\ Available /\ processing # "rejected" => original = "whole"

\* Once a deletion is over neither the video nor an upload that could still become
\* one is left in the store, whoever was completing it meanwhile, and no run waits
\* for it or is opened again.
DeletedIsClean ==
    storage \in {"deleted", "removed"} =>
        /\ original = "none" /\ multipart # "open"
        /\ \A r \in Runs : run[r].execution \notin Open

\* A task that waits for its analysis has an event or a message to start it.
MediaAwaited ==
    storage # "removed" /\ Uploaded /\ processing = "queued"
      => probeEvent \/ BagToSet(probeQueue) # {}

\* The model gives at most so many full answers for a run, over all its attempts
\* and retries; only a lost session and a hasty reclaimer together buy another.
WithinBudget == \A r \in Runs : run[r].full <= FullBudget \/ disturbances > 1

\* There is one formal result, one candidate for review, and nothing of a run that
\* was cancelled.
OneResult ==
    /\ \A r, q \in Runs : run[r].result \in Published /\ run[q].result \in Published => r = q
    /\ \A r, q \in Runs : run[r].result = "pending" /\ run[q].result = "pending" => r = q
    /\ \A r \in Runs : run[r].execution = "cancelled" => run[r].result = "none"

\* What is downstream of a finished analysis stands: the analysis is not done
\* again, and the upload not completed again.
DownstreamStands ==
    [][metadata /\ storage' # "removed" =>
         metadata' /\ processing' \notin {"uploading", "queued", "probing", "failed", "rejected"}]_vars

\* A run comes to wait for nothing only where an attempt is still at it that was
\* overtaken, by a lost channel, its timeout or the reclaimer, where its source has
\* gone, or where the database fails.
Waiting(r) == run[r].execution \in {"queued", "retry_scheduled"}

Awaited(r) ==
    \/ r \in runEvents
    \/ \E m \in BagToSet(runQueue) : m.run = r
    \/ \E w \in Working(r) : attempt[w].message = "held"

Overtaken(w) == attempt[w].message # "held" \/ run[attempt[w].run].execution # "running"

WakeUpKept ==
    [][\A r \in Runs :
         (Waiting(r) => Awaited(r)) /\ (Waiting(r) /\ ~Awaited(r))'
           => \/ \E w \in Working(r) : Overtaken(w)
              \/ ~SourceReady
              \/ disturbances' > disturbances]_vars

----------------------------------------------------------------------------
\* What SubmissionLife sees of this: the row and the store, and of each run whether
\* it is open and what it has come to.
Stage == IF ~Available THEN storage
         ELSE IF ~Uploaded THEN "uploading"
         ELSE IF processing = "rejected" THEN "refused" ELSE "kept"

Video == IF multipart = "open" THEN "awaited"
         ELSE IF original = "none" THEN "gone" ELSE original

Work(row) == IF row.execution \in Active THEN "open"
             ELSE IF row.execution = "stuck" THEN "aside"
             ELSE IF row.execution = "system_failed" THEN "failed"
             ELSE IF row.execution = "succeeded" THEN "done" ELSE row.execution

Life == INSTANCE SubmissionLife
            WITH stage <- Stage, video <- Video, studied <- metadata,
                 work <- [r \in Runs |-> Work(run[r])],
                 outcome <- [r \in Runs |-> run[r].result]

\* Requests, handlers, reclaimers and administrators together do to a submission only
\* what SubmissionLife allows, in whatever order they overlap, die or are repeated: no
\* late completion or analysis takes back what was decided, nothing is opened or comes
\* out after a deletion, and an outcome is replaced in one step.
KeepsLife == Life!Spec
=============================================================================
