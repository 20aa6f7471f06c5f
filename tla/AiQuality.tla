----------------------------- MODULE AiQuality -----------------------------
(***************************************************************************)
(* How an AI quality task travels: the event in the outbox, the message    *)
(* with its retry number, the worker processes that hold messages, the     *)
(* evaluations under the advisory lock, the timeout that leaves an         *)
(* evaluation running while its message is retried, the heartbeats, and    *)
(* the reclaimer that requeues what it takes for stuck.  What a verdict    *)
(* means for money is the module Settlement.                               *)
(***************************************************************************)
EXTENDS Naturals, FiniteSets, Sequences

CONSTANTS
    Submissions,
    Processes,                \* AI quality worker processes
    Slots,                    \* places of a process for a message and its call
    ProcessOf,                \* the process of each slot
    Concurrency,              \* messages a process may hold, the prefetch
    RetryDelays,              \* length of RETRY_DELAYS
    MAX_AUTO_RETRY_ATTEMPTS,
    NoSubmission,
    SlowSessions,             \* a database session may be waited for longer than the timeout
    Prompts, NoPrompt,        \* versions of prompt, rule and label set
    MaxCopies,                \* bound on its queued messages when an event is published
    MaxCrashes                \* bound on the deaths of processes

ASSUME WorkerAssumption ==
    /\ IsFiniteSet(Slots)
    /\ NoSubmission \notin Submissions
    /\ NoPrompt \notin Prompts
    /\ RetryDelays \in Nat
    /\ MAX_AUTO_RETRY_ATTEMPTS \in Nat
    /\ MaxCrashes \in Nat
    /\ SlowSessions \in BOOLEAN

VARIABLES
    processing,    \* submissions.processing_status
    quality,       \* video_quality_results
    outbox,        \* job_outbox, the ai.quality.v1 event of a submission
    queue,         \* queued messages by submission and retry number
    call,          \* what each slot holds
    active,        \* activeSubmissions; its first entry is the heartbeat row
    late,          \* of these, the tasks that have run for longer than the timeout
    alive, crashes,
    candidates     \* stuck candidates of a reclaimer that has read the heartbeats

rowVars  == <<processing, quality, outbox>>
workVars == <<queue, call, active, late, alive, crashes>>
vars     == <<rowVars, workVars, candidates>>

RetryNumbers == 0..RetryDelays

----------------------------------------------------------------------------
\* Rows.

Processing == {"awaiting_ai", "ai_processing", "stuck", "system_failed", "completed"}
ResultStatuses == {"none", "queued", "running", "stuck", "judged", "system_failed"}

\* snapshot: the prompt version the row carries; judgedBy: the version behind
\* the verdict. "none" is a missing row, "judged" any of the persisted verdicts.
Quality == [status : ResultStatuses, attempts : 0..MAX_AUTO_RETRY_ATTEMPTS,
            snapshot : Prompts \cup {NoPrompt}, judgedBy : Prompts \cup {NoPrompt}]

NoQuality == [status |-> "none", attempts |-> 0, snapshot |-> NoPrompt, judgedBy |-> NoPrompt]

\* Mutant: a stuck row counts as final.
TerminalOrStuck(s) == quality[s].status \in {"judged", "system_failed", "stuck"}

Terminal(s) == quality[s].status \in {"judged", "system_failed"}

\* A slot: the handler of a message, and the call it made. The two end
\* separately: a timeout ends the handler and leaves the call. retry: the outcome
\* of the call asks for its message to be sent again.
Call == [handler    : {"idle", "processing", "resent"},
         submission : Submissions \cup {NoSubmission},
         attempt    : RetryNumbers,
         phase      : {"locking", "evaluating", "committing", "returned"},
         snapshot   : Prompts \cup {NoPrompt},
         retry      : BOOLEAN]

Free == [handler |-> "idle", submission |-> NoSubmission, attempt |-> 0,
         phase |-> "returned", snapshot |-> NoPrompt, retry |-> FALSE]

HeldBy(p) == {c \in Slots : ProcessOf[c] = p /\ call[c].handler # "idle"}

\* The session lock of a submission is held from the lock query to the release.
\* Mutant: every session gets the lock.
NeverLocked(s) == FALSE

Locked(s) == \E c \in Slots : /\ call[c].submission = s
                              /\ call[c].phase \in {"evaluating", "committing"}

Init ==
    /\ processing = [s \in Submissions |-> "awaiting_ai"]
    /\ quality = [s \in Submissions |-> NoQuality]
    /\ outbox = [s \in Submissions |-> "pending"]
    /\ queue = [s \in Submissions |-> [n \in RetryNumbers |-> 0]]
    /\ call = [c \in Slots |-> Free]
    /\ active = [p \in Processes |-> <<>>]
    /\ late = [p \in Processes |-> {}]
    /\ alive = [p \in Processes |-> TRUE]
    /\ crashes = 0
    /\ candidates = {}

----------------------------------------------------------------------------
\* The broker and the outbox publisher.

Enqueue(s, n) == queue' = [queue EXCEPT ![s][n] = @ + 1]

\* An event is published inside the transaction that marks it; a rollback
\* afterwards leaves it pending, to be published again.
publish(s) ==
    /\ outbox[s] = "pending"
    /\ \A n \in RetryNumbers : queue[s][n] < MaxCopies
    /\ Enqueue(s, 0)
    /\ \E status \in {"published", "pending"} : outbox' = [outbox EXCEPT ![s] = status]
    /\ UNCHANGED <<processing, quality, call, active, late, alive, crashes, candidates>>

----------------------------------------------------------------------------
\* The handler of a message.

Entries(p) == {active[p][i] : i \in 1..Len(active[p])}
Remove(seq, s) ==
    LET i == CHOOSE i \in 1..Len(seq) : seq[i] = s
    IN  IF \E k \in 1..Len(seq) : seq[k] = s
          THEN SubSeq(seq, 1, i - 1) \o SubSeq(seq, i + 1, Len(seq)) ELSE seq

\* The broker delivers to a process that holds fewer messages than its prefetch.
\* A Map keeps the place of an entry that is set again, with a new start.
take(c, s, n) ==
    LET p == ProcessOf[c] IN
    /\ alive[p]
    /\ call[c] = Free
    /\ Cardinality(HeldBy(p)) < Concurrency
    /\ queue[s][n] > 0
    /\ queue' = [queue EXCEPT ![s][n] = @ - 1]
    /\ call' = [call EXCEPT ![c] = [Free EXCEPT !.handler = "processing", !.submission = s,
                                                !.attempt = n, !.phase = "locking"]]
    /\ active' = [active EXCEPT ![p] = IF s \in Entries(p) THEN @ ELSE Append(@, s)]
    /\ late' = [late EXCEPT ![p] = @ \ {s}]
    /\ UNCHANGED <<rowVars, alive, crashes, candidates>>

\* sendToQueue under the next retry number; the last delay repeats for ever.
NextAttempt(n) == IF n < RetryDelays THEN n + 1 ELSE RetryDelays

SendAgain(c) ==
    /\ Enqueue(call[c].submission, NextAttempt(call[c].attempt))
    /\ call' = [call EXCEPT ![c].handler = "resent"]
    /\ UNCHANGED <<rowVars, active, late, alive, crashes, candidates>>

resend(c) ==
    /\ call[c].handler = "processing"
    /\ call[c].phase = "returned"
    /\ call[c].retry
    /\ SendAgain(c)

\* Mutant: the message of an aborted call is acknowledged, and nothing sent.
timesOutForGood(c) ==
    /\ call[c].handler = "processing"
    /\ call[c].phase = "locking" => SlowSessions
    /\ call' = [call EXCEPT ![c].handler = "resent"]
    /\ UNCHANGED <<rowVars, queue, active, late, alive, crashes, candidates>>

\* The timeout wins the race whatever the call does, and aborts its signal.
timesOut(c) ==
    /\ call[c].handler = "processing"
    /\ call[c].phase = "locking" => SlowSessions
    /\ SendAgain(c)

Aborted(c) == call[c].handler # "processing"

\* markTaskFinished and the acknowledgement.
finish(c) ==
    LET p == ProcessOf[c]  s == call[c].submission IN
    /\ \/ call[c].handler = "resent"
       \/ /\ call[c].handler = "processing"
          /\ call[c].phase = "returned"
          /\ ~call[c].retry
    /\ call' = [call EXCEPT ![c] = IF @.phase = "returned" THEN Free
                                   ELSE [@ EXCEPT !.handler = "idle"]]
    /\ active' = [active EXCEPT ![p] = Remove(@, s)]
    /\ late' = [late EXCEPT ![p] = @ \ {s}]
    /\ UNCHANGED <<rowVars, queue, alive, crashes, candidates>>

\* A task has run for longer than the timeout, and its worker has not noticed.
runsLate(p, s) ==
    /\ alive[p]
    /\ s \in Entries(p) \ late[p]
    /\ late' = [late EXCEPT ![p] = @ \cup {s}]
    /\ UNCHANGED <<rowVars, queue, call, active, alive, crashes, candidates>>

\* Unacknowledged messages are delivered again, with the number they had; the
\* session locks go; the heartbeat row stays as it was last written.
Unacknowledged(p, s, n) ==
    Cardinality({c \in HeldBy(p) : call[c].submission = s /\ call[c].attempt = n})

processDies(p) ==
    /\ alive[p]
    /\ crashes < MaxCrashes
    /\ crashes' = crashes + 1
    /\ alive' = [alive EXCEPT ![p] = FALSE]
    /\ queue' = [s \in Submissions |-> [n \in RetryNumbers |->
                    queue[s][n] + Unacknowledged(p, s, n)]]
    /\ call' = [c \in Slots |-> IF ProcessOf[c] = p THEN Free ELSE call[c]]
    /\ UNCHANGED <<rowVars, active, late, candidates>>

\* A process that starts under its former name writes its heartbeat row anew.
processStarts(p) ==
    /\ ~alive[p]
    /\ alive' = [alive EXCEPT ![p] = TRUE]
    /\ active' = [active EXCEPT ![p] = <<>>]
    /\ late' = [late EXCEPT ![p] = {}]
    /\ UNCHANGED <<rowVars, queue, call, crashes, candidates>>

----------------------------------------------------------------------------
\* AiQualityAnalysisService.process.

\* A call ends: a handler that still waits learns whether to send its message again.
Return(c, retry) ==
    call' = [call EXCEPT ![c] =
        IF @.handler = "idle" THEN Free
        ELSE [@ EXCEPT !.phase = "returned", !.snapshot = NoPrompt,
                       !.retry = retry /\ call[c].handler = "processing"]]

lockBusy(c) ==
    /\ call[c].phase = "locking"
    /\ Locked(call[c].submission)
    /\ Return(c, TRUE)
    /\ UNCHANGED <<rowVars, queue, active, late, alive, crashes, candidates>>

skip(c) ==
    /\ call[c].phase = "locking"
    /\ ~Locked(call[c].submission)
    /\ Terminal(call[c].submission)
    /\ Return(c, FALSE)
    /\ UNCHANGED <<rowVars, queue, active, late, alive, crashes, candidates>>

\* The row is made by the first attempt, with a snapshot of what is active then,
\* and keeps it until a rerun.
\* attempts is counted up to the cap, beyond which nothing tells values apart.
MoreAttempts(k) == IF k < MAX_AUTO_RETRY_ATTEMPTS THEN k + 1 ELSE k

begin(c) ==
    LET s == call[c].submission IN
    /\ call[c].phase = "locking"
    /\ ~Locked(s)
    /\ ~Terminal(s)
    /\ \E snapshot \in IF quality[s].status = "none" THEN Prompts ELSE {quality[s].snapshot} :
         /\ quality' = [quality EXCEPT ![s].status = "running", ![s].snapshot = snapshot,
                                       ![s].attempts = MoreAttempts(@)]
         /\ call' = [call EXCEPT ![c].phase = "evaluating", ![c].snapshot = snapshot]
    /\ processing' = [processing EXCEPT ![s] = "ai_processing"]
    /\ UNCHANGED <<outbox, queue, active, late, alive, crashes, candidates>>

\* Both failure paths are UPDATEs: without a row, only the submission changes.
Mark(s, resultStatus, processingStatus) ==
    /\ quality' = [quality EXCEPT ![s].status = IF @ = "none" THEN @ ELSE resultStatus]
    /\ processing' = [processing EXCEPT ![s] = processingStatus]

markTerminalFailure(s) == Mark(s, "system_failed", "system_failed")
\* Mutant: the statuses of the two rows are swapped.
markRetryPendingSwapped(s) == Mark(s, "awaiting_ai", "queued")

markRetryPending(s) == Mark(s, "queued", "awaiting_ai")

\* A failure is final by its kind, or on the last retry of a call not aborted:
\* terminalOnRetryableFailure && !signal.aborted.
Failures == {"terminal", "retryable"}
Final(c, failure) ==
    failure = "terminal" \/ (call[c].attempt >= RetryDelays /\ ~Aborted(c))

\* begin fails under the lock and is rolled back. Without a final failure the
\* rows stay as they are.
beginFails(c, failure) ==
    /\ call[c].phase = "locking"
    /\ ~Locked(call[c].submission)
    /\ ~Terminal(call[c].submission)
    /\ IF Final(c, failure)
         THEN markTerminalFailure(call[c].submission)
         ELSE UNCHANGED <<processing, quality>>
    /\ Return(c, ~Final(c, failure))
    /\ UNCHANGED <<outbox, queue, active, late, alive, crashes, candidates>>

\* Nothing of the evaluation is looked at after it: an abort comes too late.
judge(c) ==
    /\ call[c].phase = "evaluating"
    /\ ~Aborted(c)
    /\ call' = [call EXCEPT ![c].phase = "committing"]
    /\ UNCHANGED <<rowVars, queue, active, late, alive, crashes, candidates>>

\* An aborted evaluation is rejected with the timeout, which is retryable; a
\* verdict that cannot be persisted is a final failure, aborted or not.
evaluationFails(c, failure) ==
    /\ call[c].phase \in {"evaluating", "committing"}
    /\ call[c].phase = "evaluating" /\ Aborted(c) => failure = "retryable"
    /\ IF Final(c, failure)
         THEN markTerminalFailure(call[c].submission)
         ELSE markRetryPending(call[c].submission)
    /\ Return(c, ~Final(c, failure))
    /\ UNCHANGED <<outbox, queue, active, late, alive, crashes, candidates>>

complete(c) ==
    LET s == call[c].submission IN
    /\ call[c].phase = "committing"
    /\ quality' = [quality EXCEPT ![s].status = "judged", ![s].judgedBy = call[c].snapshot]
    /\ processing' = [processing EXCEPT ![s] = "completed"]
    /\ Return(c, FALSE)
    /\ UNCHANGED <<outbox, queue, active, late, alive, crashes, candidates>>

\* The lock query fails, or the transaction that marks a failure: no row changes.
infrastructureFails(c) ==
    /\ call[c].phase # "returned"
    /\ Return(c, TRUE)
    /\ UNCHANGED <<rowVars, queue, active, late, alive, crashes, candidates>>

----------------------------------------------------------------------------
\* The reclaimer and the administrators.

Current(p) == IF active[p] = <<>> THEN NoSubmission ELSE Head(active[p])

\* The heartbeats are read before the transaction. A dead worker's row counts
\* as running until it is stale, for ever afterwards as stuck.
scan ==
    \E stale \in SUBSET {p \in Processes : ~alive[p]} :
      LET TooLong(p) == Current(p) \in late[p]
          Tasks(P)   == {Current(p) : p \in P} \ {NoSubmission}
          suspects   == {p \in Processes : TooLong(p) \/ p \in stale}
      IN  candidates' = Tasks(suspects) \ Tasks(Processes \ suspects)
    /\ UNCHANGED <<rowVars, workVars>>

\* Mutant: the candidates' statuses are not read again under the lock.
RequeuedAnyway(s) == s \in candidates

\* A candidate that was stuck already is requeued without a look at its attempts.
Requeued(s) ==
    /\ s \in candidates
    /\ \/ processing[s] = "stuck"
       \/ /\ processing[s] = "ai_processing"
          /\ quality[s].attempts < MAX_AUTO_RETRY_ATTEMPTS
Parked(s) ==
    /\ s \in candidates
    /\ processing[s] = "ai_processing"
    /\ quality[s].attempts >= MAX_AUTO_RETRY_ATTEMPTS

reclaimTimedOutTasks ==
    /\ candidates # {}
    /\ candidates' = {}
    /\ processing' = [s \in Submissions |-> CASE Requeued(s) -> "awaiting_ai"
                                              [] Parked(s)   -> "stuck"
                                              [] OTHER       -> processing[s]]
    /\ quality' = [s \in Submissions |->
                     IF s \in candidates /\ processing[s] = "ai_processing"
                       THEN [quality[s] EXCEPT !.status = "stuck"] ELSE quality[s]]
    /\ outbox' = [s \in Submissions |-> IF Requeued(s) THEN "pending" ELSE outbox[s]]
    /\ UNCHANGED <<workVars>>

\* A rerun of an existing row takes a fresh snapshot and forgets the verdict.
rerunAiQuality(s) ==
    /\ processing[s] \in {"awaiting_ai", "completed", "system_failed", "stuck"}
    /\ \E snapshot \in Prompts :
         quality' = [quality EXCEPT ![s] =
             IF @.status = "none" THEN @
             ELSE [@ EXCEPT !.status = "queued", !.snapshot = snapshot, !.judgedBy = NoPrompt]]
    /\ processing' = [processing EXCEPT ![s] = "awaiting_ai"]
    /\ outbox' = [outbox EXCEPT ![s] = "pending"]
    /\ UNCHANGED <<workVars, candidates>>

----------------------------------------------------------------------------
Handler(c) ==
    \/ \E s \in Submissions, n \in RetryNumbers : take(c, s, n)
    \/ resend(c)
    \/ timesOut(c)
    \/ finish(c)

Process(c) ==
    \/ lockBusy(c) \/ skip(c) \/ begin(c) \/ judge(c) \/ complete(c)
    \/ infrastructureFails(c)
    \/ \E failure \in Failures :
         beginFails(c, failure) \/ evaluationFails(c, failure)

Worker(p) ==
    \/ processDies(p)
    \/ processStarts(p)
    \/ \E s \in Submissions : runsLate(p, s)

Next ==
    \/ \E s \in Submissions : publish(s) \/ rerunAiQuality(s)
    \/ \E c \in Slots : Handler(c) \/ Process(c)
    \/ \E p \in Processes : Worker(p)
    \/ scan
    \/ reclaimTimedOutTasks

Spec == Init /\ [][Next]_vars

\* The publisher and the workers run on. The queues are first in first out, so
\* a message at the head does not stay for ever. A dead worker is restarted. An
\* evaluation that is begun again and again is not always aborted or failing.
Fairness ==
    /\ \A s \in Submissions :
         /\ WF_vars(publish(s) /\ outbox'[s] = "published")
         /\ SF_vars(\E c \in Slots, n \in RetryNumbers : take(c, s, n))
    /\ \A p \in Processes : WF_vars(processStarts(p))
    /\ \A c \in Slots :
         /\ WF_vars(resend(c) \/ finish(c))
         /\ WF_vars(Process(c))
         /\ SF_vars(begin(c) \/ skip(c))
         /\ SF_vars(judge(c))
         /\ SF_vars(complete(c))

FairSpec == Spec /\ Fairness

----------------------------------------------------------------------------
(* Properties *)

\* Every variable keeps the shape of its rows, messages and calls.
TypeOK ==
    /\ processing \in [Submissions -> Processing]
    /\ quality \in [Submissions -> Quality]
    /\ outbox \in [Submissions -> {"pending", "published"}]
    /\ queue \in [Submissions -> [RetryNumbers -> Nat]]
    /\ call \in [Slots -> Call]
    /\ active \in [Processes -> Seq(Submissions)]
    /\ late \in [Processes -> SUBSET Submissions]
    /\ alive \in [Processes -> BOOLEAN]
    /\ crashes \in 0..MaxCrashes
    /\ candidates \in SUBSET Submissions

\* A task is on its way: its event, a queued message, or a message some handler
\* has not acknowledged yet will bring it to an evaluation.
OnItsWay(s) ==
    \/ outbox[s] = "pending"
    \/ \E n \in RetryNumbers : queue[s][n] > 0
    \/ \E c \in Slots : call[c].submission = s /\ call[c].handler # "idle"

Unfinished == {"awaiting_ai", "ai_processing", "stuck"}

\* Whatever times out, fails, dies or is reclaimed, a task without a final
\* result is never forgotten, not even one that is shown as stuck.
NothingForgotten ==
    \A s \in Submissions :
        processing[s] \in Unfinished => OnItsWay(s)

\* The two rows of a task tell the same story, whoever wrote last: otherwise a
\* worker would skip what the submission still waits for.
StatusesAgree ==
    \A s \in Submissions :
        /\ processing[s] = "completed" <=> quality[s].status = "judged"
        /\ processing[s] = "system_failed" => quality[s].status \in {"none", "system_failed"}
        /\ quality[s].status = "system_failed" => processing[s] = "system_failed"
        /\ processing[s] = "ai_processing" <=> quality[s].status = "running"
        /\ processing[s] = "stuck" => quality[s].status = "stuck"

\* A final result stands until a rerun, whatever duplicates of its message and
\* aborted evaluations are still about.
VerdictStands ==
    [][\A s \in Submissions :
         Terminal(s) /\ quality'[s] # quality[s]
           => quality'[s].status = "queued" /\ outbox'[s] = "pending"]_vars

\* What the rows, the event and the calls under their lock say of a task, as
\* EvaluationDesk tells it.
Holding(k, s) == k.phase \in {"evaluating", "committing"} /\ k.submission = s

Evaluated(calls, s) ==
    LET holders == {c \in Slots : Holding(calls[c], s)}
    IN  IF holders = {} THEN NoPrompt ELSE calls[CHOOSE c \in holders : TRUE].snapshot

Desk == INSTANCE EvaluationDesk WITH
    Tasks   <- Submissions,
    None    <- NoPrompt,
    status  <- processing,
    basis   <- [s \in Submissions |-> quality[s].snapshot],
    verdict <- [s \in Submissions |-> quality[s].judgedBy],
    desk    <- [s \in Submissions |-> Evaluated(call, s)],
    due     <- {s \in Submissions : outbox[s] = "pending"}

\* Messages, handlers, locks, timeouts, deaths and the reclaimer amount to one
\* evaluation of a task at a time, by one prompt from beginning to verdict; a result
\* stands until a rerun, whatever duplicates of its message and aborted evaluations
\* are still about.
KeepsDesk == Desk!Spec

\* The inductive invariant behind these: a lock has one holder, whose task is
\* neither final nor left by its worker, and an unfinished task is awaited by
\* something that will not let go of it, which is more than being on its way.
Evaluating(c) == call[c].phase \in {"evaluating", "committing"}

LockExcludes ==
    \A c, d \in Slots :
        Evaluating(c) /\ Evaluating(d) /\ call[c].submission = call[d].submission => c = d

EvaluatedIsOpen ==
    \A c \in Slots :
        Evaluating(c) => /\ ~Terminal(call[c].submission)
                         /\ processing[call[c].submission] \in Unfinished

CallsHaveTasks ==
    \A c \in Slots :
        call[c].handler # "idle" \/ call[c].phase # "returned"
          => call[c].submission \in Submissions

LockingIsHandled ==
    \A c \in Slots : call[c].phase = "locking" => SlowSessions \/ call[c].handler = "processing"

Awaited(s) ==
    \/ outbox[s] = "pending"
    \/ \E n \in RetryNumbers : queue[s][n] > 0
    \/ \E c \in Slots : /\ call[c].submission = s
                        /\ call[c].handler = "processing"
                        /\ call[c].phase # "returned" \/ call[c].retry

UnfinishedIsAwaited ==
    ~SlowSessions => \A s \in Submissions : processing[s] \in Unfinished => Awaited(s)

Delivery ==
    /\ StatusesAgree
    /\ CallsHaveTasks
    /\ LockExcludes
    /\ EvaluatedIsOpen
    /\ LockingIsHandled
    /\ UnfinishedIsAwaited

\* A live worker is processing the task, and is not late with it.
Working(s) ==
    \E c \in Slots : /\ call[c].submission = s
                     /\ call[c].handler = "processing"
                     /\ call[c].phase \in {"evaluating", "committing"}
                     /\ s \notin late[ProcessOf[c]]

\* What the comment at operations.service.ts:773 says: a task that a live worker
\* is processing normally is no candidate for reclaiming, whatever old worker
\* rows still name it.
WorkingIsNoCandidate ==
    [][\A s \in candidates' \ candidates : ~Working(s)]_vars

\* What the comment at operations.service.ts:899 says: a task over its retry cap
\* stays stuck until an administrator queues it again (a rerun, which resets the
\* row) or a worker takes its old message.
StuckWaitsForAdministrator ==
    [][\A s \in Submissions :
         /\ processing[s] = "stuck"
         /\ quality[s].attempts >= MAX_AUTO_RETRY_ATTEMPTS
         /\ processing'[s] = "awaiting_ai"
         => quality'[s].status = "queued"]_vars

\* What the comment at submissions.service.ts:1612 says: after a rerun the task
\* is judged by the snapshot the rerun took.
JudgedBySnapshot ==
    \A s \in Submissions :
        quality[s].status = "judged" => quality[s].judgedBy = quality[s].snapshot

\* Every task gets its result in the end.
JudgedEventually ==
    \A s \in Submissions :
        processing[s] \in Unfinished ~> processing[s] \in {"completed", "system_failed"}
=============================================================================
