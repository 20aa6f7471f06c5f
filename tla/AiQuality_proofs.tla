-------------------------- MODULE AiQuality_proofs --------------------------
(***************************************************************************)
(* An AI quality task is never forgotten, its rows agree, and its result   *)
(* stands: for any number of tasks, workers, slots and retries.            *)
(***************************************************************************)
EXTENDS AiQuality, FiniteSetTheorems, TLAPS

\* The part of TypeOK that the argument needs, rows, messages and calls, with
\* the task of every call.
Shape ==
    /\ processing \in [Submissions -> Processing]
    /\ quality \in [Submissions -> Quality]
    /\ outbox \in [Submissions -> {"pending", "published"}]
    /\ queue \in [Submissions -> [RetryNumbers -> Nat]]
    /\ call \in [Slots -> Call]
    /\ CallsHaveTasks

shapeVars == <<processing, quality, outbox, queue, call>>

LEMMA NextAttemptInRange ==
    ASSUME NEW n \in RetryNumbers
    PROVE  NextAttempt(n) \in RetryNumbers
BY WorkerAssumption DEF NextAttempt, RetryNumbers

LEMMA FreeIsCall == Free \in Call
BY WorkerAssumption DEF Free, Call, RetryNumbers

\* A message is added to, or taken from, the queue of a task.
LEMMA EnqueueShape ==
    ASSUME Shape, NEW s \in Submissions, NEW n \in RetryNumbers, Enqueue(s, n)
    PROVE  queue' \in [Submissions -> [RetryNumbers -> Nat]]
BY DEF Shape, Enqueue

\* What a call changes, and nothing else, keeps the shape.
LEMMA ReturnShape ==
    ASSUME Shape, NEW c \in Slots, NEW retry \in BOOLEAN, Return(c, retry)
    PROVE  /\ call' \in [Slots -> Call]
           /\ CallsHaveTasks'
<1>1. call[c] \in Call
  BY DEF Shape
<1>2. [call[c] EXCEPT !.phase = "returned", !.snapshot = NoPrompt,
                      !.retry = retry /\ call[c].handler = "processing"] \in Call
  BY <1>1 DEF Call
<1>3. call' \in [Slots -> Call]
  BY <1>2, FreeIsCall DEF Return, Shape
<1>4. ASSUME NEW d \in Slots, call'[d].handler # "idle" \/ call'[d].phase # "returned"
      PROVE  call'[d].submission \in Submissions
  BY <1>1, <1>4, FreeIsCall DEF Return, Shape, CallsHaveTasks, Call, Free
<1>5. QED
  BY <1>3, <1>4 DEF CallsHaveTasks

\* A step of a slot that keeps its task and is not free before it.
LEMMA SlotShape ==
    ASSUME Shape, NEW c \in Slots, NEW new \in Call,
           call[c].handler # "idle" \/ call[c].phase # "returned",
           new.submission = call[c].submission,
           call' = [call EXCEPT ![c] = new]
    PROVE  /\ call' \in [Slots -> Call]
           /\ CallsHaveTasks'
BY DEF Shape, CallsHaveTasks

LEMMA MarkShape ==
    ASSUME Shape, NEW s \in Submissions,
           NEW r \in ResultStatuses, NEW p \in Processing, Mark(s, r, p)
    PROVE  /\ quality' \in [Submissions -> Quality]
           /\ processing' \in [Submissions -> Processing]
<1>1. quality[s] \in Quality
  BY DEF Shape
<1>2. [quality[s] EXCEPT !.status = IF quality[s].status = "none"
                                     THEN quality[s].status ELSE r] \in Quality
  BY <1>1 DEF Quality
<1>3. QED
  BY <1>2 DEF Mark, Shape

\* Rows, messages and calls keep their shape, and every call has its task.
THEOREM ShapeCorrect == Spec => []Shape
<1>1. Init => Shape
  <2> SUFFICES ASSUME Init PROVE Shape
    OBVIOUS
  <2>1. NoQuality \in Quality
    BY WorkerAssumption DEF NoQuality, Quality, ResultStatuses
  <2>2. call \in [Slots -> Call] /\ CallsHaveTasks
    BY FreeIsCall DEF Init, CallsHaveTasks, Free
  <2>3. QED
    BY <2>1, <2>2 DEF Init, Shape, Processing
<1>2. Shape /\ [Next]_vars => Shape'
  <2> SUFFICES ASSUME Shape, [Next]_vars PROVE Shape'
    OBVIOUS
  <2>1. CASE UNCHANGED shapeVars
    BY <2>1 DEF Shape, CallsHaveTasks, shapeVars
  <2>2. ASSUME NEW s \in Submissions, publish(s) PROVE Shape'
    <3>1. 0 \in RetryNumbers
      BY WorkerAssumption DEF RetryNumbers
    <3>2. QED
      BY <2>2, <3>1, EnqueueShape DEF publish, Shape, CallsHaveTasks
  <2>3. ASSUME NEW s \in Submissions, rerunAiQuality(s) PROVE Shape'
    <3>1. PICK v \in Prompts : quality' = [quality EXCEPT ![s] =
             IF quality[s].status = "none" THEN quality[s]
             ELSE [quality[s] EXCEPT !.status = "queued", !.snapshot = v, !.judgedBy = NoPrompt]]
      BY <2>3 DEF rerunAiQuality
    <3>2. [quality[s] EXCEPT !.status = "queued", !.snapshot = v, !.judgedBy = NoPrompt] \in Quality
      BY DEF Shape, Quality, ResultStatuses
    <3>3. quality' \in [Submissions -> Quality]
      BY <3>1, <3>2 DEF Shape
    <3>4. QED
      BY <2>3, <3>3 DEF rerunAiQuality, workVars, Shape, CallsHaveTasks, Processing
  <2>4. ASSUME NEW c \in Slots, NEW s \in Submissions, NEW n \in RetryNumbers, take(c, s, n)
        PROVE  Shape'
    <3>1. [Free EXCEPT !.handler = "processing", !.submission = s,
                       !.attempt = n, !.phase = "locking"] \in Call
      BY FreeIsCall DEF Call
    <3>2. call' \in [Slots -> Call]
      BY <2>4, <3>1 DEF take, Shape
    <3>3. queue' \in [Submissions -> [RetryNumbers -> Nat]]
      BY <2>4 DEF take, Shape
    <3>4. CallsHaveTasks'
      BY <2>4, FreeIsCall DEF take, Shape, CallsHaveTasks, Call
    <3>5. QED
      BY <2>4, <3>2, <3>3, <3>4 DEF take, rowVars, Shape
  <2>5. ASSUME NEW c \in Slots, call[c].handler = "processing", SendAgain(c)
        PROVE  Shape'
    <3>1. call[c] \in Call /\ call[c].submission \in Submissions
      BY <2>5 DEF Shape, CallsHaveTasks
    <3>2. NextAttempt(call[c].attempt) \in RetryNumbers
      BY <3>1, NextAttemptInRange DEF Call
    <3>3. queue' \in [Submissions -> [RetryNumbers -> Nat]]
      BY <2>5, <3>1, <3>2, EnqueueShape DEF SendAgain
    <3>4. [call[c] EXCEPT !.handler = "resent"] \in Call
      BY <3>1 DEF Call
    <3>5. [call[c] EXCEPT !.handler = "resent"].submission = call[c].submission
      BY <3>1 DEF Call
    <3>6. call' = [call EXCEPT ![c] = [call[c] EXCEPT !.handler = "resent"]]
      BY <2>5 DEF SendAgain
    <3>7. call' \in [Slots -> Call] /\ CallsHaveTasks'
      BY <2>5, <3>4, <3>5, <3>6, SlotShape
    <3>8. QED
      BY <2>5, <3>3, <3>7 DEF SendAgain, rowVars, Shape
  <2>6. ASSUME NEW c \in Slots, finish(c) PROVE Shape'
    <3>1. call[c] \in Call /\ call[c].handler # "idle"
      BY <2>6 DEF finish, Shape
    <3>2. [call[c] EXCEPT !.handler = "idle"] \in Call
      BY <3>1 DEF Call
    <3>3. call' = [call EXCEPT ![c] = IF call[c].phase = "returned" THEN Free
                                      ELSE [call[c] EXCEPT !.handler = "idle"]]
      BY <2>6 DEF finish
    <3>4. CASE call[c].phase = "returned"
      <4>1. call' = [call EXCEPT ![c] = Free]
        BY <3>3, <3>4
      <4>2. call' \in [Slots -> Call] /\ CallsHaveTasks'
        BY <4>1, FreeIsCall DEF Shape, CallsHaveTasks, Free
      <4>3. QED
        BY <2>6, <4>2 DEF finish, rowVars, Shape
    <3>5. CASE call[c].phase # "returned"
      <4>1. call' = [call EXCEPT ![c] = [call[c] EXCEPT !.handler = "idle"]]
        BY <3>3, <3>5
      <4>2. [call[c] EXCEPT !.handler = "idle"].submission = call[c].submission
        BY <3>1 DEF Call
      <4>3. call' \in [Slots -> Call] /\ CallsHaveTasks'
        BY <3>1, <3>2, <4>1, <4>2, SlotShape
      <4>4. QED
        BY <2>6, <4>3 DEF finish, rowVars, Shape
    <3>6. QED
      BY <3>4, <3>5
  <2>7. ASSUME NEW c \in Slots, lockBusy(c) \/ skip(c) \/ infrastructureFails(c)
        PROVE  Shape'
    <3>1. call' \in [Slots -> Call] /\ CallsHaveTasks'
      BY <2>7, ReturnShape DEF lockBusy, skip, infrastructureFails
    <3>2. QED
      BY <2>7, <3>1 DEF lockBusy, skip, infrastructureFails, rowVars, Shape
  <2>8. ASSUME NEW c \in Slots, begin(c) PROVE Shape'
    <3>1. call[c] \in Call /\ call[c].submission \in Submissions
      BY <2>8 DEF begin, Shape, CallsHaveTasks
    <3> DEFINE s == call[c].submission
    <3>2. PICK v \in Prompts \cup {NoPrompt} :
             /\ quality' = [quality EXCEPT ![s].status = "running", ![s].snapshot = v,
                                           ![s].attempts = MoreAttempts(@)]
             /\ call' = [call EXCEPT ![c].phase = "evaluating", ![c].snapshot = v]
      BY <2>8, <3>1 DEF begin, Shape, Quality
    <3>3. quality[s] \in Quality
      BY <3>1 DEF Shape
    <3>4. MoreAttempts(quality[s].attempts) \in 0..MAX_AUTO_RETRY_ATTEMPTS
      BY <3>3, WorkerAssumption DEF MoreAttempts, Quality
    <3>5. [quality[s] EXCEPT !.status = "running", !.snapshot = v,
                             !.attempts = MoreAttempts(quality[s].attempts)] \in Quality
      BY <3>3, <3>4 DEF Quality, ResultStatuses
    <3>6. quality' = [quality EXCEPT ![s] = [quality[s] EXCEPT !.status = "running",
                        !.snapshot = v, !.attempts = MoreAttempts(quality[s].attempts)]]
      BY <3>1, <3>2, <3>3 DEF Shape, Quality
    <3>7. quality' \in [Submissions -> Quality]
      BY <3>5, <3>6 DEF Shape
    <3>8. [call[c] EXCEPT !.phase = "evaluating", !.snapshot = v] \in Call
      BY <3>1 DEF Call
    <3>9. [call[c] EXCEPT !.phase = "evaluating", !.snapshot = v].submission
             = call[c].submission
      BY <3>1 DEF Call
    <3>10. call' = [call EXCEPT ![c] = [call[c] EXCEPT !.phase = "evaluating", !.snapshot = v]]
      BY <3>1, <3>2 DEF Shape, Call
    <3>11. call' \in [Slots -> Call] /\ CallsHaveTasks'
      BY <2>8, <3>8, <3>9, <3>10, SlotShape DEF begin
    <3>12. QED
      BY <2>8, <3>7, <3>11 DEF begin, Shape, Processing
  <2>9. ASSUME NEW c \in Slots, judge(c) PROVE Shape'
    <3>1. call[c] \in Call
      BY DEF Shape
    <3>2. [call[c] EXCEPT !.phase = "committing"] \in Call
      BY <3>1 DEF Call
    <3>3. [call[c] EXCEPT !.phase = "committing"].submission = call[c].submission
      BY <3>1 DEF Call
    <3>4. call' \in [Slots -> Call] /\ CallsHaveTasks'
      BY <2>9, <3>2, <3>3, SlotShape DEF judge
    <3>5. QED
      BY <2>9, <3>4 DEF judge, rowVars, Shape
  <2>10. ASSUME NEW c \in Slots, NEW failure \in Failures,
                beginFails(c, failure) \/ evaluationFails(c, failure)
         PROVE  Shape'
    <3>1. call[c].submission \in Submissions
      BY <2>10 DEF beginFails, evaluationFails, Shape, CallsHaveTasks
    <3>2. quality' \in [Submissions -> Quality] /\ processing' \in [Submissions -> Processing]
      <4>1. CASE UNCHANGED <<processing, quality>>
        BY <4>1 DEF Shape
      <4>2. CASE markTerminalFailure(call[c].submission)
        BY <3>1, <4>2, MarkShape DEF markTerminalFailure, ResultStatuses, Processing
      <4>3. CASE markRetryPending(call[c].submission)
        BY <3>1, <4>3, MarkShape DEF markRetryPending, ResultStatuses, Processing
      <4>4. QED
        BY <2>10, <4>1, <4>2, <4>3 DEF beginFails, evaluationFails
    <3>3. (~Final(c, failure)) \in BOOLEAN
      OBVIOUS
    <3>4. call' \in [Slots -> Call] /\ CallsHaveTasks'
      BY <2>10, <3>3, ReturnShape DEF beginFails, evaluationFails
    <3>5. QED
      BY <2>10, <3>2, <3>4 DEF beginFails, evaluationFails, Shape
  <2>11. ASSUME NEW c \in Slots, complete(c) PROVE Shape'
    <3>1. call[c] \in Call /\ call[c].submission \in Submissions
      BY <2>11 DEF complete, Shape, CallsHaveTasks
    <3> DEFINE s == call[c].submission
    <3>2. quality[s] \in Quality
      BY <3>1 DEF Shape
    <3>3. [quality[s] EXCEPT !.status = "judged", !.judgedBy = call[c].snapshot] \in Quality
      BY <3>1, <3>2 DEF Quality, Call, ResultStatuses
    <3>4. quality' = [quality EXCEPT ![s] =
              [quality[s] EXCEPT !.status = "judged", !.judgedBy = call[c].snapshot]]
      BY <2>11, <3>1, <3>2 DEF complete, Shape, Quality
    <3>5. quality' \in [Submissions -> Quality]
      BY <3>3, <3>4 DEF Shape
    <3>6. call' \in [Slots -> Call] /\ CallsHaveTasks'
      BY <2>11, ReturnShape DEF complete
    <3>7. QED
      BY <2>11, <3>5, <3>6 DEF complete, Shape, Processing
  <2>12. ASSUME NEW p \in Processes, processDies(p) PROVE Shape'
    <3>1. call' \in [Slots -> Call] /\ CallsHaveTasks'
      BY <2>12, FreeIsCall DEF processDies, Shape, CallsHaveTasks, Free
    <3>2. ASSUME NEW s \in Submissions, NEW n \in RetryNumbers
          PROVE  Unacknowledged(p, s, n) \in Nat
      <4>1. IsFiniteSet({c \in HeldBy(p) : call[c].submission = s /\ call[c].attempt = n})
        BY WorkerAssumption, FS_Subset DEF HeldBy
      <4>2. QED
        BY <4>1, FS_CardinalityType DEF Unacknowledged
    <3>3. queue' \in [Submissions -> [RetryNumbers -> Nat]]
      BY <2>12, <3>2 DEF processDies, Shape
    <3>4. QED
      BY <2>12, <3>1, <3>3 DEF processDies, rowVars, Shape
  <2>13. ASSUME reclaimTimedOutTasks PROVE Shape'
    <3>1. ASSUME NEW s \in Submissions
          PROVE  [quality[s] EXCEPT !.status = "stuck"] \in Quality
      BY DEF Shape, Quality, ResultStatuses
    <3>2. quality' \in [Submissions -> Quality]
      BY <2>13, <3>1 DEF reclaimTimedOutTasks, Shape
    <3>3. processing' \in [Submissions -> Processing]
      BY <2>13 DEF reclaimTimedOutTasks, Shape, Processing
    <3>4. outbox' \in [Submissions -> {"pending", "published"}]
      BY <2>13 DEF reclaimTimedOutTasks, Shape
    <3>5. QED
      BY <2>13, <3>2, <3>3, <3>4 DEF reclaimTimedOutTasks, workVars, Shape, CallsHaveTasks
  <2>14. ASSUME NEW p \in Processes,
                processStarts(p) \/ \E s \in Submissions : runsLate(p, s)
         PROVE  Shape'
    BY <2>1, <2>14 DEF processStarts, runsLate, rowVars, shapeVars
  <2>15. CASE scan
    BY <2>1, <2>15 DEF scan, rowVars, workVars, shapeVars
  <2>16. CASE UNCHANGED vars
    BY <2>1, <2>16 DEF vars, rowVars, workVars, shapeVars
  <2>17. ASSUME NEW c \in Slots, Handler(c) PROVE Shape'
    BY <2>17, <2>4, <2>5, <2>6 DEF Handler, resend, timesOut
  <2>18. ASSUME NEW c \in Slots, Process(c) PROVE Shape'
    <3>1. CASE lockBusy(c) \/ skip(c) \/ infrastructureFails(c)
      BY <3>1, <2>7
    <3>2. CASE \E failure \in Failures : beginFails(c, failure) \/ evaluationFails(c, failure)
      BY <3>2, <2>10
    <3>3. QED
      BY <2>18, <3>1, <3>2, <2>8, <2>9, <2>11 DEF Process
  <2>19. ASSUME NEW p \in Processes, Worker(p) PROVE Shape'
    BY <2>19, <2>12, <2>14 DEF Worker
  <2>20. QED
    BY <2>2, <2>3, <2>13, <2>15, <2>16, <2>17, <2>18, <2>19 DEF Next
<1>3. QED
  BY <1>1, <1>2, PTL DEF Spec

----------------------------------------------------------------------------
(* The heartbeats. *)

Beats ==
    /\ active \in [Processes -> Seq(Submissions)]
    /\ late \in [Processes -> SUBSET Submissions]
    /\ alive \in [Processes -> BOOLEAN]
    /\ crashes \in 0..MaxCrashes
    /\ candidates \in SUBSET Submissions

beatVars == <<active, late, alive, crashes, candidates>>

LEMMA RemoveIsSeq ==
    ASSUME NEW S, NEW seq \in Seq(S), NEW s
    PROVE  Remove(seq, s) \in Seq(S)
<1> DEFINE i == CHOOSE i \in 1..Len(seq) : seq[i] = s
<1>1. CASE \E k \in 1..Len(seq) : seq[k] = s
  <2>1. i \in 1..Len(seq)
    BY <1>1
  <2> HIDE DEF i
  <2>2. SubSeq(seq, 1, i - 1) \in Seq(S) /\ SubSeq(seq, i + 1, Len(seq)) \in Seq(S)
    BY <2>1
  <2>3. SubSeq(seq, 1, i - 1) \o SubSeq(seq, i + 1, Len(seq)) \in Seq(S)
    BY <2>2
  <2>4. QED
    BY <1>1, <2>3 DEF Remove, i
<1>2. CASE ~\E k \in 1..Len(seq) : seq[k] = s
  BY <1>2 DEF Remove
<1>3. QED
  BY <1>1, <1>2

LEMMA CurrentIsTask ==
    ASSUME Beats, NEW p \in Processes
    PROVE  Current(p) \in Submissions \cup {NoSubmission}
BY DEF Beats, Current

LEMMA NextBeats ==
    ASSUME Shape, Beats, [Next]_vars
    PROVE  Beats'
<1>1. CASE UNCHANGED beatVars
  BY <1>1 DEF Beats, beatVars
<1>2. ASSUME NEW s \in Submissions, publish(s) \/ rerunAiQuality(s) PROVE Beats'
  BY <1>1, <1>2 DEF publish, rerunAiQuality, workVars, beatVars
<1>3. ASSUME NEW c \in Slots, NEW s \in Submissions, NEW n \in RetryNumbers, take(c, s, n)
      PROVE  Beats'
  <2> DEFINE p == ProcessOf[c]
  <2> DEFINE new == IF s \in Entries(p) THEN active[p] ELSE Append(active[p], s)
  <2>1. active' = [active EXCEPT ![p] = new]
    BY <1>3 DEF take
  <2>2. p \in Processes => new \in Seq(Submissions)
    BY DEF Beats
  <2> HIDE DEF new
  <2>3. active' \in [Processes -> Seq(Submissions)]
    BY <2>1, <2>2 DEF Beats
  <2>4. late' \in [Processes -> SUBSET Submissions]
    BY <1>3 DEF take, Beats
  <2>5. QED
    BY <1>3, <2>3, <2>4 DEF take, Beats
<1>4. ASSUME NEW c \in Slots, finish(c) PROVE Beats'
  <2> DEFINE p == ProcessOf[c]
  <2>1. active' = [active EXCEPT ![p] = Remove(active[p], call[c].submission)]
    BY <1>4 DEF finish
  <2>2. p \in Processes => Remove(active[p], call[c].submission) \in Seq(Submissions)
    BY RemoveIsSeq DEF Beats
  <2>3. active' \in [Processes -> Seq(Submissions)]
    BY <2>1, <2>2 DEF Beats
  <2>4. late' \in [Processes -> SUBSET Submissions]
    BY <1>4 DEF finish, Beats
  <2>5. QED
    BY <1>4, <2>3, <2>4 DEF finish, Beats
<1>5. ASSUME NEW c \in Slots, resend(c) \/ timesOut(c) PROVE Beats'
  BY <1>1, <1>5 DEF resend, timesOut, SendAgain, beatVars
<1>6. ASSUME NEW c \in Slots, Process(c) PROVE Beats'
  BY <1>1, <1>6 DEF Process, lockBusy, skip, begin, judge, complete, infrastructureFails,
     beginFails, evaluationFails, beatVars
<1>7. ASSUME NEW p \in Processes, Worker(p) PROVE Beats'
  <2>1. CASE processDies(p)
    <3>1. crashes' \in 0..MaxCrashes
      BY <2>1, WorkerAssumption DEF processDies, Beats
    <3>2. QED
      BY <2>1, <3>1 DEF processDies, Beats
  <2>2. CASE processStarts(p)
    <3>1. <<>> \in Seq(Submissions)
      OBVIOUS
    <3>2. QED
      BY <2>2, <3>1 DEF processStarts, Beats
  <2>3. ASSUME NEW s \in Submissions, runsLate(p, s) PROVE Beats'
    BY <2>3 DEF runsLate, Beats
  <2>4. QED
    BY <1>7, <2>1, <2>2, <2>3 DEF Worker
<1>8. CASE scan
  <2>1. candidates' \subseteq Submissions
    BY <1>8, CurrentIsTask DEF scan
  <2>2. QED
    BY <1>8, <2>1 DEF scan, workVars, Beats
<1>9. CASE reclaimTimedOutTasks
  BY <1>9 DEF reclaimTimedOutTasks, workVars, Beats
<1>10. CASE UNCHANGED vars
  BY <1>1, <1>10 DEF vars, workVars, beatVars
<1>11. QED
  BY <1>2, <1>3, <1>4, <1>5, <1>6, <1>7, <1>8, <1>9, <1>10 DEF Next, Handler

\* Rows, messages, calls and heartbeats keep their shape, for any number of workers,
\* retries and deaths.
THEOREM TypeCorrect == Spec => []TypeOK
<1>1. Init => Beats
  <2> SUFFICES ASSUME Init PROVE Beats
    OBVIOUS
  <2>1. <<>> \in Seq(Submissions) /\ 0 \in 0..MaxCrashes
    BY WorkerAssumption
  <2>2. QED
    BY <2>1 DEF Init, Beats
<1>2. Shape /\ Beats /\ [Next]_vars => Beats'
  BY NextBeats
<1>3. Shape /\ Beats => TypeOK
  BY DEF Shape, Beats, TypeOK
<1>4. QED
  BY <1>1, <1>2, <1>3, ShapeCorrect, PTL DEF Spec

----------------------------------------------------------------------------
(* The inductive invariant. *)

\* What a step that changes neither rows nor the phase of a call keeps.
LEMMA EvaluatingFrame ==
    ASSUME Delivery, UNCHANGED <<processing, quality>>,
           \A d \in Slots : /\ Evaluating(d)' => Evaluating(d)
                            /\ Evaluating(d)' => call'[d].submission = call[d].submission
    PROVE  StatusesAgree' /\ LockExcludes' /\ EvaluatedIsOpen'
<1>1. StatusesAgree'
  BY DEF Delivery, StatusesAgree
<1>2. LockExcludes'
  BY DEF Delivery, LockExcludes
<1>3. EvaluatedIsOpen'
  BY DEF Delivery, EvaluatedIsOpen, Terminal
<1>4. QED
  BY <1>1, <1>2, <1>3

\* A task stays awaited while its event and messages stay, and its handlers do.
Waits(c) == /\ call[c].handler = "processing"
            /\ call[c].phase # "returned" \/ call[c].retry

LEMMA AwaitedFrame ==
    ASSUME Shape, Delivery, ~SlowSessions, NEW s \in Submissions,
           processing[s] \in Unfinished,
           outbox[s] = "pending" => outbox'[s] = "pending",
           \A n \in RetryNumbers : queue[s][n] > 0 => queue'[s][n] > 0,
           \A d \in Slots : Waits(d) /\ call[d].submission = s
                              => Waits(d)' /\ call'[d].submission = s
    PROVE  Awaited(s)'
<1>1. Awaited(s)
  BY DEF Delivery, UnfinishedIsAwaited
<1>2. QED
  BY <1>1 DEF Awaited, Waits

\* A step that leaves rows, queue and phases alone.
LEMMA SameTasks ==
    ASSUME Shape, Delivery, UNCHANGED shapeVars
    PROVE  Delivery'
<1>1. StatusesAgree' /\ LockExcludes' /\ EvaluatedIsOpen'
  BY EvaluatingFrame DEF shapeVars, Evaluating
<1>2. CallsHaveTasks' /\ LockingIsHandled'
  BY DEF Delivery, CallsHaveTasks, LockingIsHandled, shapeVars
<1>3. UnfinishedIsAwaited'
  BY DEF Delivery, UnfinishedIsAwaited, Awaited, shapeVars
<1>4. QED
  BY <1>1, <1>2, <1>3 DEF Delivery

LEMMA PublishDelivers ==
    ASSUME Shape, Shape', Delivery, NEW s \in Submissions, publish(s)
    PROVE  Delivery'
<1>1. StatusesAgree' /\ LockExcludes' /\ EvaluatedIsOpen'
  BY EvaluatingFrame DEF publish, Evaluating
<1>2. LockingIsHandled'
  BY DEF Delivery, LockingIsHandled, publish
<1>3. ASSUME ~SlowSessions, NEW t \in Submissions, processing'[t] \in Unfinished
      PROVE  Awaited(t)'
  <2>1. 0 \in RetryNumbers
    BY WorkerAssumption DEF RetryNumbers
  <2>2. CASE t = s
    <3>1. queue'[s][0] > 0
      BY <2>1 DEF publish, Enqueue, Shape
    <3>2. QED
      BY <2>1, <2>2, <3>1 DEF Awaited
  <2>3. CASE t # s
    <3>1. outbox'[t] = outbox[t] /\ queue'[t] = queue[t]
      BY <2>3 DEF publish, Enqueue, Shape
    <3>2. QED
      BY <1>3, <3>1, AwaitedFrame DEF publish, Waits
  <2>4. QED
    BY <2>2, <2>3
<1>4. QED
  BY <1>1, <1>2, <1>3 DEF Delivery, UnfinishedIsAwaited, Shape

LEMMA RerunDelivers ==
    ASSUME Shape, Shape', Delivery, NEW s \in Submissions, rerunAiQuality(s)
    PROVE  Delivery'
<1>1. PICK v \in Prompts : quality' = [quality EXCEPT ![s] =
         IF quality[s].status = "none" THEN quality[s]
         ELSE [quality[s] EXCEPT !.status = "queued", !.snapshot = v, !.judgedBy = NoPrompt]]
  BY DEF rerunAiQuality
<1>2. /\ quality'[s].status \in {"none", "queued"}
      /\ processing'[s] = "awaiting_ai"
      /\ \A t \in Submissions \ {s} : quality'[t] = quality[t] /\ processing'[t] = processing[t]
  BY <1>1 DEF rerunAiQuality, Shape, Quality
<1>3. StatusesAgree'
  BY <1>2 DEF Delivery, StatusesAgree
<1>4. LockExcludes' /\ LockingIsHandled'
  BY DEF Delivery, LockExcludes, LockingIsHandled, Evaluating, rerunAiQuality, workVars
<1>5. ASSUME NEW c \in Slots, Evaluating(c)'
      PROVE  /\ ~Terminal(call[c].submission)'
             /\ processing'[call'[c].submission] \in Unfinished
  <2>1. call' = call
    BY DEF rerunAiQuality, workVars
  <2>2. /\ Evaluating(c)
        /\ call[c].submission \in Submissions
    BY <1>5, <2>1 DEF Evaluating, Shape, CallsHaveTasks
  <2>3. ~Terminal(call[c].submission) /\ processing[call[c].submission] \in Unfinished
    BY <2>2 DEF Delivery, EvaluatedIsOpen
  <2>4. QED
    BY <1>2, <2>1, <2>2, <2>3 DEF Terminal, Unfinished
<1>6. EvaluatedIsOpen'
  BY <1>5 DEF EvaluatedIsOpen
<1>7. ASSUME ~SlowSessions, NEW t \in Submissions, processing'[t] \in Unfinished
      PROVE  Awaited(t)'
  <2>1. CASE t = s
    BY <2>1 DEF rerunAiQuality, Awaited, Shape
  <2>2. CASE t # s
    <3>1. outbox'[t] = outbox[t] /\ processing[t] \in Unfinished
      BY <1>2, <1>7, <2>2 DEF rerunAiQuality, Shape
    <3>2. QED
      BY <1>7, <3>1, AwaitedFrame DEF rerunAiQuality, workVars, Waits
  <2>3. QED
    BY <2>1, <2>2
<1>8. QED
  BY <1>3, <1>4, <1>6, <1>7 DEF Delivery, UnfinishedIsAwaited, Shape

LEMMA ReclaimDelivers ==
    ASSUME Shape, Shape', Delivery, reclaimTimedOutTasks
    PROVE  Delivery'
<1>1. ASSUME NEW s \in Submissions
      PROVE  \/ quality'[s] = quality[s] /\ processing'[s] = processing[s]
             \/ /\ processing[s] \in {"ai_processing", "stuck"}
                /\ quality'[s].status = "stuck"
                /\ processing'[s] \in {"awaiting_ai", "stuck"}
  <2>1. quality[s] \in Quality /\ (processing[s] = "stuck" => quality[s].status = "stuck")
    BY DEF Shape, Delivery, StatusesAgree
  <2>2. quality'[s] = IF s \in candidates /\ processing[s] = "ai_processing"
                        THEN [quality[s] EXCEPT !.status = "stuck"] ELSE quality[s]
    BY DEF reclaimTimedOutTasks
  <2>3. processing'[s] = CASE Requeued(s) -> "awaiting_ai"
                           [] Parked(s)   -> "stuck"
                           [] OTHER       -> processing[s]
    BY DEF reclaimTimedOutTasks
  <2>4. CASE s \in candidates /\ processing[s] = "ai_processing"
    <3>1. quality'[s].status = "stuck"
      BY <2>1, <2>2, <2>4 DEF Quality
    <3>2. quality[s].attempts \in Nat
      BY <2>1, WorkerAssumption DEF Quality
    <3>3. Requeued(s) \/ Parked(s)
      BY <2>4, <3>2, WorkerAssumption DEF Requeued, Parked
    <3>4. QED
      BY <2>3, <2>4, <3>1, <3>3
  <2>5. CASE s \in candidates /\ processing[s] = "stuck"
    BY <2>1, <2>2, <2>3, <2>5 DEF Requeued
  <2>6. CASE ~(s \in candidates /\ processing[s] \in {"ai_processing", "stuck"})
    BY <2>2, <2>3, <2>6 DEF Requeued, Parked
  <2>7. QED
    BY <2>4, <2>5, <2>6
<1>2. StatusesAgree'
  BY <1>1 DEF Delivery, StatusesAgree
<1>3. call' = call /\ queue' = queue
  BY DEF reclaimTimedOutTasks, workVars
<1>4. LockExcludes' /\ LockingIsHandled'
  BY <1>3 DEF Delivery, LockExcludes, LockingIsHandled, Evaluating
<1>5. EvaluatedIsOpen'
  BY <1>1, <1>3 DEF Delivery, EvaluatedIsOpen, Evaluating, Terminal, Unfinished, Shape,
                    CallsHaveTasks
<1>6. ASSUME ~SlowSessions, NEW t \in Submissions, processing'[t] \in Unfinished
      PROVE  Awaited(t)'
  <2>1. processing[t] \in Unfinished
    BY <1>1, <1>6 DEF Unfinished
  <2>2. outbox[t] = "pending" => outbox'[t] = "pending"
    BY DEF reclaimTimedOutTasks
  <2>3. QED
    BY <1>3, <1>6, <2>1, <2>2, AwaitedFrame DEF Waits
<1>7. QED
  BY <1>2, <1>4, <1>5, <1>6 DEF Delivery, UnfinishedIsAwaited, Shape

\* A step of one slot that changes no row: a call that was not evaluating does
\* not begin to, and the task it waits for is awaited by something afterwards.
LEMMA SlotDelivers ==
    ASSUME Shape, Shape', Delivery, NEW c \in Slots,
           UNCHANGED <<processing, quality, outbox>>,
           \A d \in Slots \ {c} : call'[d] = call[d],
           Evaluating(c)' => Evaluating(c) /\ call'[c].submission = call[c].submission,
           call'[c].phase = "locking" => SlowSessions \/ call'[c].handler = "processing",
           \A s \in Submissions, n \in RetryNumbers : queue[s][n] > 0
             => queue'[s][n] > 0 \/ (Waits(c)' /\ call'[c].submission = s),
           \A s \in Submissions :
             ~SlowSessions /\ Waits(c) /\ call[c].submission = s /\ processing[s] \in Unfinished
               => Awaited(s)'
    PROVE  Delivery'
<1>1. ASSUME NEW d \in Slots, Evaluating(d)'
      PROVE  Evaluating(d) /\ call'[d].submission = call[d].submission
  BY <1>1 DEF Evaluating
<1>2. StatusesAgree' /\ LockExcludes' /\ EvaluatedIsOpen'
  BY <1>1, EvaluatingFrame
<1>3. LockingIsHandled'
  BY DEF Delivery, LockingIsHandled
<1>4. ASSUME ~SlowSessions, NEW t \in Submissions, processing'[t] \in Unfinished
      PROVE  Awaited(t)'
  <2>1. Awaited(t)
    BY <1>4 DEF Delivery, UnfinishedIsAwaited
  <2>2. CASE outbox[t] = "pending"
    BY <2>2 DEF Awaited
  <2>3. CASE \E n \in RetryNumbers : queue[t][n] > 0
    BY <2>3 DEF Awaited, Waits
  <2>4. CASE \E d \in Slots : Waits(d) /\ call[d].submission = t
    <3>1. PICK d \in Slots : Waits(d) /\ call[d].submission = t
      BY <2>4
    <3>2. CASE d = c
      BY <1>4, <3>1, <3>2
    <3>3. CASE d # c
      BY <3>1, <3>3 DEF Awaited, Waits
    <3>4. QED
      BY <3>2, <3>3
  <2>5. QED
    BY <2>1, <2>2, <2>3, <2>4 DEF Awaited, Waits
<1>5. QED
  BY <1>2, <1>3, <1>4 DEF Delivery, UnfinishedIsAwaited, Shape

LEMMA TakeDelivers ==
    ASSUME Shape, Shape', Delivery, NEW c \in Slots, NEW s \in Submissions,
           NEW n \in RetryNumbers, take(c, s, n)
    PROVE  Delivery'
<1>1. call'[c] = [Free EXCEPT !.handler = "processing", !.submission = s,
                              !.attempt = n, !.phase = "locking"]
  BY DEF take, Shape
<1>2. /\ call'[c].handler = "processing"
      /\ call'[c].submission = s
      /\ call'[c].phase = "locking"
  BY <1>1 DEF Free
<1>3. Waits(c)' /\ ~Evaluating(c)'
  BY <1>2 DEF Waits, Evaluating
<1>4. \A t \in Submissions, k \in RetryNumbers :
         queue[t][k] > 0 => queue'[t][k] > 0 \/ t = s
  BY DEF take, Shape
<1>5. ~Waits(c)
  BY DEF take, Waits, Free
<1>6. \A d \in Slots \ {c} : call'[d] = call[d]
  BY DEF take, Shape
<1>7. QED
  BY <1>2, <1>3, <1>4, <1>5, <1>6, SlotDelivers DEF take, rowVars

LEMMA SendAgainDelivers ==
    ASSUME Shape, Shape', Delivery, NEW c \in Slots, call[c].handler = "processing",
           call[c].phase = "locking" => SlowSessions, SendAgain(c)
    PROVE  Delivery'
<1> DEFINE s == call[c].submission
           n == NextAttempt(call[c].attempt)
<1>1. s \in Submissions /\ n \in RetryNumbers
  BY NextAttemptInRange DEF Shape, CallsHaveTasks, Call
<1>2. /\ call'[c].handler = "resent"
      /\ call'[c].phase = call[c].phase
      /\ call'[c].submission = call[c].submission
      /\ \A d \in Slots \ {c} : call'[d] = call[d]
  BY DEF SendAgain, Shape, Call
<1>3. queue'[s][n] > 0
  BY <1>1 DEF SendAgain, Enqueue, Shape
<1>4. ASSUME NEW t \in Submissions, t = s
      PROVE  Awaited(t)'
  BY <1>1, <1>3, <1>4 DEF Awaited
<1>5. \A t \in Submissions, k \in RetryNumbers : queue[t][k] > 0 => queue'[t][k] > 0
  BY <1>1 DEF SendAgain, Enqueue, Shape
<1>6. Evaluating(c)' => Evaluating(c)
  BY <1>2 DEF Evaluating
<1>7. QED
  BY <1>2, <1>4, <1>5, <1>6, SlotDelivers DEF SendAgain, rowVars

LEMMA FinishDelivers ==
    ASSUME Shape, Shape', Delivery, NEW c \in Slots, finish(c)
    PROVE  Delivery'
<1>1. call'[c] = IF call[c].phase = "returned" THEN Free
                 ELSE [call[c] EXCEPT !.handler = "idle"]
  BY DEF finish, Shape
<1>2. \A d \in Slots \ {c} : call'[d] = call[d]
  BY DEF finish, Shape
<1>3. ~Waits(c)
  BY DEF finish, Waits
<1>4. /\ Evaluating(c)' => Evaluating(c) /\ call'[c].submission = call[c].submission
      /\ call'[c].phase = "locking" => call[c].phase = "locking"
  BY <1>1 DEF Evaluating, Free, Shape, Call
<1>5. call[c].phase = "locking" => SlowSessions
  BY DEF finish, Delivery, LockingIsHandled
<1>6. QED
  BY <1>2, <1>3, <1>4, <1>5, SlotDelivers DEF finish, rowVars

\* What a call leaves behind when it ends.
LEMMA ReturnFacts ==
    ASSUME Shape, NEW c \in Slots, NEW retry \in BOOLEAN, Return(c, retry)
    PROVE  /\ call'[c].phase = "returned"
           /\ ~Evaluating(c)'
           /\ \A d \in Slots \ {c} : call'[d] = call[d]
           /\ call[c].handler = "processing" /\ retry
                => Waits(c)' /\ call'[c].submission = call[c].submission
<1>1. call[c] \in Call
  BY DEF Shape
<1>2. call'[c] = IF call[c].handler = "idle" THEN Free
                 ELSE [call[c] EXCEPT !.phase = "returned", !.snapshot = NoPrompt,
                                      !.retry = retry /\ call[c].handler = "processing"]
  BY DEF Return, Shape
<1>3. call'[c].phase = "returned"
  BY <1>1, <1>2 DEF Free, Call
<1>4. \A d \in Slots \ {c} : call'[d] = call[d]
  BY DEF Return, Shape
<1>5. ASSUME call[c].handler = "processing", retry
      PROVE  Waits(c)' /\ call'[c].submission = call[c].submission
  BY <1>1, <1>2, <1>5 DEF Waits, Call
<1>6. QED
  BY <1>3, <1>4, <1>5 DEF Evaluating

LEMMA ReturnDelivers ==
    ASSUME Shape, Shape', Delivery, NEW c \in Slots,
           lockBusy(c) \/ skip(c) \/ infrastructureFails(c)
    PROVE  Delivery'
<1>1. PICK retry \in BOOLEAN :
         /\ Return(c, retry)
         /\ retry \/ Terminal(call[c].submission)
  BY DEF lockBusy, skip, infrastructureFails
<1>2. /\ call'[c].phase = "returned"
      /\ ~Evaluating(c)'
      /\ \A d \in Slots \ {c} : call'[d] = call[d]
  BY <1>1, ReturnFacts
<1>3. UNCHANGED <<processing, quality, outbox, queue>>
  BY DEF lockBusy, skip, infrastructureFails, rowVars
<1>4. ASSUME NEW s \in Submissions, Waits(c), call[c].submission = s,
             processing[s] \in Unfinished
      PROVE  Awaited(s)'
  <2>1. ~Terminal(s)
    BY <1>4 DEF Delivery, StatusesAgree, Terminal, Unfinished
  <2>2. Waits(c)' /\ call'[c].submission = s
    BY <1>1, <1>4, <2>1, ReturnFacts DEF Waits
  <2>3. QED
    BY <2>2 DEF Awaited, Waits
<1>5. QED
  BY <1>2, <1>3, <1>4, SlotDelivers

LEMMA JudgeDelivers ==
    ASSUME Shape, Shape', Delivery, NEW c \in Slots, judge(c)
    PROVE  Delivery'
<1>1. /\ call'[c].phase = "committing"
      /\ call'[c].handler = call[c].handler
      /\ call'[c].submission = call[c].submission
      /\ \A d \in Slots \ {c} : call'[d] = call[d]
  BY DEF judge, Shape, Call
<1>2. Evaluating(c)
  BY DEF judge, Evaluating
<1>3. ASSUME NEW s \in Submissions, Waits(c), call[c].submission = s
      PROVE  Awaited(s)'
  BY <1>1, <1>3 DEF Awaited, Waits
<1>4. QED
  BY <1>1, <1>2, <1>3, SlotDelivers DEF judge, rowVars

\* The two rows of one task tell the same story.
Agree(s) ==
    /\ processing[s] = "completed" <=> quality[s].status = "judged"
    /\ processing[s] = "system_failed" => quality[s].status \in {"none", "system_failed"}
    /\ quality[s].status = "system_failed" => processing[s] = "system_failed"
    /\ processing[s] = "ai_processing" <=> quality[s].status = "running"
    /\ processing[s] = "stuck" => quality[s].status = "stuck"

\* A call changes the rows of its own task while no other evaluates it.
LEMMA RowDelivers ==
    ASSUME Shape, Shape', Delivery, NEW c \in Slots, NEW s \in Submissions,
           call[c].submission = s,
           UNCHANGED <<outbox, queue>>,
           \A d \in Slots \ {c} : call'[d] = call[d],
           \A t \in Submissions \ {s} :
             processing'[t] = processing[t] /\ quality'[t] = quality[t],
           Agree(s)',
           \A d \in Slots \ {c} : Evaluating(d) => call[d].submission # s,
           Evaluating(c)' => /\ call'[c].submission = s
                             /\ ~Terminal(s)'
                             /\ processing'[s] \in Unfinished,
           call'[c].phase # "locking",
           ~SlowSessions /\ processing'[s] \in Unfinished => Awaited(s)'
    PROVE  Delivery'
<1>1. StatusesAgree'
  BY DEF Delivery, StatusesAgree, Agree
<1>2. LockExcludes'
  BY DEF Delivery, LockExcludes, Evaluating
<1>3. ASSUME NEW d \in Slots, Evaluating(d)'
      PROVE  /\ ~Terminal(call[d].submission)'
             /\ processing'[call'[d].submission] \in Unfinished
  <2>1. CASE d = c
    BY <1>3, <2>1
  <2>2. CASE d # c
    <3>1. call'[d] = call[d] /\ Evaluating(d) /\ call[d].submission \in Submissions \ {s}
      BY <1>3, <2>2 DEF Evaluating, Shape, CallsHaveTasks
    <3>2. QED
      BY <3>1 DEF Delivery, EvaluatedIsOpen, Terminal
  <2>3. QED
    BY <2>1, <2>2
<1>4. EvaluatedIsOpen'
  BY <1>3 DEF EvaluatedIsOpen
<1>5. LockingIsHandled'
  BY DEF Delivery, LockingIsHandled
<1>6. ASSUME ~SlowSessions, NEW t \in Submissions, processing'[t] \in Unfinished
      PROVE  Awaited(t)'
  <2>1. CASE t = s
    BY <1>6, <2>1
  <2>2. CASE t # s
    <3>1. processing[t] \in Unfinished
      BY <1>6, <2>2
    <3>2. \A d \in Slots : Waits(d) /\ call[d].submission = t
                             => Waits(d)' /\ call'[d].submission = t
      BY <2>2 DEF Waits
    <3>3. QED
      BY <1>6, <3>1, <3>2, AwaitedFrame
  <2>3. QED
    BY <2>1, <2>2
<1>7. QED
  BY <1>1, <1>2, <1>4, <1>5, <1>6 DEF Delivery, UnfinishedIsAwaited, Shape

LEMMA NoOtherEvaluates ==
    ASSUME Shape, Delivery, NEW c \in Slots, NEW s \in Submissions,
           call[c].submission = s, Evaluating(c) \/ ~Locked(s)
    PROVE  \A d \in Slots \ {c} : Evaluating(d) => call[d].submission # s
BY DEF Delivery, LockExcludes, Locked, Evaluating

LEMMA BeginDelivers ==
    ASSUME Shape, Shape', Delivery, NEW c \in Slots, begin(c)
    PROVE  Delivery'
<1> DEFINE s == call[c].submission
<1>1. s \in Submissions /\ call[c] \in Call /\ quality[s] \in Quality
  BY DEF begin, Shape, CallsHaveTasks
<1>2. PICK v :
         /\ quality' = [quality EXCEPT ![s].status = "running", ![s].snapshot = v,
                                       ![s].attempts = MoreAttempts(@)]
         /\ call' = [call EXCEPT ![c].phase = "evaluating", ![c].snapshot = v]
  BY DEF begin
<1>3. /\ quality'[s].status = "running"
      /\ \A t \in Submissions \ {s} : quality'[t] = quality[t]
  BY <1>1, <1>2 DEF Shape, Quality
<1>4. /\ call'[c].phase = "evaluating"
      /\ call'[c].handler = call[c].handler
      /\ call'[c].submission = s
      /\ \A d \in Slots \ {c} : call'[d] = call[d]
  BY <1>1, <1>2 DEF Shape, Call
<1>5. /\ processing'[s] = "ai_processing"
      /\ \A t \in Submissions \ {s} : processing'[t] = processing[t]
  BY <1>1 DEF begin, Shape
<1>6. UNCHANGED <<outbox, queue>> /\ ~Locked(s) /\ call[c].phase = "locking"
  BY DEF begin
<1> HIDE DEF s
<1>7. ASSUME NEW t \in Submissions, t = s
      PROVE  Agree(t)' /\ ~Terminal(t)' /\ processing'[t] \in Unfinished
  BY <1>3, <1>5, <1>7 DEF Agree, Terminal, Unfinished
<1>8. ASSUME ~SlowSessions, NEW t \in Submissions, t = s
      PROVE  Awaited(t)'
  <2>1. call[c].handler = "processing"
    BY <1>6, <1>8 DEF Delivery, LockingIsHandled
  <2>2. QED
    BY <1>4, <1>8, <2>1 DEF Awaited
<1>9. QED
  <2>1. PICK t \in Submissions : t = s /\ call[c].submission = t
    BY <1>1 DEF s
  <2>2. \A d \in Slots \ {c} : Evaluating(d) => call[d].submission # t
    BY <1>6, <2>1, NoOtherEvaluates
  <2>3. QED
    BY <1>3, <1>4, <1>5, <1>6, <1>7, <1>8, <2>1, <2>2, RowDelivers

LEMMA CompleteDelivers ==
    ASSUME Shape, Shape', Delivery, NEW c \in Slots, complete(c)
    PROVE  Delivery'
<1>1. PICK s \in Submissions : s = call[c].submission
  BY DEF complete, Shape, CallsHaveTasks
<1>2. /\ quality'[s].status = "judged"
      /\ \A t \in Submissions \ {s} : quality'[t] = quality[t]
  BY <1>1 DEF complete, Shape, Quality
<1>3. /\ processing'[s] = "completed"
      /\ \A t \in Submissions \ {s} : processing'[t] = processing[t]
  BY <1>1 DEF complete, Shape
<1>4. /\ call'[c].phase = "returned"
      /\ ~Evaluating(c)'
      /\ \A d \in Slots \ {c} : call'[d] = call[d]
  BY ReturnFacts DEF complete
<1>5. \A d \in Slots \ {c} : Evaluating(d) => call[d].submission # s
  BY <1>1, NoOtherEvaluates DEF complete, Evaluating
<1>6. Agree(s)' /\ processing'[s] \notin Unfinished
  BY <1>2, <1>3 DEF Agree, Unfinished
<1>7. QED
  BY <1>1, <1>2, <1>3, <1>4, <1>5, <1>6, RowDelivers DEF complete

\* What a failure writes.
LEMMA MarkFacts ==
    ASSUME Shape, NEW s \in Submissions, NEW r, NEW p, Mark(s, r, p)
    PROVE  /\ processing'[s] = p
           /\ quality'[s].status \in {"none", r}
           /\ \A t \in Submissions \ {s} :
                processing'[t] = processing[t] /\ quality'[t] = quality[t]
<1>1. quality[s] \in Quality
  BY DEF Shape
<1>2. quality'[s] = [quality[s] EXCEPT !.status = IF quality[s].status = "none"
                                                   THEN quality[s].status ELSE r]
  BY <1>1 DEF Mark, Shape
<1>3. QED
  BY <1>1, <1>2 DEF Mark, Shape, Quality

\* A final failure of a task that no other call evaluates.
LEMMA FinalDelivers ==
    ASSUME Shape, Shape', Delivery, NEW c \in Slots, NEW s \in Submissions,
           call[c].submission = s, Evaluating(c) \/ ~Locked(s),
           markTerminalFailure(s), Return(c, FALSE), UNCHANGED <<outbox, queue>>
    PROVE  Delivery'
<1>1. /\ processing'[s] = "system_failed"
      /\ quality'[s].status \in {"none", "system_failed"}
      /\ \A t \in Submissions \ {s} : processing'[t] = processing[t] /\ quality'[t] = quality[t]
  BY MarkFacts DEF markTerminalFailure
<1>2. /\ call'[c].phase = "returned"
      /\ ~Evaluating(c)'
      /\ \A d \in Slots \ {c} : call'[d] = call[d]
  BY ReturnFacts
<1>3. \A d \in Slots \ {c} : Evaluating(d) => call[d].submission # s
  BY NoOtherEvaluates
<1>4. Agree(s)' /\ processing'[s] \notin Unfinished
  BY <1>1 DEF Agree, Unfinished
<1>5. QED
  BY <1>1, <1>2, <1>3, <1>4, RowDelivers

\* A failure that is not final leaves its task to the message to be sent again;
\* where its own handler is gone, something else awaits the task already.
LEMMA RetryDelivers ==
    ASSUME Shape, Shape', Delivery, NEW c \in Slots, NEW s \in Submissions,
           call[c].submission = s, Evaluating(c),
           markRetryPending(s), Return(c, TRUE), UNCHANGED <<outbox, queue>>
    PROVE  Delivery'
<1>1. /\ processing'[s] = "awaiting_ai"
      /\ quality'[s].status \in {"none", "queued"}
      /\ \A t \in Submissions \ {s} : processing'[t] = processing[t] /\ quality'[t] = quality[t]
  BY MarkFacts DEF markRetryPending
<1>2. /\ call'[c].phase = "returned"
      /\ ~Evaluating(c)'
      /\ \A d \in Slots \ {c} : call'[d] = call[d]
      /\ call[c].handler = "processing" => Waits(c)' /\ call'[c].submission = s
  BY ReturnFacts
<1>3. \A d \in Slots \ {c} : Evaluating(d) => call[d].submission # s
  BY NoOtherEvaluates
<1>4. Agree(s)'
  BY <1>1 DEF Agree
<1>5. ASSUME ~SlowSessions PROVE Awaited(s)'
  <2>1. CASE call[c].handler = "processing"
    BY <1>2, <2>1 DEF Awaited, Waits
  <2>2. CASE call[c].handler # "processing"
    <3>1. processing[s] \in Unfinished
      BY DEF Delivery, EvaluatedIsOpen
    <3>2. \A d \in Slots : Waits(d) /\ call[d].submission = s
                            => Waits(d)' /\ call'[d].submission = s
      BY <1>2, <2>2 DEF Waits
    <3>3. QED
      BY <1>5, <3>1, <3>2, AwaitedFrame
  <2>3. QED
    BY <2>1, <2>2
<1>6. QED
  BY <1>1, <1>2, <1>3, <1>4, <1>5, RowDelivers

LEMMA FailDelivers ==
    ASSUME Shape, Shape', Delivery, NEW c \in Slots, NEW failure \in Failures,
           beginFails(c, failure) \/ evaluationFails(c, failure)
    PROVE  Delivery'
<1>1. PICK s \in Submissions : s = call[c].submission
  BY DEF beginFails, evaluationFails, Shape, CallsHaveTasks
<1>2. UNCHANGED <<outbox, queue>> /\ (Evaluating(c) \/ ~Locked(s))
  BY <1>1 DEF beginFails, evaluationFails, Evaluating
<1>3. CASE Final(c, failure)
  <2>1. markTerminalFailure(s) /\ Return(c, FALSE)
    BY <1>1, <1>3 DEF beginFails, evaluationFails
  <2>2. QED
    BY <1>1, <1>2, <2>1, FinalDelivers
<1>4. CASE ~Final(c, failure) /\ evaluationFails(c, failure)
  <2>1. markRetryPending(s) /\ Return(c, TRUE) /\ Evaluating(c)
    BY <1>1, <1>4 DEF evaluationFails, Evaluating
  <2>2. QED
    BY <1>1, <1>2, <2>1, RetryDelivers
<1>5. CASE ~Final(c, failure) /\ beginFails(c, failure)
  <2>1. Return(c, TRUE) /\ UNCHANGED <<processing, quality, outbox, queue>>
    BY <1>5 DEF beginFails
  <2>2. /\ call'[c].phase = "returned"
        /\ ~Evaluating(c)'
        /\ \A d \in Slots \ {c} : call'[d] = call[d]
    BY <2>1, ReturnFacts
  <2>3. ASSUME NEW t \in Submissions, Waits(c), call[c].submission = t
        PROVE  Awaited(t)'
    BY <2>1, <2>3, ReturnFacts DEF Awaited, Waits
  <2>4. QED
    BY <2>1, <2>2, <2>3, SlotDelivers
<1>6. QED
  BY <1>3, <1>4, <1>5

\* A dying process gives its messages back.
LEMMA DiesDelivers ==
    ASSUME Shape, Shape', Delivery, NEW p \in Processes, processDies(p)
    PROVE  Delivery'
<1>1. \A d \in Slots : call'[d] = IF ProcessOf[d] = p THEN Free ELSE call[d]
  BY DEF processDies
<1>2. ASSUME NEW d \in Slots, call'[d].phase # "returned"
      PROVE  call'[d] = call[d]
  BY <1>1, <1>2 DEF Free
<1>3. UNCHANGED <<processing, quality, outbox>>
  BY DEF processDies, rowVars
<1>4. StatusesAgree' /\ LockExcludes' /\ EvaluatedIsOpen'
  BY <1>2, <1>3, EvaluatingFrame DEF Evaluating
<1>5. LockingIsHandled'
  BY <1>2 DEF Delivery, LockingIsHandled
<1>6. ASSUME NEW t \in Submissions, NEW n \in RetryNumbers
      PROVE  /\ Unacknowledged(p, t, n) \in Nat
             /\ queue'[t][n] = queue[t][n] + Unacknowledged(p, t, n)
             /\ queue[t][n] \in Nat
  <2>1. IsFiniteSet({c \in HeldBy(p) : call[c].submission = t /\ call[c].attempt = n})
    BY WorkerAssumption, FS_Subset DEF HeldBy
  <2>2. QED
    BY <2>1, FS_CardinalityType DEF Unacknowledged, processDies, Shape
<1>7. ASSUME ~SlowSessions, NEW t \in Submissions, processing'[t] \in Unfinished
      PROVE  Awaited(t)'
  <2>1. Awaited(t)
    BY <1>3, <1>7 DEF Delivery, UnfinishedIsAwaited
  <2>2. CASE outbox[t] = "pending"
    BY <1>3, <2>2 DEF Awaited
  <2>3. CASE \E n \in RetryNumbers : queue[t][n] > 0
    <3>1. PICK n \in RetryNumbers : queue[t][n] > 0
      BY <2>3
    <3>2. queue'[t][n] > 0
      BY <1>6, <3>1
    <3>3. QED
      BY <3>2 DEF Awaited
  <2>4. CASE \E d \in Slots : Waits(d) /\ call[d].submission = t
    <3>1. PICK d \in Slots : Waits(d) /\ call[d].submission = t
      BY <2>4
    <3>2. CASE ProcessOf[d] # p
      BY <1>1, <3>1, <3>2 DEF Awaited, Waits
    <3>3. CASE ProcessOf[d] = p
      <4> DEFINE n == call[d].attempt
                 held == {c \in HeldBy(p) : call[c].submission = t /\ call[c].attempt = n}
      <4>1. d \in held
        BY <3>1, <3>3 DEF HeldBy, Waits
      <4>2. IsFiniteSet(held)
        BY WorkerAssumption, FS_Subset DEF HeldBy
      <4>3. Cardinality(held) # 0
        BY <4>1, <4>2, FS_EmptySet
      <4>4. n \in RetryNumbers
        BY DEF Shape, Call
      <4>5. Unacknowledged(p, t, n) # 0
        BY <4>3 DEF Unacknowledged
      <4> HIDE DEF n, held
      <4>6. queue'[t][n] > 0
        BY <1>6, <4>4, <4>5
      <4>7. QED
        BY <4>4, <4>6 DEF Awaited
    <3>4. QED
      BY <3>2, <3>3
  <2>5. QED
    BY <2>1, <2>2, <2>3, <2>4 DEF Awaited, Waits
<1>8. QED
  BY <1>4, <1>5, <1>7 DEF Delivery, UnfinishedIsAwaited, Shape

LEMMA InitDelivers == Init => Delivery
<1> SUFFICES ASSUME Init PROVE Delivery
  OBVIOUS
<1>1. \A c \in Slots : call[c] = Free
  BY DEF Init
<1>2. StatusesAgree
  BY DEF Init, StatusesAgree, NoQuality
<1>3. CallsHaveTasks /\ LockExcludes /\ EvaluatedIsOpen /\ LockingIsHandled
  BY <1>1 DEF Free, CallsHaveTasks, LockExcludes, EvaluatedIsOpen, LockingIsHandled, Evaluating
<1>4. UnfinishedIsAwaited
  BY DEF Init, UnfinishedIsAwaited, Awaited
<1>5. QED
  BY <1>2, <1>3, <1>4 DEF Delivery

LEMMA StepDelivers ==
    ASSUME Shape, Shape', Delivery, [Next]_vars
    PROVE  Delivery'
<1>1. ASSUME NEW s \in Submissions, publish(s) \/ rerunAiQuality(s) PROVE Delivery'
  BY <1>1, PublishDelivers, RerunDelivers
<1>2. ASSUME NEW c \in Slots, Handler(c) PROVE Delivery'
  <2>1. CASE \E s \in Submissions, n \in RetryNumbers : take(c, s, n)
    BY <2>1, TakeDelivers
  <2>2. CASE resend(c)
    <3>1. call[c].handler = "processing" /\ call[c].phase # "locking" /\ SendAgain(c)
      BY <2>2 DEF resend
    <3>2. QED
      BY <3>1, SendAgainDelivers
  <2>3. CASE timesOut(c)
    BY <2>3, SendAgainDelivers DEF timesOut
  <2>4. CASE finish(c)
    BY <2>4, FinishDelivers
  <2>5. QED
    BY <1>2, <2>1, <2>2, <2>3, <2>4 DEF Handler
<1>3. ASSUME NEW c \in Slots, Process(c) PROVE Delivery'
  <2>1. CASE lockBusy(c) \/ skip(c) \/ infrastructureFails(c)
    BY <2>1, ReturnDelivers
  <2>2. CASE \E failure \in Failures : beginFails(c, failure) \/ evaluationFails(c, failure)
    BY <2>2, FailDelivers
  <2>3. CASE begin(c) \/ judge(c) \/ complete(c)
    BY <2>3, BeginDelivers, JudgeDelivers, CompleteDelivers
  <2>4. QED
    BY <1>3, <2>1, <2>2, <2>3 DEF Process
<1>4. ASSUME NEW p \in Processes, Worker(p) PROVE Delivery'
  <2>1. CASE processDies(p)
    BY <2>1, DiesDelivers
  <2>2. CASE processStarts(p) \/ \E s \in Submissions : runsLate(p, s)
    BY <2>2, SameTasks DEF processStarts, runsLate, rowVars, shapeVars
  <2>3. QED
    BY <1>4, <2>1, <2>2 DEF Worker
<1>5. CASE scan \/ UNCHANGED vars
  BY <1>5, SameTasks DEF scan, vars, rowVars, workVars, shapeVars
<1>6. CASE reclaimTimedOutTasks
  BY <1>6, ReclaimDelivers
<1>7. QED
  BY <1>1, <1>2, <1>3, <1>4, <1>5, <1>6 DEF Next

\* The invariant: the rows of a task agree, a lock has one holder, whose task
\* is open, and every unfinished task is awaited by its event, a queued message
\* or a handler that will send its message again.
THEOREM DeliveryCorrect == Spec => []Delivery
<1>1. Shape /\ Shape' /\ Delivery /\ [Next]_vars => Delivery'
  BY StepDelivers
<1>2. QED
  BY <1>1, InitDelivers, ShapeCorrect, PTL DEF Spec

----------------------------------------------------------------------------
(* What follows from it. *)

\* The submission's status and its quality row agree whoever wrote last: the
\* worker, its failure path, the reclaimer or an administrator's rerun.
THEOREM RowsAgree == Spec => []StatusesAgree
<1>1. Delivery => StatusesAgree
  BY DEF Delivery
<1>2. QED
  BY <1>1, DeliveryCorrect, PTL

\* Unless a call can time out while it still waits for its database session, a
\* task without a final result always has its event, a message or a handler.
THEOREM NeverForgotten ==
    ASSUME ~SlowSessions
    PROVE  Spec => []NothingForgotten
<1>1. Delivery => NothingForgotten
  BY DEF Delivery, UnfinishedIsAwaited, Awaited, NothingForgotten, OnItsWay
<1>2. QED
  BY <1>1, DeliveryCorrect, PTL

\* A result once reached is changed by nothing but a rerun, which queues the
\* task again: not by a duplicate message, an evaluation that outlived its
\* timeout, a late failure or the reclaimer.
THEOREM ResultStands == Spec => VerdictStands
<1> DEFINE Stands == \A s \in Submissions :
                        Terminal(s) /\ quality'[s] # quality[s]
                          => quality'[s].status = "queued" /\ outbox'[s] = "pending"
<1>1. ASSUME Shape, Delivery, [Next]_vars PROVE Stands
  <2>1. CASE UNCHANGED quality
    BY <2>1
  <2>2. ASSUME NEW s \in Submissions, rerunAiQuality(s) PROVE Stands
    <3>1. PICK v \in Prompts : quality' = [quality EXCEPT ![s] =
             IF quality[s].status = "none" THEN quality[s]
             ELSE [quality[s] EXCEPT !.status = "queued", !.snapshot = v, !.judgedBy = NoPrompt]]
      BY <2>2 DEF rerunAiQuality
    <3>2. outbox'[s] = "pending"
      BY <1>1, <2>2 DEF rerunAiQuality, Shape
    <3>3. Terminal(s) => quality'[s].status = "queued"
      BY <1>1, <3>1 DEF Terminal, Shape, Quality
    <3>4. \A t \in Submissions \ {s} : quality'[t] = quality[t]
      BY <1>1, <3>1 DEF Shape
    <3>5. QED
      BY <3>2, <3>3, <3>4
  <2>3. ASSUME NEW c \in Slots, Process(c) PROVE Stands
    <3>1. CASE lockBusy(c) \/ skip(c) \/ infrastructureFails(c) \/ judge(c)
      BY <2>1, <3>1 DEF lockBusy, skip, infrastructureFails, judge, rowVars
    <3>2. ASSUME NEW t \in Submissions, t # call[c].submission,
                 begin(c) \/ complete(c) \/ \E failure \in Failures :
                                beginFails(c, failure) \/ evaluationFails(c, failure)
          PROVE  quality'[t] = quality[t]
      BY <1>1, <3>2 DEF begin, complete, beginFails, evaluationFails, markTerminalFailure,
                  markRetryPending, Mark, Shape
    <3>3. CASE begin(c) \/ complete(c) \/ \E failure \in Failures :
                             beginFails(c, failure) \/ evaluationFails(c, failure)
      <4>1. ~Terminal(call[c].submission)
        BY <1>1, <3>3 DEF begin, complete, beginFails, evaluationFails,
                    Delivery, EvaluatedIsOpen, Evaluating
      <4>2. QED
        BY <3>2, <3>3, <4>1
    <3>4. QED
      BY <2>3, <3>1, <3>3 DEF Process
  <2>4. CASE reclaimTimedOutTasks
    <3>1. \A s \in Submissions : Terminal(s) => processing[s] # "ai_processing"
      BY <1>1 DEF Delivery, StatusesAgree, Terminal
    <3>2. \A s \in Submissions : Terminal(s) => quality'[s] = quality[s]
      BY <2>4, <3>1 DEF reclaimTimedOutTasks
    <3>3. QED
      BY <3>2
  <2>5. CASE UNCHANGED vars \/ scan \/ \E s \in Submissions : publish(s)
    BY <2>1, <2>5 DEF vars, scan, publish, rowVars
  <2>6. ASSUME NEW c \in Slots, Handler(c) PROVE Stands
    BY <2>1, <2>6 DEF Handler, take, resend, timesOut, SendAgain, finish, rowVars
  <2>7. ASSUME NEW p \in Processes, Worker(p) PROVE Stands
    BY <2>1, <2>7 DEF Worker, processDies, processStarts, runsLate, rowVars
  <2>8. QED
    BY <1>1, <2>2, <2>3, <2>4, <2>5, <2>6, <2>7 DEF Next
<1>2. Shape /\ Delivery /\ [Next]_vars => [Stands]_vars
  BY <1>1
<1>3. QED
  BY <1>2, ShapeCorrect, DeliveryCorrect, PTL DEF Spec, VerdictStands

----------------------------------------------------------------------------
(* The tasks as EvaluationDesk tells them *)

\* A row without an attempt has no prompt and no verdict, and an evaluation has a row
\* and a prompt.
RowPrompted(s) == /\ quality[s].status = "none" <=> quality[s].snapshot = NoPrompt
                  /\ quality[s].status = "none" => quality[s].judgedBy = NoPrompt
CallPrompted(c) == /\ call[c].snapshot \in Prompts
                   /\ quality[call[c].submission].status # "none"

Prompted == /\ \A s \in Submissions : RowPrompted(s)
            /\ \A c \in Slots : Evaluating(c) => CallPrompted(c)

LEMMA StayPrompted ==
    ASSUME Shape, Prompted,
           \A s \in Submissions : /\ RowPrompted(s)'
                                  /\ quality'[s].status = "none" => quality[s].status = "none",
           \A c \in Slots : Evaluating(c)' => \/ Evaluating(c) /\ call'[c] = call[c]
                                              \/ CallPrompted(c)'
    PROVE  Prompted'
<1>1. ASSUME NEW c \in Slots, Evaluating(c), call'[c] = call[c]
      PROVE  CallPrompted(c)'
  <2>1. call[c].submission \in Submissions /\ CallPrompted(c)
    BY <1>1 DEF Prompted, Evaluating, Shape, CallsHaveTasks
  <2>2. QED
    BY <1>1, <2>1 DEF CallPrompted
<1>2. QED
  BY <1>1 DEF Prompted

LEMMA EvaluatedBy ==
    ASSUME NEW calls, NEW s, NEW c \in Slots, Holding(calls[c], s),
           \A d \in Slots : Holding(calls[d], s) => d = c
    PROVE  Evaluated(calls, s) = calls[c].snapshot
<1>1. {d \in Slots : Holding(calls[d], s)} = {c}
  OBVIOUS
<1>2. QED
  BY <1>1 DEF Evaluated

LEMMA EvaluatedByNone ==
    ASSUME NEW calls, NEW s, \A d \in Slots : ~Holding(calls[d], s)
    PROVE  Evaluated(calls, s) = NoPrompt
<1>1. {d \in Slots : Holding(calls[d], s)} = {}
  OBVIOUS
<1>2. QED
  BY <1>1 DEF Evaluated

LEMMA EvaluatedAlike ==
    ASSUME NEW a, NEW b, NEW s,
           \A d \in Slots : /\ Holding(a[d], s) <=> Holding(b[d], s)
                            /\ Holding(a[d], s) => a[d].snapshot = b[d].snapshot
    PROVE  Evaluated(a, s) = Evaluated(b, s)
<1>1. {d \in Slots : Holding(a[d], s)} = {d \in Slots : Holding(b[d], s)}
  OBVIOUS
<1> DEFINE H == {d \in Slots : Holding(b[d], s)}
<1>2. CASE H = {}
  BY <1>1, <1>2 DEF Evaluated
<1>3. CASE H # {}
  <2>1. PICK c : c = CHOOSE h \in H : TRUE
    OBVIOUS
  <2>2. c \in H
    BY <1>3, <2>1
  <2>3. a[c].snapshot = b[c].snapshot
    BY <2>2
  <2>4. Evaluated(a, s) = a[c].snapshot
    BY <1>1, <1>3, <2>1 DEF Evaluated
  <2>5. Evaluated(b, s) = b[c].snapshot
    BY <1>3, <2>1 DEF Evaluated
  <2>6. QED
    BY <2>3, <2>4, <2>5
<1>4. QED
  BY <1>2, <1>3

\* The desks after a step of one call: the others lie as they were.
LEMMA OtherDesks ==
    ASSUME NEW c \in Slots, \A d \in Slots \ {c} : call'[d] = call[d],
           NEW t, ~Holding(call[c], t), ~Holding(call'[c], t)
    PROVE  Evaluated(call', t) = Evaluated(call, t)
<1>1. \A d \in Slots : /\ Holding(call'[d], t) <=> Holding(call[d], t)
                       /\ Holding(call'[d], t) => call'[d].snapshot = call[d].snapshot
  OBVIOUS
<1>2. QED
  BY <1>1, EvaluatedAlike

LEMMA HeldDesk ==
    ASSUME Delivery, Prompted, NEW c \in Slots, NEW s \in Submissions, Holding(call[c], s)
    PROVE  /\ Evaluated(call, s) = call[c].snapshot
           /\ Evaluated(call, s) # NoPrompt
           /\ \A d \in Slots : Holding(call[d], s) => d = c
<1>1. \A d \in Slots : Holding(call[d], s) => d = c
  BY DEF Delivery, LockExcludes, Holding, Evaluating
<1>2. Evaluated(call, s) = call[c].snapshot
  BY <1>1, EvaluatedBy
<1>3. call[c].snapshot # NoPrompt
  BY WorkerAssumption DEF Prompted, CallPrompted, Holding, Evaluating
<1>4. QED
  BY <1>1, <1>2, <1>3

\* A call that ends leaves its own desk empty and the others as they were.
LEMMA ReturnClears ==
    ASSUME Shape, Delivery, NEW c \in Slots, NEW s \in Submissions, call[c].submission = s,
           NEW retry \in BOOLEAN, Return(c, retry),
           Evaluating(c) \/ ~Locked(s)
    PROVE  \A t \in Submissions :
             Evaluated(call', t) = IF t = s THEN NoPrompt ELSE Evaluated(call, t)
<1>1. ~Evaluating(c)' /\ \A d \in Slots \ {c} : call'[d] = call[d]
  BY ReturnFacts
<1>2. \A d \in Slots \ {c} : ~Holding(call[d], s)
  BY NoOtherEvaluates DEF Holding, Evaluating
<1>3. \A t \in Submissions : ~Holding(call'[c], t)
  BY <1>1 DEF Holding, Evaluating
<1>4. ASSUME NEW t \in Submissions, t # s
      PROVE  Evaluated(call', t) = Evaluated(call, t)
  <2>1. ~Holding(call[c], t)
    BY <1>4 DEF Holding
  <2>2. QED
    BY <1>1, <1>3, <2>1, OtherDesks
<1>5. Evaluated(call', s) = NoPrompt
  <2>1. \A d \in Slots : ~Holding(call'[d], s)
    BY <1>1, <1>2, <1>3
  <2>2. QED
    BY <2>1, EvaluatedByNone
<1>6. QED
  BY <1>4, <1>5

LEMMA ReturnLeaves ==
    ASSUME Shape, NEW c \in Slots, NEW retry \in BOOLEAN, Return(c, retry), ~Evaluating(c)
    PROVE  \A t \in Submissions : Evaluated(call', t) = Evaluated(call, t)
<1>1. ~Evaluating(c)' /\ \A d \in Slots \ {c} : call'[d] = call[d]
  BY ReturnFacts
<1>2. \A t \in Submissions : ~Holding(call[c], t) /\ ~Holding(call'[c], t)
  BY <1>1 DEF Holding, Evaluating
<1>3. QED
  BY <1>1, <1>2, OtherDesks

----------------------------------------------------------------------------
\* A step that changes no row, no announcement and no desk.
LEMMA DeskStutters ==
    ASSUME UNCHANGED <<processing, quality, outbox>>,
           \A t \in Submissions : Evaluated(call', t) = Evaluated(call, t)
    PROVE  UNCHANGED Desk!vars
BY DEF Desk!vars

\* A handler's step: a call that is evaluating goes on, and none begins to.
LEMMA HandlerCalls ==
    ASSUME Shape, NEW c \in Slots, Handler(c), NEW d \in Slots
    PROVE  \/ ~Evaluating(d) /\ ~Evaluating(d)'
           \/ /\ call'[d].phase = call[d].phase
              /\ call'[d].submission = call[d].submission
              /\ call'[d].snapshot = call[d].snapshot
<1>1. d # c => call'[d] = call[d]
  BY DEF Handler, take, resend, timesOut, SendAgain, finish, Shape
<1>2. call[c] \in Call
  BY DEF Shape
<1>3. CASE \E s \in Submissions, n \in RetryNumbers : take(c, s, n)
  <2>1. PICK s \in Submissions, n \in RetryNumbers : take(c, s, n)
    BY <1>3
  <2>2. call'[c] = [Free EXCEPT !.handler = "processing", !.submission = s,
                                !.attempt = n, !.phase = "locking"]
    BY <2>1 DEF take, Shape
  <2>3. call'[c].phase = "locking"
    BY <2>2 DEF Free
  <2>4. call[c].phase = "returned"
    BY <2>1 DEF Free, take
  <2>5. QED
    BY <1>1, <2>3, <2>4 DEF Evaluating
<1>4. CASE resend(c) \/ timesOut(c)
  BY <1>1, <1>2, <1>4 DEF resend, timesOut, SendAgain, Shape, Call
<1>5. CASE finish(c)
  <2>1. call'[c] = IF call[c].phase = "returned" THEN Free
                   ELSE [call[c] EXCEPT !.handler = "idle"]
    BY <1>5 DEF finish, Shape
  <2>2. QED
    BY <1>1, <1>2, <2>1 DEF Free, Call, Evaluating
<1>6. QED
  BY <1>3, <1>4, <1>5 DEF Handler

LEMMA QuietCalls ==
    ASSUME Shape, NEW c \in Slots, lockBusy(c) \/ skip(c) \/ judge(c), NEW d \in Slots
    PROVE  /\ UNCHANGED quality
           /\ \/ ~Evaluating(d) /\ ~Evaluating(d)'
              \/ /\ Evaluating(d) /\ Evaluating(d)'
                 /\ call'[d].submission = call[d].submission
                 /\ call'[d].snapshot = call[d].snapshot
<1>1. UNCHANGED quality
  BY DEF lockBusy, skip, judge, rowVars
<1>2. CASE lockBusy(c) \/ skip(c)
  <2>1. ~Evaluating(c) /\ \E retry \in BOOLEAN : Return(c, retry)
    BY <1>2 DEF lockBusy, skip, Evaluating
  <2>2. ~Evaluating(c)' /\ (d # c => call'[d] = call[d])
    BY <2>1, ReturnFacts
  <2>3. QED
    BY <1>1, <2>1, <2>2 DEF Evaluating
<1>3. CASE judge(c)
  <2>1. /\ d # c => call'[d] = call[d]
        /\ call[c].phase = "evaluating" /\ call'[c].phase = "committing"
        /\ call'[c].submission = call[c].submission
        /\ call'[c].snapshot = call[c].snapshot
    BY <1>3 DEF judge, Shape, Call
  <2>2. QED
    BY <1>1, <2>1 DEF Evaluating
<1>4. QED
  BY <1>2, <1>3

\* Neither changes a desk.
LEMMA DesksStay ==
    ASSUME \A d \in Slots : \/ ~Evaluating(d) /\ ~Evaluating(d)'
                            \/ /\ Evaluating(d) <=> Evaluating(d)'
                               /\ call'[d].submission = call[d].submission
                               /\ call'[d].snapshot = call[d].snapshot
    PROVE  \A t \in Submissions : Evaluated(call', t) = Evaluated(call, t)
<1> SUFFICES ASSUME NEW t \in Submissions PROVE Evaluated(call', t) = Evaluated(call, t)
  OBVIOUS
<1>1. \A d \in Slots : /\ Holding(call'[d], t) <=> Holding(call[d], t)
                       /\ Holding(call'[d], t) => call'[d].snapshot = call[d].snapshot
  BY DEF Holding, Evaluating
<1>2. QED
  BY <1>1, EvaluatedAlike

LEMMA HandlerDesk ==
    ASSUME Shape, NEW c \in Slots, Handler(c)
    PROVE  UNCHANGED Desk!vars
<1>1. UNCHANGED <<processing, quality, outbox>>
  BY DEF Handler, take, resend, timesOut, SendAgain, finish, rowVars
<1>2. \A d \in Slots : \/ ~Evaluating(d) /\ ~Evaluating(d)'
                       \/ /\ Evaluating(d) <=> Evaluating(d)'
                          /\ call'[d].submission = call[d].submission
                          /\ call'[d].snapshot = call[d].snapshot
  BY HandlerCalls DEF Evaluating
<1>3. QED
  BY <1>1, <1>2, DesksStay, DeskStutters

LEMMA QuietDesk ==
    ASSUME Shape, NEW c \in Slots, lockBusy(c) \/ skip(c) \/ judge(c)
    PROVE  UNCHANGED Desk!vars
<1>1. UNCHANGED <<processing, quality, outbox>>
  BY DEF lockBusy, skip, judge, rowVars
<1>2. QED
  BY <1>1, QuietCalls, DesksStay, DeskStutters

LEMMA BeginsDesk ==
    ASSUME Shape, Shape', Delivery, Prompted, NEW c \in Slots, begin(c)
    PROVE  Desk!Next /\ Prompted'
<1>1. PICK s \in Submissions : s = call[c].submission
  BY DEF begin, Shape, CallsHaveTasks
<1>2. PICK v \in IF quality[s].status = "none" THEN Prompts ELSE {quality[s].snapshot} :
         /\ quality' = [quality EXCEPT ![s].status = "running", ![s].snapshot = v,
                                       ![s].attempts = MoreAttempts(@)]
         /\ call' = [call EXCEPT ![c].phase = "evaluating", ![c].snapshot = v]
  BY <1>1 DEF begin
<1>3. quality[s] \in Quality /\ call[c] \in Call
  BY DEF Shape
<1>4. v \in Prompts /\ quality[s].snapshot \in {NoPrompt, v} /\ v # NoPrompt
  BY <1>1, <1>2, <1>3, WorkerAssumption DEF Prompted, RowPrompted, Quality
<1>5. /\ quality'[s].status = "running" /\ quality'[s].snapshot = v
      /\ quality'[s].judgedBy = quality[s].judgedBy
      /\ \A t \in Submissions \ {s} : quality'[t] = quality[t]
  BY <1>2, <1>3 DEF Shape, Quality
<1>6. /\ call'[c].phase = "evaluating" /\ call'[c].submission = s /\ call'[c].snapshot = v
      /\ \A d \in Slots \ {c} : call'[d] = call[d]
  BY <1>1, <1>2, <1>3 DEF Shape, Call
<1>7. /\ processing' = [processing EXCEPT ![s] = "ai_processing"] /\ UNCHANGED outbox
      /\ ~Locked(s) /\ ~Terminal(s) /\ ~Evaluating(c)
  BY <1>1 DEF begin, Evaluating
<1>8. \A d \in Slots : ~Holding(call[d], s)
  BY <1>7 DEF Locked, Holding
<1>9. Evaluated(call, s) = NoPrompt
  BY <1>8, EvaluatedByNone
<1>10. Evaluated(call', s) = v
  <2>1. Holding(call'[c], s) /\ \A d \in Slots : Holding(call'[d], s) => d = c
    BY <1>6, <1>8 DEF Holding
  <2>2. QED
    BY <1>6, <2>1, EvaluatedBy
<1>11. ASSUME NEW t \in Submissions, t # s
       PROVE  Evaluated(call', t) = Evaluated(call, t)
  <2>1. ~Holding(call[c], t) /\ ~Holding(call'[c], t)
    BY <1>6, <1>7, <1>11 DEF Holding, Evaluating
  <2>2. QED
    BY <1>6, <2>1, OtherDesks
<1>12. [t \in Submissions |-> Evaluated(call', t)]
         = [[t \in Submissions |-> Evaluated(call, t)] EXCEPT ![s] = v]
  BY <1>10, <1>11
<1>13. [t \in Submissions |-> quality'[t].snapshot]
         = [[t \in Submissions |-> quality[t].snapshot] EXCEPT ![s] = v]
  BY <1>5
<1>14. [t \in Submissions |-> quality'[t].judgedBy] = [t \in Submissions |-> quality[t].judgedBy]
  BY <1>5
<1>15. ~Desk!Final(s)
  BY <1>7 DEF Desk!Final, Delivery, StatusesAgree, Terminal, Prompted, RowPrompted
<1>16. Desk!Begin(s, v)
  BY <1>4, <1>7, <1>9, <1>12, <1>13, <1>14, <1>15 DEF Desk!Begin
<1>17. Prompted'
  <2>1. \A t \in Submissions : /\ RowPrompted(t)'
                               /\ quality'[t].status = "none" => quality[t].status = "none"
    BY <1>4, <1>5 DEF Prompted, RowPrompted
  <2>2. CallPrompted(c)' /\ \A d \in Slots \ {c} : Evaluating(d)' => Evaluating(d)
    BY <1>4, <1>5, <1>6 DEF CallPrompted, Evaluating
  <2>3. QED
    BY <1>6, <2>1, <2>2, StayPrompted
<1>18. QED
  BY <1>4, <1>16, <1>17 DEF Desk!Next

LEMMA CompletesDesk ==
    ASSUME Shape, Shape', Delivery, Prompted, NEW c \in Slots, complete(c)
    PROVE  Desk!Next /\ Prompted'
<1>1. PICK s \in Submissions : s = call[c].submission
  BY DEF complete, Shape, CallsHaveTasks
<1>2. quality[s] \in Quality /\ Evaluating(c) /\ Holding(call[c], s)
  BY <1>1 DEF Shape, complete, Evaluating, Holding
<1>3. /\ quality'[s].status = "judged" /\ quality'[s].judgedBy = call[c].snapshot
      /\ quality'[s].snapshot = quality[s].snapshot
      /\ \A t \in Submissions \ {s} : quality'[t] = quality[t]
  BY <1>1, <1>2 DEF complete, Shape, Quality
<1>4. processing' = [processing EXCEPT ![s] = "completed"] /\ UNCHANGED outbox /\ Return(c, FALSE)
  BY <1>1 DEF complete
<1>5. Evaluated(call, s) = call[c].snapshot /\ Evaluated(call, s) # NoPrompt
  BY <1>2, HeldDesk
<1>6. \A t \in Submissions :
        Evaluated(call', t) = IF t = s THEN NoPrompt ELSE Evaluated(call, t)
  BY <1>1, <1>2, <1>4, ReturnClears
<1>7. [t \in Submissions |-> Evaluated(call', t)]
        = [[t \in Submissions |-> Evaluated(call, t)] EXCEPT ![s] = NoPrompt]
  BY <1>6
<1>8. [t \in Submissions |-> quality'[t].snapshot] = [t \in Submissions |-> quality[t].snapshot]
  BY <1>3
<1>9. [t \in Submissions |-> quality'[t].judgedBy]
        = [[t \in Submissions |-> quality[t].judgedBy] EXCEPT
              ![s] = [t \in Submissions |-> Evaluated(call, t)][s]]
  BY <1>3, <1>5
<1>10. Desk!Judge(s)
  BY <1>4, <1>5, <1>7, <1>8, <1>9 DEF Desk!Judge
<1>11. ~Evaluating(c)' /\ \A d \in Slots \ {c} : call'[d] = call[d]
  BY <1>4, ReturnFacts
<1>12. quality[s].status # "none"
  BY <1>1, <1>2 DEF Prompted, CallPrompted
<1>13. Prompted'
  <2>1. \A t \in Submissions : /\ RowPrompted(t)'
                               /\ quality'[t].status = "none" => quality[t].status = "none"
    BY <1>3, <1>12 DEF Prompted, RowPrompted
  <2>2. \A d \in Slots : Evaluating(d)' => Evaluating(d) /\ call'[d] = call[d]
    BY <1>11 DEF Evaluating
  <2>3. QED
    BY <2>1, <2>2, StayPrompted
<1>14. QED
  BY <1>10, <1>13 DEF Desk!Next

\* What a failure writes beside its status.
LEMMA MarkKeeps ==
    ASSUME Shape, NEW s \in Submissions, NEW r, NEW p, Mark(s, r, p), r # "none"
    PROVE  /\ processing' = [processing EXCEPT ![s] = p]
           /\ \A t \in Submissions :
                /\ quality'[t].snapshot = quality[t].snapshot
                /\ quality'[t].judgedBy = quality[t].judgedBy
                /\ quality'[t].status = "none" <=> quality[t].status = "none"
<1>1. quality[s] \in Quality
  BY DEF Shape
<1>2. quality'[s] = [quality[s] EXCEPT !.status = IF quality[s].status = "none"
                                                   THEN quality[s].status ELSE r]
  BY <1>1 DEF Mark, Shape
<1>3. \A t \in Submissions \ {s} : quality'[t] = quality[t]
  BY DEF Mark, Shape
<1>4. QED
  BY <1>1, <1>2, <1>3 DEF Mark, Quality

LEMMA FailsDesk ==
    ASSUME Shape, Shape', Delivery, Prompted, NEW c \in Slots, NEW failure \in Failures,
           beginFails(c, failure) \/ evaluationFails(c, failure)
    PROVE  [Desk!Next]_(Desk!vars) /\ Prompted'
<1>1. PICK s \in Submissions : s = call[c].submission
  BY DEF beginFails, evaluationFails, Shape, CallsHaveTasks
<1>2. UNCHANGED outbox /\ (Evaluating(c) \/ ~Locked(s))
  BY <1>1 DEF beginFails, evaluationFails, Evaluating
<1>3. ~Desk!Final(s)
  BY <1>1 DEF beginFails, evaluationFails, Delivery, EvaluatedIsOpen, Evaluating,
              StatusesAgree, Terminal, Unfinished, Prompted, RowPrompted, Desk!Final
<1>4. PICK retry \in BOOLEAN : Return(c, retry)
  BY DEF beginFails, evaluationFails
<1>5. ~Evaluating(c)' /\ \A d \in Slots \ {c} : call'[d] = call[d]
  BY <1>4, ReturnFacts
<1>6. \A t \in Submissions :
        Evaluated(call', t) = IF t = s THEN NoPrompt ELSE Evaluated(call, t)
  BY <1>1, <1>2, <1>4, ReturnClears
<1>7. [t \in Submissions |-> Evaluated(call', t)]
        = [[t \in Submissions |-> Evaluated(call, t)] EXCEPT ![s] = NoPrompt]
  BY <1>6
<1>8. ASSUME \A t \in Submissions :
                /\ quality'[t].snapshot = quality[t].snapshot
                /\ quality'[t].judgedBy = quality[t].judgedBy
                /\ quality'[t].status = "none" <=> quality[t].status = "none"
      PROVE  /\ Prompted'
             /\ [t \in Submissions |-> quality'[t].snapshot]
                  = [t \in Submissions |-> quality[t].snapshot]
             /\ [t \in Submissions |-> quality'[t].judgedBy]
                  = [t \in Submissions |-> quality[t].judgedBy]
  <2>1. \A t \in Submissions : /\ RowPrompted(t)'
                               /\ quality'[t].status = "none" => quality[t].status = "none"
    BY <1>8 DEF Prompted, RowPrompted
  <2>2. \A d \in Slots : Evaluating(d)' => Evaluating(d) /\ call'[d] = call[d]
    BY <1>5 DEF Evaluating
  <2>3. Prompted'
    BY <2>1, <2>2, StayPrompted
  <2>4. QED
    BY <1>8, <2>3
<1>9. CASE Final(c, failure)
  <2>1. markTerminalFailure(s)
    BY <1>1, <1>9 DEF beginFails, evaluationFails
  <2>2. /\ processing' = [processing EXCEPT ![s] = "system_failed"]
        /\ \A t \in Submissions :
              /\ quality'[t].snapshot = quality[t].snapshot
              /\ quality'[t].judgedBy = quality[t].judgedBy
              /\ quality'[t].status = "none" <=> quality[t].status = "none"
    BY <2>1, MarkKeeps DEF markTerminalFailure
  <2>3. Desk!Fail(s)
    BY <1>2, <1>3, <1>7, <1>8, <2>2 DEF Desk!Fail
  <2>4. QED
    BY <1>8, <2>2, <2>3 DEF Desk!Next
<1>10. CASE ~Final(c, failure) /\ evaluationFails(c, failure)
  <2>1. markRetryPending(s) /\ Holding(call[c], s)
    BY <1>1, <1>10 DEF evaluationFails, Holding
  <2>2. /\ processing' = [processing EXCEPT ![s] = "awaiting_ai"]
        /\ \A t \in Submissions :
              /\ quality'[t].snapshot = quality[t].snapshot
              /\ quality'[t].judgedBy = quality[t].judgedBy
              /\ quality'[t].status = "none" <=> quality[t].status = "none"
    BY <2>1, MarkKeeps DEF markRetryPending
  <2>3. Evaluated(call, s) # NoPrompt
    BY <2>1, HeldDesk
  <2>4. Desk!Return(s)
    BY <1>2, <1>7, <1>8, <2>2, <2>3 DEF Desk!Return
  <2>5. QED
    BY <1>8, <2>2, <2>4 DEF Desk!Next
<1>11. CASE ~Final(c, failure) /\ beginFails(c, failure)
  <2>1. UNCHANGED <<processing, quality, outbox>> /\ ~Evaluating(c)
    BY <1>11 DEF beginFails, Evaluating
  <2>2. UNCHANGED Desk!vars
    BY <1>4, <2>1, ReturnLeaves, DeskStutters
  <2>3. QED
    BY <1>8, <2>1, <2>2
<1>12. QED
  BY <1>9, <1>10, <1>11

\* Evaluations that stop: their desks are empty, the others as they were.
LEMMA Leaving ==
    ASSUME UNCHANGED <<processing, quality, outbox>>, NEW S \in SUBSET Submissions,
           \A t \in Submissions :
             Evaluated(call', t) = IF t \in S THEN NoPrompt ELSE Evaluated(call, t)
    PROVE  Desk!Next
<1>1. [t \in Submissions |-> Evaluated(call', t)]
        = [t \in Submissions |-> IF t \in S THEN NoPrompt
                                 ELSE [u \in Submissions |-> Evaluated(call, u)][t]]
  OBVIOUS
<1>2. Desk!Leave(S)
  BY <1>1 DEF Desk!Leave
<1>3. QED
  BY <1>2 DEF Desk!Next

LEMMA BreaksDesk ==
    ASSUME Shape, Shape', Delivery, Prompted, NEW c \in Slots, infrastructureFails(c)
    PROVE  [Desk!Next]_(Desk!vars) /\ Prompted'
<1>1. UNCHANGED <<processing, quality, outbox>> /\ Return(c, TRUE)
  BY DEF infrastructureFails, rowVars
<1>2. ~Evaluating(c)' /\ \A d \in Slots \ {c} : call'[d] = call[d]
  BY <1>1, ReturnFacts
<1>3. Prompted'
  BY <1>1, <1>2 DEF Prompted, RowPrompted, CallPrompted, Evaluating
<1>4. CASE ~Evaluating(c)
  BY <1>1, <1>3, <1>4, ReturnLeaves, DeskStutters
<1>5. CASE Evaluating(c)
  <2>1. PICK s \in Submissions : s = call[c].submission
    BY <1>5 DEF Evaluating, Shape, CallsHaveTasks
  <2>2. \A t \in Submissions :
          Evaluated(call', t) = IF t \in {s} THEN NoPrompt ELSE Evaluated(call, t)
    BY <1>1, <1>5, <2>1, ReturnClears
  <2>3. {s} \in SUBSET Submissions
    OBVIOUS
  <2>4. Desk!Next
    BY <1>1, <2>2, <2>3, Leaving
  <2>5. QED
    BY <1>3, <2>4
<1>6. QED
  BY <1>4, <1>5

LEMMA DiesDesk ==
    ASSUME Shape, Shape', Delivery, Prompted, NEW p \in Processes, processDies(p)
    PROVE  Desk!Next /\ Prompted'
<1>1. \A d \in Slots : call'[d] = IF ProcessOf[d] = p THEN Free ELSE call[d]
  BY DEF processDies
<1>2. UNCHANGED <<processing, quality, outbox>>
  BY DEF processDies, rowVars
<1>3. Free.phase = "returned"
  BY DEF Free
<1>4. Prompted'
  BY <1>1, <1>2, <1>3 DEF Prompted, RowPrompted, CallPrompted, Evaluating
<1> DEFINE S == {t \in Submissions : \E d \in Slots : ProcessOf[d] = p /\ Holding(call[d], t)}
<1>5. ASSUME NEW t \in Submissions, t \in S
      PROVE  Evaluated(call', t) = NoPrompt
  <2>1. PICK c \in Slots : ProcessOf[c] = p /\ Holding(call[c], t)
    BY <1>5
  <2>2. \A d \in Slots : Holding(call[d], t) => d = c
    BY <2>1, HeldDesk
  <2>3. \A d \in Slots : ~Holding(call'[d], t)
    BY <1>1, <1>3, <2>1, <2>2 DEF Holding
  <2>4. QED
    BY <2>3, EvaluatedByNone
<1>6. ASSUME NEW t \in Submissions, t \notin S
      PROVE  Evaluated(call', t) = Evaluated(call, t)
  <2>1. \A d \in Slots : ProcessOf[d] = p => ~Holding(call[d], t) /\ ~Holding(call'[d], t)
    BY <1>1, <1>3, <1>6 DEF Holding
  <2>2. \A d \in Slots : /\ Holding(call'[d], t) <=> Holding(call[d], t)
                         /\ Holding(call'[d], t) => call'[d].snapshot = call[d].snapshot
    BY <1>1, <2>1
  <2>3. QED
    BY <2>2, EvaluatedAlike
<1>7. S \in SUBSET Submissions
  OBVIOUS
<1> HIDE DEF S
<1>8. \A t \in Submissions :
        Evaluated(call', t) = IF t \in S THEN NoPrompt ELSE Evaluated(call, t)
  BY <1>5, <1>6
<1>9. Desk!Next
  BY <1>2, <1>7, <1>8, Leaving
<1>10. QED
  BY <1>4, <1>9

LEMMA ReclaimsDesk ==
    ASSUME Shape, Shape', Delivery, Prompted, reclaimTimedOutTasks
    PROVE  Desk!Next /\ Prompted'
<1> DEFINE S == {s \in Submissions : Requeued(s)}
           T == {s \in Submissions : Parked(s)}
<1>1. /\ processing' = [s \in Submissions |-> CASE Requeued(s) -> "awaiting_ai"
                                                [] Parked(s)   -> "stuck"
                                                [] OTHER       -> processing[s]]
      /\ outbox' = [s \in Submissions |-> IF Requeued(s) THEN "pending" ELSE outbox[s]]
      /\ UNCHANGED call
  BY DEF reclaimTimedOutTasks, workVars
<1>2. ASSUME NEW s \in Submissions
      PROVE  /\ quality'[s].snapshot = quality[s].snapshot
             /\ quality'[s].judgedBy = quality[s].judgedBy
             /\ quality'[s].status = "none" <=> quality[s].status = "none"
  <2>1. quality[s] \in Quality
    BY DEF Shape
  <2>2. quality'[s] = IF s \in candidates /\ processing[s] = "ai_processing"
                        THEN [quality[s] EXCEPT !.status = "stuck"] ELSE quality[s]
    BY DEF reclaimTimedOutTasks
  <2>3. processing[s] = "ai_processing" => quality[s].status # "none"
    BY DEF Delivery, StatusesAgree
  <2>4. QED
    BY <2>1, <2>2, <2>3 DEF Quality
<1>3. Prompted'
  <2>1. \A s \in Submissions : /\ RowPrompted(s)'
                               /\ quality'[s].status = "none" => quality[s].status = "none"
    BY <1>2 DEF Prompted, RowPrompted
  <2>2. \A d \in Slots : Evaluating(d)' => Evaluating(d) /\ call'[d] = call[d]
    BY <1>1 DEF Evaluating
  <2>3. QED
    BY <2>1, <2>2, StayPrompted
<1>4. \A s \in Submissions : ~(Requeued(s) /\ Parked(s))
  <2>1. \A s \in Submissions : quality[s].attempts \in Nat
    BY WorkerAssumption DEF Shape, Quality
  <2>2. QED
    BY <2>1, WorkerAssumption DEF Requeued, Parked
<1>5. processing' = [s \in Submissions |-> IF s \in S THEN "awaiting_ai"
                                           ELSE IF s \in T THEN "stuck" ELSE processing[s]]
  BY <1>1, <1>4
<1>6. {s \in Submissions : outbox'[s] = "pending"}
        = {s \in Submissions : outbox[s] = "pending"} \cup S
  BY <1>1
<1>7. /\ \A s \in S : processing[s] \in {"ai_processing", "stuck"}
      /\ \A s \in T : processing[s] = "ai_processing"
  BY DEF Requeued, Parked
<1>8. PICK X \in SUBSET Submissions : X = S
  OBVIOUS
<1>9. PICK Y \in SUBSET Submissions : Y = T
  OBVIOUS
<1> HIDE DEF S, T
<1>10. /\ [s \in Submissions |-> quality'[s].snapshot] = [s \in Submissions |-> quality[s].snapshot]
       /\ [s \in Submissions |-> quality'[s].judgedBy] = [s \in Submissions |-> quality[s].judgedBy]
  BY <1>2
<1>11. [s \in Submissions |-> Evaluated(call', s)] = [s \in Submissions |-> Evaluated(call, s)]
  BY <1>1
<1>12. Desk!PutBack(X, Y)
  BY <1>5, <1>6, <1>7, <1>8, <1>9, <1>10, <1>11 DEF Desk!PutBack
<1>13. QED
  BY <1>3, <1>12 DEF Desk!Next

LEMMA RerunsDesk ==
    ASSUME Shape, Shape', Prompted, NEW s \in Submissions, rerunAiQuality(s)
    PROVE  Desk!Next /\ Prompted'
<1>1. PICK v \in Prompts : quality' = [quality EXCEPT ![s] =
         IF quality[s].status = "none" THEN quality[s]
         ELSE [quality[s] EXCEPT !.status = "queued", !.snapshot = v, !.judgedBy = NoPrompt]]
  BY DEF rerunAiQuality
<1>2. quality[s] \in Quality
  BY DEF Shape
<1>3. \A t \in Submissions \ {s} : quality'[t] = quality[t]
  BY <1>1 DEF Shape
<1>4. IF quality[s].status = "none"
        THEN quality'[s] = quality[s]
        ELSE /\ quality'[s].status = "queued" /\ quality'[s].snapshot = v
             /\ quality'[s].judgedBy = NoPrompt
  BY <1>1, <1>2 DEF Shape, Quality
<1>5. /\ processing' = [processing EXCEPT ![s] = "awaiting_ai"]
      /\ outbox' = [outbox EXCEPT ![s] = "pending"]
      /\ UNCHANGED call
      /\ processing[s] # "ai_processing"
  BY DEF rerunAiQuality, workVars
<1>6. v # NoPrompt
  BY WorkerAssumption
<1>7. Prompted'
  <2>1. \A t \in Submissions : /\ RowPrompted(t)'
                               /\ quality'[t].status = "none" => quality[t].status = "none"
    BY <1>3, <1>4, <1>6 DEF Prompted, RowPrompted
  <2>2. \A d \in Slots : Evaluating(d)' => Evaluating(d) /\ call'[d] = call[d]
    BY <1>5 DEF Evaluating
  <2>3. QED
    BY <2>1, <2>2, StayPrompted
<1>8. RowPrompted(s)
  BY DEF Prompted
<1>9. [t \in Submissions |-> quality'[t].snapshot]
        = [[t \in Submissions |-> quality[t].snapshot] EXCEPT
              ![s] = IF [t \in Submissions |-> quality[t].snapshot][s] = NoPrompt
                       THEN NoPrompt ELSE v]
  BY <1>3, <1>4, <1>8 DEF RowPrompted
<1>10. [t \in Submissions |-> quality'[t].judgedBy]
         = [[t \in Submissions |-> quality[t].judgedBy] EXCEPT ![s] = NoPrompt]
  BY <1>3, <1>4, <1>8 DEF RowPrompted
<1>11. {t \in Submissions : outbox'[t] = "pending"}
         = {t \in Submissions : outbox[t] = "pending"} \cup {s}
  BY <1>5 DEF Shape
<1>12. [t \in Submissions |-> Evaluated(call', t)] = [t \in Submissions |-> Evaluated(call, t)]
  BY <1>5
<1>13. Desk!Ask(s, v)
  BY <1>5, <1>9, <1>10, <1>11, <1>12 DEF Desk!Ask
<1>14. QED
  BY <1>7, <1>13 DEF Desk!Next

LEMMA PublishesDesk ==
    ASSUME Shape, NEW s \in Submissions, publish(s)
    PROVE  [Desk!Next]_(Desk!vars)
<1>1. /\ UNCHANGED <<processing, quality, call>>
      /\ outbox[s] = "pending"
      /\ \E status \in {"published", "pending"} : outbox' = [outbox EXCEPT ![s] = status]
  BY DEF publish
<1>2. CASE outbox' = [outbox EXCEPT ![s] = "pending"]
  <2>1. UNCHANGED outbox
    BY <1>1, <1>2 DEF Shape
  <2>2. QED
    BY <1>1, <2>1, DeskStutters
<1>3. CASE outbox' = [outbox EXCEPT ![s] = "published"]
  <2>1. {t \in Submissions : outbox'[t] = "pending"}
          = {t \in Submissions : outbox[t] = "pending"} \ {s}
    BY <1>3 DEF Shape
  <2>2. Desk!Announce(s)
    BY <1>1, <2>1 DEF Desk!Announce
  <2>3. QED
    BY <2>2 DEF Desk!Next
<1>4. QED
  BY <1>1, <1>2, <1>3

\* Steps that leave the rows alone and start no evaluation.
LEMMA QuietPrompted ==
    ASSUME Shape, Prompted, UNCHANGED quality,
           \A c \in Slots : Evaluating(c)' => /\ Evaluating(c)
                                              /\ call'[c].submission = call[c].submission
                                              /\ call'[c].snapshot = call[c].snapshot
    PROVE  Prompted'
BY DEF Prompted, RowPrompted, CallPrompted

LEMMA StepDesk ==
    ASSUME Shape, Shape', Delivery, Prompted, [Next]_vars
    PROVE  [Desk!Next]_(Desk!vars) /\ Prompted'
<1>1. ASSUME NEW s \in Submissions, publish(s)
      PROVE  [Desk!Next]_(Desk!vars) /\ Prompted'
  BY <1>1, PublishesDesk, QuietPrompted DEF publish, Evaluating
<1>2. ASSUME NEW s \in Submissions, rerunAiQuality(s)
      PROVE  [Desk!Next]_(Desk!vars) /\ Prompted'
  BY <1>2, RerunsDesk
<1>3. ASSUME NEW c \in Slots, Handler(c)
      PROVE  [Desk!Next]_(Desk!vars) /\ Prompted'
  <2>1. UNCHANGED quality /\ UNCHANGED Desk!vars
    BY <1>3, HandlerDesk DEF Handler, take, resend, timesOut, SendAgain, finish, rowVars
  <2>2. \A d \in Slots : Evaluating(d)' => /\ Evaluating(d)
                                           /\ call'[d].submission = call[d].submission
                                           /\ call'[d].snapshot = call[d].snapshot
    BY <1>3, HandlerCalls DEF Evaluating
  <2>3. QED
    BY <2>1, <2>2, QuietPrompted
<1>4. ASSUME NEW c \in Slots, Process(c)
      PROVE  [Desk!Next]_(Desk!vars) /\ Prompted'
  <2>1. CASE lockBusy(c) \/ skip(c) \/ judge(c)
    BY <2>1, QuietDesk, QuietCalls, QuietPrompted
  <2>2. CASE begin(c) \/ complete(c) \/ infrastructureFails(c)
    BY <2>2, BeginsDesk, CompletesDesk, BreaksDesk
  <2>3. CASE \E failure \in Failures : beginFails(c, failure) \/ evaluationFails(c, failure)
    BY <2>3, FailsDesk
  <2>4. QED
    BY <1>4, <2>1, <2>2, <2>3 DEF Process
<1>5. ASSUME NEW p \in Processes, Worker(p)
      PROVE  [Desk!Next]_(Desk!vars) /\ Prompted'
  <2>1. CASE processDies(p)
    BY <2>1, DiesDesk
  <2>2. CASE processStarts(p) \/ \E s \in Submissions : runsLate(p, s)
    <3>1. UNCHANGED <<processing, quality, outbox, call>>
      BY <2>2 DEF processStarts, runsLate, rowVars
    <3>2. QED
      BY <3>1, DeskStutters, QuietPrompted DEF Evaluating
  <2>3. QED
    BY <1>5, <2>1, <2>2 DEF Worker
<1>6. CASE scan \/ UNCHANGED vars
  <2>1. UNCHANGED <<processing, quality, outbox, call>>
    BY <1>6 DEF scan, vars, rowVars, workVars
  <2>2. QED
    BY <2>1, DeskStutters, QuietPrompted DEF Evaluating
<1>7. CASE reclaimTimedOutTasks
  BY <1>7, ReclaimsDesk
<1>8. QED
  BY <1>1, <1>2, <1>3, <1>4, <1>5, <1>6, <1>7 DEF Next

LEMMA InitDesk == Init => Desk!Init /\ Prompted
<1> SUFFICES ASSUME Init PROVE Desk!Init /\ Prompted
  OBVIOUS
<1>1. \A c \in Slots : call[c].phase = "returned"
  BY DEF Init, Free
<1>2. \A s \in Submissions : /\ quality[s].status = "none"
                             /\ quality[s].snapshot = NoPrompt /\ quality[s].judgedBy = NoPrompt
  BY DEF Init, NoQuality
<1>3. Prompted
  BY <1>1, <1>2 DEF Prompted, RowPrompted, Evaluating
<1>4. \A s \in Submissions : Evaluated(call, s) = NoPrompt
  <2> SUFFICES ASSUME NEW s \in Submissions PROVE Evaluated(call, s) = NoPrompt
    OBVIOUS
  <2>1. \A c \in Slots : ~Holding(call[c], s)
    BY <1>1 DEF Holding
  <2>2. QED
    BY <2>1, EvaluatedByNone
<1>5. {s \in Submissions : outbox[s] = "pending"} = Submissions
  BY DEF Init
<1>6. processing = [s \in Submissions |-> "awaiting_ai"]
  BY DEF Init
<1>7. QED
  BY <1>2, <1>3, <1>4, <1>5, <1>6 DEF Desk!Init

\* Whatever is delivered twice, times out, dies or is reclaimed, a task is evaluated
\* once at a time, by the prompt it began with, and a result stands until a rerun. The
\* exception is the task that failed before its first row was written: nothing tells
\* a duplicate of its message from a first attempt.
THEOREM DeskKept == Spec => KeepsDesk
<1>1. Shape /\ Shape' /\ Delivery /\ Prompted /\ [Next]_vars
        => [Desk!Next]_(Desk!vars) /\ Prompted'
  BY StepDesk
<1>2. QED
  BY <1>1, InitDesk, ShapeCorrect, DeliveryCorrect, PTL DEF Spec, KeepsDesk, Desk!Spec

----------------------------------------------------------------------------
\* The desk is sound in terms of rows and calls.
LEMMA DeskOfRows ==
    /\ Desk!TypeOK <=>
         /\ processing \in [Submissions -> Desk!Statuses]
         /\ \A s \in Submissions :
             /\ quality[s].snapshot \in Prompts \cup {NoPrompt}
             /\ quality[s].judgedBy \in Prompts \cup {NoPrompt}
             /\ Evaluated(call, s) \in Prompts \cup {NoPrompt}
    /\ Desk!Sound <=>
         \A s \in Submissions :
             /\ processing[s] = "completed" <=> quality[s].judgedBy # NoPrompt
             /\ processing[s] \in {"completed", "system_failed"} => Evaluated(call, s) = NoPrompt
BY DEF Desk!TypeOK, Desk!Sound

LEMMA DeskOfRowsNext ==
    /\ Desk!TypeOK' <=>
         /\ processing' \in [Submissions -> Desk!Statuses]
         /\ \A s \in Submissions :
             /\ quality'[s].snapshot \in Prompts \cup {NoPrompt}
             /\ quality'[s].judgedBy \in Prompts \cup {NoPrompt}
             /\ Evaluated(call', s) \in Prompts \cup {NoPrompt}
    /\ Desk!Sound' <=>
         \A s \in Submissions :
             /\ processing'[s] = "completed" <=> quality'[s].judgedBy # NoPrompt
             /\ processing'[s] \in {"completed", "system_failed"} => Evaluated(call', s) = NoPrompt
BY DEF Desk!TypeOK, Desk!Sound

LEMMA DeskRows ==
    ASSUME NEW s \in Submissions, NEW v \in Prompts \cup {NoPrompt},
           \/ Desk!Announce(s) \/ Desk!Judge(s) \/ Desk!Return(s) \/ Desk!Fail(s)
           \/ Desk!Begin(s, v) \/ Desk!Ask(s, v)
    PROVE  /\ \A q \in Submissions \ {s} :
                /\ quality'[q].snapshot = quality[q].snapshot
                /\ quality'[q].judgedBy = quality[q].judgedBy
                /\ Evaluated(call', q) = Evaluated(call, q)
           /\ quality'[s].snapshot \in {quality[s].snapshot, v}
           /\ \/ /\ UNCHANGED processing
                 /\ quality'[s].judgedBy = quality[s].judgedBy
                 /\ Evaluated(call', s) = Evaluated(call, s)
              \/ /\ processing' = [processing EXCEPT ![s] = "ai_processing"]
                 /\ ~Desk!Final(s)
                 /\ quality'[s].judgedBy = quality[s].judgedBy
                 /\ Evaluated(call', s) = v
              \/ /\ processing' = [processing EXCEPT ![s] = "completed"]
                 /\ Evaluated(call, s) # NoPrompt
                 /\ quality'[s].judgedBy = Evaluated(call, s)
                 /\ Evaluated(call', s) = NoPrompt
              \/ /\ \/ /\ processing' = [processing EXCEPT ![s] = "awaiting_ai"]
                       /\ Evaluated(call, s) # NoPrompt
                    \/ /\ processing' = [processing EXCEPT ![s] = "system_failed"]
                       /\ ~Desk!Final(s)
                 /\ quality'[s].judgedBy = quality[s].judgedBy
                 /\ Evaluated(call', s) = NoPrompt
              \/ /\ processing' = [processing EXCEPT ![s] = "awaiting_ai"]
                 /\ quality'[s].judgedBy = NoPrompt
                 /\ Evaluated(call', s) = Evaluated(call, s)
<1>1. CASE Desk!Announce(s)
  BY <1>1 DEF Desk!Announce
<1>2. CASE Desk!Judge(s)
  BY <1>2 DEF Desk!Judge
<1>3. CASE Desk!Return(s)
  BY <1>3 DEF Desk!Return
<1>4. CASE Desk!Fail(s)
  BY <1>4 DEF Desk!Fail
<1>5. CASE Desk!Begin(s, v)
  BY <1>5 DEF Desk!Begin
<1>6. CASE Desk!Ask(s, v)
  BY <1>6 DEF Desk!Ask
<1>7. QED
  BY <1>1, <1>2, <1>3, <1>4, <1>5, <1>6

LEMMA DeskActionSound ==
    ASSUME Desk!TypeOK, Desk!Sound, NEW s \in Submissions, NEW v \in Prompts \cup {NoPrompt},
           \/ Desk!Announce(s) \/ Desk!Judge(s) \/ Desk!Return(s) \/ Desk!Fail(s)
           \/ Desk!Begin(s, v) \/ Desk!Ask(s, v)
    PROVE  Desk!TypeOK' /\ Desk!Sound'
<1> DEFINE Others == \A q \in Submissions \ {s} :
                         /\ quality'[q].snapshot = quality[q].snapshot
                         /\ quality'[q].judgedBy = quality[q].judgedBy
                         /\ Evaluated(call', q) = Evaluated(call, q)
           Marked(x) == processing' = [processing EXCEPT ![s] = x]
           SameVerdict == quality'[s].judgedBy = quality[s].judgedBy
           SameDesk == Evaluated(call', s) = Evaluated(call, s)
           Cleared == Evaluated(call', s) = NoPrompt
<1>1. /\ processing \in [Submissions -> Desk!Statuses]
      /\ \A q \in Submissions : /\ quality[q].snapshot \in Prompts \cup {NoPrompt}
                                /\ quality[q].judgedBy \in Prompts \cup {NoPrompt}
                                /\ Evaluated(call, q) \in Prompts \cup {NoPrompt}
  BY DeskOfRows
<1>2. \A q \in Submissions :
          /\ processing[q] = "completed" <=> quality[q].judgedBy # NoPrompt
          /\ processing[q] \in {"completed", "system_failed"} => Evaluated(call, q) = NoPrompt
  BY DeskOfRows
<1>3. Others /\ quality'[s].snapshot \in {quality[s].snapshot, v}
  BY DeskRows
<1>4. \/ UNCHANGED processing /\ SameVerdict /\ SameDesk
      \/ Marked("ai_processing") /\ ~Desk!Final(s) /\ SameVerdict /\ Evaluated(call', s) = v
      \/ /\ Marked("completed") /\ Evaluated(call, s) # NoPrompt
         /\ quality'[s].judgedBy = Evaluated(call, s) /\ Cleared
      \/ Marked("awaiting_ai") /\ Evaluated(call, s) # NoPrompt /\ SameVerdict /\ Cleared
      \/ Marked("system_failed") /\ ~Desk!Final(s) /\ SameVerdict /\ Cleared
      \/ Marked("awaiting_ai") /\ quality'[s].judgedBy = NoPrompt /\ SameDesk
  BY DeskRows
<1>5. ~Desk!Final(s) => processing[s] # "completed"
  BY DEF Desk!Final
<1>6. UNCHANGED processing \/ \E x \in Desk!Statuses : Marked(x)
  BY <1>4 DEF Desk!Statuses
<1>7. processing' \in [Submissions -> Desk!Statuses]
  BY <1>1, <1>6
<1>8. \A q \in Submissions \ {s} : processing'[q] = processing[q]
  BY <1>1, <1>6
<1>9. /\ quality'[s].snapshot \in Prompts \cup {NoPrompt}
      /\ quality'[s].judgedBy \in Prompts \cup {NoPrompt}
      /\ Evaluated(call', s) \in Prompts \cup {NoPrompt}
      /\ processing'[s] = "completed" <=> quality'[s].judgedBy # NoPrompt
      /\ processing'[s] \in {"completed", "system_failed"} => Cleared
  BY <1>1, <1>2, <1>3, <1>4, <1>5
<1>10. Desk!TypeOK'
  <2>1. \A q \in Submissions : /\ quality'[q].snapshot \in Prompts \cup {NoPrompt}
                               /\ quality'[q].judgedBy \in Prompts \cup {NoPrompt}
                               /\ Evaluated(call', q) \in Prompts \cup {NoPrompt}
    BY <1>1, <1>3, <1>9
  <2>2. QED
    BY <1>7, <2>1, DeskOfRowsNext
<1>11. Desk!Sound'
  <2>1. \A q \in Submissions :
          /\ processing'[q] = "completed" <=> quality'[q].judgedBy # NoPrompt
          /\ processing'[q] \in {"completed", "system_failed"} => Evaluated(call', q) = NoPrompt
    BY <1>2, <1>3, <1>8, <1>9
  <2>2. QED
    BY <2>1, DeskOfRowsNext
<1>12. QED
  BY <1>10, <1>11

LEMMA DeskStep ==
    ASSUME Desk!TypeOK, Desk!Sound, [Desk!Next]_(Desk!vars)
    PROVE  Desk!TypeOK' /\ Desk!Sound'
<1> USE DEF Desk!TypeOK, Desk!Sound, Desk!Statuses
<1>1. CASE UNCHANGED Desk!vars
  BY <1>1 DEF Desk!vars
<1>2. ASSUME NEW S \in SUBSET Submissions, Desk!Leave(S) PROVE Desk!TypeOK' /\ Desk!Sound'
  <2>1. UNCHANGED <<processing, [s \in Submissions |-> quality[s].snapshot],
                    [s \in Submissions |-> quality[s].judgedBy]>>
    BY <1>2 DEF Desk!Leave
  <2>2. \A s \in Submissions : Evaluated(call', s) = IF s \in S THEN NoPrompt
                                                     ELSE Evaluated(call, s)
    <3> SUFFICES ASSUME NEW s \in Submissions
                 PROVE  Evaluated(call', s) = IF s \in S THEN NoPrompt ELSE Evaluated(call, s)
      OBVIOUS
    <3>1. [q \in Submissions |-> Evaluated(call, q)]'[s]
            = [q \in Submissions |-> IF q \in S THEN NoPrompt
                                     ELSE [p \in Submissions |-> Evaluated(call, p)][q]][s]
      BY <1>2 DEF Desk!Leave
    <3>2. QED
      BY <3>1
  <2>3. QED
    BY <2>1, <2>2
<1>3. ASSUME NEW S \in SUBSET Submissions, NEW T \in SUBSET Submissions, Desk!PutBack(S, T)
      PROVE  Desk!TypeOK' /\ Desk!Sound'
  BY <1>3 DEF Desk!PutBack
<1>4. QED
  <2> HIDE DEF Desk!TypeOK, Desk!Sound, Desk!Statuses
  <2>1. ASSUME NEW s \in Submissions, NEW v \in Prompts \cup {NoPrompt},
               \/ Desk!Announce(s) \/ Desk!Judge(s) \/ Desk!Return(s) \/ Desk!Fail(s)
               \/ Desk!Begin(s, v) \/ Desk!Ask(s, v)
        PROVE  Desk!TypeOK' /\ Desk!Sound'
    BY <2>1, DeskActionSound
  <2>2. ASSUME Desk!Next PROVE Desk!TypeOK' /\ Desk!Sound'
    BY <1>2, <1>3, <2>1, <2>2 DEF Desk!Next
  <2>3. QED
    BY <1>1, <2>2

LEMMA DeskSound == KeepsDesk => [](Desk!TypeOK /\ Desk!Sound)
<1>1. Desk!Init => Desk!TypeOK /\ Desk!Sound
  BY DEF Desk!Init, Desk!TypeOK, Desk!Sound, Desk!Statuses
<1>2. Desk!TypeOK /\ Desk!Sound /\ [Desk!Next]_(Desk!vars) => (Desk!TypeOK /\ Desk!Sound)'
  BY DeskStep
<1>3. QED
  BY <1>1, <1>2, PTL DEF KeepsDesk, Desk!Spec

\* A task is completed if and only if its row has a verdict, and a call that evaluates
\* a task never finds it completed or failed under it.
THEOREM DeskIsSound == Spec => []Desk!Sound
BY DeskKept, DeskSound, PTL
=============================================================================
