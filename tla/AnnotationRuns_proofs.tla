----------------------- MODULE AnnotationRuns_proofs -----------------------
(***************************************************************************)
(* What holds of a submission, its video and its annotation runs for any   *)
(* number of requests, handlers, runs, retries and failures.               *)
(***************************************************************************)
EXTENDS AnnotationRuns, TLAPS

----------------------------------------------------------------------------
(* Messages *)

LEMMA AddedIsABag ==
    ASSUME NEW Q, IsABag(Q), NEW m
    PROVE  /\ IsABag(Q (+) SetToBag({m}))
           /\ BagToSet(Q (+) SetToBag({m})) = BagToSet(Q) \cup {m}
BY DEF IsABag, SetToBag, (+), BagToSet

LEMMA RemovedIsABag ==
    ASSUME NEW Q, IsABag(Q), NEW m
    PROVE  /\ IsABag(Q (-) SetToBag({m}))
           /\ BagToSet(Q (-) SetToBag({m})) \subseteq BagToSet(Q)
           /\ BagToSet(Q) \subseteq BagToSet(Q (-) SetToBag({m})) \cup {m}
<1>1. IsABag(Q (-) SetToBag({m})) /\ BagToSet(Q (-) SetToBag({m})) \subseteq BagToSet(Q)
  BY DEF IsABag, SetToBag, (-), BagToSet
<1>2. ASSUME NEW k \in BagToSet(Q), k # m PROVE k \in BagToSet(Q (-) SetToBag({m}))
  BY <1>2 DEF IsABag, SetToBag, (-), BagToSet
<1>3. QED
  BY <1>1, <1>2

LEMMA EmptyQueue == IsABag(EmptyBag) /\ BagToSet(EmptyBag) = {}
BY DEF IsABag, EmptyBag, SetToBag, BagToSet

BagOf(Q, S) == IsABag(Q) /\ BagToSet(Q) \subseteq S

LEMMA AddedBagOf ==
    ASSUME NEW Q, NEW S, BagOf(Q, S), NEW m \in S
    PROVE  BagOf(Q (+) SetToBag({m}), S)
<1>1. /\ IsABag(Q (+) SetToBag({m}))
      /\ BagToSet(Q (+) SetToBag({m})) = BagToSet(Q) \cup {m}
  BY AddedIsABag DEF BagOf
<1>2. QED
  BY <1>1 DEF BagOf

LEMMA RemovedBagOf ==
    ASSUME NEW Q, NEW S, BagOf(Q, S), NEW m
    PROVE  BagOf(Q (-) SetToBag({m}), S)
BY RemovedIsABag DEF BagOf

----------------------------------------------------------------------------
(* Types *)

RowsOK ==
    /\ upload \in {"uploading", "completing", "uploaded", "aborted"}
    /\ storage \in {"available", "delete_pending", "deleted", "removed"}
    /\ mode \in {"none", "objects", "submission"}
    /\ keys \in BOOLEAN
    /\ processing \in Processing
    /\ metadata \in BOOLEAN
StoreOK ==
    /\ multipart \in {"open", "completed", "aborted"}
    /\ original \in Sizes \cup {"none"}
OperatorsOK == op \in [Operators -> Operation \cup {NoOperation}]
ProbesOK ==
    /\ probeEvent \in BOOLEAN
    /\ BagOf(probeQueue, 0..RetryDelays)
    /\ probe \in [Probes -> Probe \cup {NoProbe}]
RunsOK ==
    /\ run \in [Runs -> Run]
    /\ runEvents \subseteq Runs
    /\ BagOf(runQueue, RunMessages)
    /\ attempt \in [Workers -> Attempt \cup {NoAttempt}]

Typed == /\ RowsOK /\ StoreOK /\ OperatorsOK /\ ProbesOK /\ RunsOK
         /\ disturbances \in Nat

LEMMA TypedIsTypeOK == Typed => TypeOK
BY DEF Typed, RowsOK, StoreOK, OperatorsOK, ProbesOK, RunsOK, BagOf, TypeOK

LEMMA DisturbancesOK ==
    ASSUME disturbances \in Nat, Fault \/ Steady
    PROVE  /\ disturbances' \in Nat /\ disturbances' >= disturbances
           /\ Fault => disturbances' = disturbances + 1
BY DEF Fault, Steady

LEMMA BusyOperator ==
    ASSUME OperatorsOK, NEW o \in Operators, op[o].kind # "none"
    PROVE  op[o] \in Operation
BY DEF OperatorsOK, NoOperation

LEMMA BusyProbe ==
    ASSUME ProbesOK, NEW h \in Probes, probe[h] # NoProbe
    PROVE  probe[h] \in Probe
BY DEF ProbesOK

LEMMA BeginOK ==
    ASSUME OperatorsOK, NEW o \in Operators, NEW x \in Operation, Begin(o, x)
    PROVE  OperatorsOK'
BY DEF OperatorsOK, Begin

LEMMA EndOK ==
    ASSUME OperatorsOK, NEW o \in Operators, End(o)
    PROVE  OperatorsOK'
BY DEF OperatorsOK, End

LEMMA CompletionIsOperation == \A k \in {"complete", "reconcile"} : Completion(k) \in Operation
BY DEF Completion, Operation

LEMMA ProcessPendingOK ==
    ASSUME OperatorsOK, NEW o \in Operators, NEW ks \in BOOLEAN, ProcessPending(o, ks)
    PROVE  OperatorsOK'
<1>1. [kind |-> "delete", step |-> "store", found |-> "none", keys |-> ks,
       upload |-> upload \in {"uploading", "completing"}] \in Operation
  BY DEF Operation
<1>2. QED
  BY <1>1, BeginOK DEF ProcessPending

LEMMA CommitsOK ==
    ASSUME OperatorsOK, NEW o \in Operators, op[o] \in Operation,
           op' = [op EXCEPT ![o].step = "commit"]
    PROVE  OperatorsOK'
<1>1. [op[o] EXCEPT !.step = "commit"] \in Operation
  BY DEF Operation
<1>2. op' = [op EXCEPT ![o] = [op[o] EXCEPT !.step = "commit"]]
  OBVIOUS
<1>3. QED
  BY <1>1, <1>2 DEF OperatorsOK

LEMMA FoundOK ==
    ASSUME OperatorsOK, NEW o \in Operators, op[o] \in Operation, NEW f \in Sizes,
           op' = [op EXCEPT ![o].step = "commit", ![o].found = f]
    PROVE  OperatorsOK'
<1>1. [op[o] EXCEPT !.step = "commit", !.found = f] \in Operation
  BY DEF Operation
<1>2. op' = [op EXCEPT ![o] = [op[o] EXCEPT !.step = "commit", !.found = f]]
  BY DEF OperatorsOK
<1>3. QED
  BY <1>1, <1>2 DEF OperatorsOK

LEMMA ProbeFrame ==
    ASSUME ProbesOK, UNCHANGED probeVars
    PROVE  ProbesOK'
BY DEF ProbesOK, probeVars, BagOf

LEMMA RunFrame ==
    ASSUME RunsOK, NoRunChanges
    PROVE  RunsOK'
BY DEF RunsOK, NoRunChanges, annotationVars, BagOf

\* The requests and the reconciliations.
LEMMA OperatorTyped ==
    ASSUME Typed, NEW o \in Operators, Operator(o)
    PROVE  RowsOK' /\ StoreOK' /\ OperatorsOK' /\ ProbesOK' /\ disturbances' \in Nat
<1> RowsOK /\ StoreOK /\ OperatorsOK /\ ProbesOK /\ disturbances \in Nat
  BY DEF Typed
<1>1. ASSUME completeUpload(o) \/ reconcileCompletion(o)
      PROVE  RowsOK' /\ StoreOK' /\ OperatorsOK' /\ ProbesOK' /\ disturbances' \in Nat
  <2>1. OperatorsOK'
    BY <1>1, BeginOK, CompletionIsOperation DEF completeUpload, reconcileCompletion
  <2>2. ProbesOK'
    BY <1>1, ProbeFrame DEF completeUpload, reconcileCompletion
  <2>3. QED
    BY <1>1, <2>1, <2>2 DEF completeUpload, reconcileCompletion, RowsOK, StoreOK, storeVars,
                            rowVars
<1>2. ASSUME ensureMultipartObject(o) \/ completionFails(o)
      PROVE  RowsOK' /\ StoreOK' /\ OperatorsOK' /\ ProbesOK' /\ disturbances' \in Nat
  <2>1. op[o] \in Operation
    BY <1>2, BusyOperator DEF ensureMultipartObject, completionFails, AtStore
  <2>2. StoreOK'
    BY <1>2 DEF ensureMultipartObject, completionFails, StoreOK, storeVars
  <2>3. \/ End(o)
        \/ original' \in Sizes /\ op' = [op EXCEPT ![o].step = "commit", ![o].found = original']
    BY <1>2, <2>2 DEF ensureMultipartObject, completionFails, StoreOK
  <2>4. OperatorsOK'
    BY <2>1, <2>3, FoundOK, EndOK
  <2>5. RowsOK' /\ ProbesOK'
    BY <1>2, ProbeFrame DEF ensureMultipartObject, completionFails, RowsOK, rowVars
  <2>6. disturbances' \in Nat
    BY <1>2, DisturbancesOK DEF ensureMultipartObject, completionFails
  <2>7. QED
    BY <2>2, <2>4, <2>5, <2>6
<1>3. ASSUME commitCompletion(o)
      PROVE  RowsOK' /\ StoreOK' /\ OperatorsOK' /\ ProbesOK' /\ disturbances' \in Nat
  <2>1. OperatorsOK'
    BY <1>3, EndOK DEF commitCompletion
  <2>2. RowsOK'
    BY <1>3 DEF commitCompletion, RowsOK, Processing
  <2>3. ProbesOK'
    BY <1>3 DEF commitCompletion, ProbesOK
  <2>4. QED
    BY <1>3, <2>1, <2>2, <2>3 DEF commitCompletion, StoreOK, storeVars
<1>4. ASSUME abortUpload(o) \/ deleteObjects(o) \/ deleteSubmission(o) \/ reconcileDeletion(o)
      PROVE  RowsOK' /\ StoreOK' /\ OperatorsOK' /\ ProbesOK' /\ disturbances' \in Nat
  <2>1. OperatorsOK'
    BY <1>4, ProcessPendingOK DEF abortUpload, deleteObjects, deleteSubmission,
         reconcileDeletion, RowsOK, Uploaded
  <2>2. RowsOK'
    BY <1>4 DEF abortUpload, deleteObjects, deleteSubmission, reconcileDeletion, RowsOK,
         rowVars, Mark, Uploaded
  <2>3. ProbesOK'
    BY <1>4, ProbeFrame DEF abortUpload, deleteObjects, deleteSubmission, reconcileDeletion
  <2>4. QED
    BY <1>4, <2>1, <2>2, <2>3 DEF abortUpload, deleteObjects, deleteSubmission,
         reconcileDeletion, StoreOK, storeVars
<1>5. ASSUME deleteFiles(o) \/ deletionFails(o) \/ operatorDies(o)
      PROVE  RowsOK' /\ StoreOK' /\ OperatorsOK' /\ ProbesOK' /\ disturbances' \in Nat
  <2>1. OperatorsOK'
    BY <1>5, EndOK, CommitsOK, BusyOperator DEF deleteFiles, deletionFails, operatorDies, AtStore
  <2>2. StoreOK'
    BY <1>5 DEF deleteFiles, deletionFails, operatorDies, StoreOK, storeVars
  <2>3. RowsOK' /\ ProbesOK'
    BY <1>5, ProbeFrame DEF deleteFiles, deletionFails, operatorDies, RowsOK, rowVars
  <2>4. disturbances' \in Nat
    BY <1>5, DisturbancesOK DEF deleteFiles, deletionFails, operatorDies, Steady
  <2>5. QED
    BY <2>1, <2>2, <2>3, <2>4
<1>6. QED
  BY <1>1, <1>2, <1>3, <1>4, <1>5 DEF Operator

LEMMA CommitDeletionTyped ==
    ASSUME Typed, NEW o \in Operators, commitDeletion(o)
    PROVE  RowsOK' /\ StoreOK' /\ OperatorsOK' /\ ProbesOK' /\ disturbances' \in Nat
<1> RowsOK /\ StoreOK /\ OperatorsOK /\ ProbesOK /\ disturbances \in Nat
  BY DEF Typed
<1>1. OperatorsOK'
  BY EndOK DEF commitDeletion
<1>2. RowsOK'
  BY DEF commitDeletion, RowsOK, rowVars, Processing
<1>3. ProbesOK'
  BY DEF commitDeletion, ProbesOK
<1>4. QED
  BY <1>1, <1>2, <1>3 DEF commitDeletion, StoreOK, storeVars

\* The messages of the probe and their handlers.
LEMMA LaterIsRetry == \A n \in 0..RetryDelays : Later(n) \in 0..RetryDelays
BY SubmissionAssumption DEF Later

LEMMA ProbeTyped ==
    ASSUME Typed,
           \/ \E h \in Probes : Prober(h)
           \/ \E n \in BagToSet(probeQueue) : skipProbe(n) \/ waitForLock(n)
           \/ publishProbe \/ reclaimProbe \/ judge \/ rerunAiQuality
    PROVE  RowsOK' /\ StoreOK' /\ OperatorsOK' /\ ProbesOK' /\ disturbances' \in Nat
<1> DEFINE Result == RowsOK' /\ StoreOK' /\ OperatorsOK' /\ ProbesOK' /\ disturbances' \in Nat
           Queue(Q) == BagOf(Q, 0..RetryDelays)
<1> RowsOK /\ StoreOK /\ OperatorsOK /\ ProbesOK /\ disturbances \in Nat
  BY DEF Typed
<1> Queue(probeQueue) /\ BagToSet(probeQueue) \subseteq 0..RetryDelays
  BY DEF ProbesOK, BagOf
<1>1. ASSUME NEW n PROVE Queue(Without(n))
  BY RemovedBagOf DEF Without
<1>2. ASSUME NEW n \in 0..RetryDelays PROVE Queue(With(n))
  BY AddedBagOf DEF With
<1>3. ASSUME NEW n, NEW k \in 0..RetryDelays PROVE Queue(Without(n) (+) SetToBag({k}))
  <2>1. Queue(Without(n))
    BY <1>1
  <2> HIDE DEF Queue
  <2>2. BagOf(Without(n), 0..RetryDelays)
    BY <2>1 DEF Queue
  <2>3. QED
    BY <2>2, AddedBagOf DEF Queue
<1> HIDE DEF Queue
<1>4. ASSUME UNCHANGED rowVars \/ (processing' \in Processing /\ metadata' \in BOOLEAN
                                     /\ UNCHANGED <<upload, storage, mode, keys>>),
             UNCHANGED storeVars, UNCHANGED op, Fault \/ Steady,
             probeEvent' \in BOOLEAN, Queue(probeQueue'), probe' \in [Probes -> Probe \cup {NoProbe}]
      PROVE  Result
  <2>1. RowsOK'
    BY <1>4 DEF RowsOK, rowVars
  <2>2. StoreOK' /\ OperatorsOK'
    BY <1>4 DEF StoreOK, OperatorsOK, storeVars
  <2>3. disturbances' \in Nat
    BY <1>4, DisturbancesOK
  <2>4. ProbesOK'
    BY <1>4 DEF ProbesOK, Queue
  <2>5. QED
    BY <2>1, <2>2, <2>3, <2>4
<1> probeEvent \in BOOLEAN /\ probe \in [Probes -> Probe \cup {NoProbe}]
  BY DEF ProbesOK
<1> processing \in Processing /\ metadata \in BOOLEAN
  BY DEF RowsOK
<1> HIDE DEF Result
<1>5. ASSUME NEW n \in BagToSet(probeQueue), skipProbe(n) \/ waitForLock(n) PROVE Result
  <2>1. Queue(probeQueue')
    BY <1>1, <1>3, <1>5, LaterIsRetry DEF skipProbe, waitForLock
  <2>2. QED
    BY <1>4, <1>5, <2>1 DEF skipProbe, waitForLock, Steady
<1>6. ASSUME publishProbe PROVE Result
  <2>1. 0 \in 0..RetryDelays
    BY SubmissionAssumption
  <2>2. Queue(probeQueue')
    BY <1>2, <1>6, <2>1 DEF publishProbe, With
  <2>3. /\ UNCHANGED rowVars /\ UNCHANGED storeVars /\ UNCHANGED op /\ UNCHANGED probe
        /\ Fault \/ Steady
    BY <1>6 DEF publishProbe
  <2>4. probeEvent' \in BOOLEAN
    BY <1>6 DEF publishProbe
  <2>5. QED
    BY <1>4, <2>2, <2>3, <2>4
<1>7. ASSUME reclaimProbe \/ judge \/ rerunAiQuality PROVE Result
  <2>1. /\ UNCHANGED storeVars /\ UNCHANGED op /\ UNCHANGED probe /\ UNCHANGED probeQueue
        /\ UNCHANGED <<upload, storage, mode, keys>>
    BY <1>7 DEF reclaimProbe, judge, rerunAiQuality, probeVars
  <2>2. processing' \in Processing /\ UNCHANGED metadata
    BY <1>7 DEF reclaimProbe, judge, rerunAiQuality, Processing
  <2>3. Fault \/ Steady
    BY <1>7 DEF reclaimProbe, judge, rerunAiQuality, Steady
  <2>4. probeEvent' \in BOOLEAN
    BY <1>7 DEF reclaimProbe, judge, rerunAiQuality, probeVars
  <2>5. Queue(probeQueue')
    BY <2>1
  <2>6. QED
    BY <1>4, <2>1, <2>2, <2>3, <2>4, <2>5
<1>8. ASSUME NEW h \in Probes, NEW n \in BagToSet(probeQueue), claimSubmission(h, n) PROVE Result
  <2>1. [retry |-> n, step |-> "analyzing", connected |-> TRUE, locked |-> TRUE] \in Probe
    BY DEF Probe
  <2>2. probe' \in [Probes -> Probe \cup {NoProbe}]
    BY <1>8, <2>1 DEF claimSubmission
  <2>3. QED
    BY <1>1, <1>4, <1>8, <2>2 DEF claimSubmission, Steady, Processing
<1>9. ASSUME NEW h \in Probes, analyze(h) PROVE Result
  <2>1. probe[h] \in Probe
    BY <1>9, BusyProbe DEF analyze, Analyzing, NoProbe
  <2>2. [probe[h] EXCEPT !.step = "analyzed"] \in Probe
    BY <2>1 DEF Probe
  <2>3. probe' = [probe EXCEPT ![h] = [probe[h] EXCEPT !.step = "analyzed"]]
    BY <1>9 DEF analyze
  <2>4. QED
    BY <1>4, <1>9, <2>2, <2>3 DEF analyze, Steady
<1>10. ASSUME NEW h \in Probes, probeLosesChannel(h) \/ probeLosesSession(h) PROVE Result
  <2>1. probe[h] \in Probe /\ probe[h].retry \in 0..RetryDelays
    BY <1>10, BusyProbe DEF probeLosesChannel, probeLosesSession, Probe
  <2>2. /\ [probe[h] EXCEPT !.connected = FALSE] \in Probe
        /\ [probe[h] EXCEPT !.locked = FALSE] \in Probe
    BY <2>1 DEF Probe
  <2>3. \/ probe' = [probe EXCEPT ![h] = [probe[h] EXCEPT !.connected = FALSE]]
        \/ probe' = [probe EXCEPT ![h] = [probe[h] EXCEPT !.locked = FALSE]]
    BY <1>10 DEF probeLosesChannel, probeLosesSession
  <2>4. Queue(probeQueue')
    BY <1>2, <1>10, <2>1 DEF probeLosesChannel, probeLosesSession
  <2>5. QED
    BY <1>4, <1>10, <2>2, <2>3, <2>4 DEF probeLosesChannel, probeLosesSession
<1>11. ASSUME NEW h \in Probes, failProbe(h) \/ probeUnrecorded(h) \/ probeDies(h) PROVE Result
  <2>1. probe[h] \in Probe /\ probe[h].retry \in 0..RetryDelays
    BY <1>11, BusyProbe DEF failProbe, probeUnrecorded, probeDies, Probe
  <2>2. Later(probe[h].retry) \in 0..RetryDelays
    BY <2>1, LaterIsRetry
  <2>3. probe[h].retry < RetryDelays => probe[h].retry + 1 \in 0..RetryDelays
    BY <2>1, SubmissionAssumption
  <2>4. Queue(probeQueue')
    BY <1>2, <1>11, <2>1, <2>2, <2>3 DEF failProbe, probeUnrecorded, probeDies
  <2>5. probe' \in [Probes -> Probe \cup {NoProbe}]
    BY <1>11 DEF failProbe, probeUnrecorded, probeDies
  <2>6. Fault \/ Steady
    BY <1>11 DEF failProbe, probeUnrecorded, probeDies
  <2>7. UNCHANGED rowVars \/ (processing' \in Processing /\ metadata' \in BOOLEAN
                               /\ UNCHANGED <<upload, storage, mode, keys>>)
    BY <1>11 DEF failProbe, probeUnrecorded, probeDies, Processing
  <2>8. UNCHANGED storeVars /\ UNCHANGED op /\ probeEvent' \in BOOLEAN
    BY <1>11 DEF failProbe, probeUnrecorded, probeDies
  <2>9. QED
    BY <1>4, <2>4, <2>5, <2>6, <2>7, <2>8
<1>12. Result
  BY <1>5, <1>6, <1>7, <1>8, <1>9, <1>10, <1>11 DEF Prober
<1>13. QED
  BY <1>12 DEF Result

LEMMA CommitProbeTyped ==
    ASSUME Typed, NEW h \in Probes, commitProbe(h)
    PROVE  RowsOK' /\ StoreOK' /\ OperatorsOK' /\ ProbesOK' /\ disturbances' \in Nat
<1> RowsOK /\ StoreOK /\ OperatorsOK /\ ProbesOK /\ disturbances \in Nat
  BY DEF Typed
<1>1. RowsOK'
  BY DEF commitProbe, RowsOK, Processing
<1>2. ProbesOK'
  BY DEF commitProbe, ProbesOK
<1>3. QED
  BY <1>1, <1>2 DEF commitProbe, StoreOK, OperatorsOK, storeVars

\* The runs, their messages and attempts.
LEMMA ExecutionOK ==
    ASSUME run \in [Runs -> Run], NEW r \in Runs, NEW x \in Executions
    PROVE  [run EXCEPT ![r].execution = x] \in [Runs -> Run]
<1>1. [run[r] EXCEPT !.execution = x] \in Run
  BY DEF Run
<1>2. QED
  BY <1>1

LEMMA ResultOK ==
    ASSUME run \in [Runs -> Run], NEW r \in Runs, NEW x \in Results
    PROVE  [run EXCEPT ![r].result = x] \in [Runs -> Run]
<1>1. [run[r] EXCEPT !.result = x] \in Run
  BY DEF Run
<1>2. QED
  BY <1>1

LEMMA SucceededOK ==
    ASSUME run \in [Runs -> Run], NEW r \in Runs, NEW x \in Results
    PROVE  [run EXCEPT ![r].execution = "succeeded", ![r].result = x] \in [Runs -> Run]
<1>1. [run[r] EXCEPT !.execution = "succeeded", !.result = x] \in Run
  BY DEF Run, Executions
<1>2. [run EXCEPT ![r].execution = "succeeded", ![r].result = x]
        = [run EXCEPT ![r] = [run[r] EXCEPT !.execution = "succeeded", !.result = x]]
  OBVIOUS
<1>3. QED
  BY <1>1, <1>2

LEMMA SupersedingOK ==
    ASSUME run \in [Runs -> Run], NEW r \in Runs, NEW x \in Results
    PROVE  Superseding(r, x) \in [Runs -> Run]
<1>1. [run[r] EXCEPT !.execution = "succeeded", !.result = x] \in Run
  BY DEF Run, Executions
<1>2. \A q \in Runs : [run[q] EXCEPT !.result = "withdrawn"] \in Run
  BY DEF Run, Results
<1>3. QED
  BY <1>1, <1>2 DEF Superseding

LEMMA CountedOK ==
    ASSUME run \in [Runs -> Run], NEW r \in Runs
    PROVE  [run EXCEPT ![r].full = @ + 1] \in [Runs -> Run]
<1>1. [run[r] EXCEPT !.full = @ + 1] \in Run
  BY DEF Run
<1>2. QED
  BY <1>1

LEMMA AttemptedOK ==
    ASSUME run \in [Runs -> Run], NEW r \in Runs
    PROVE  [run EXCEPT ![r].execution = "running",
                       ![r].attempts = IF @ < MaxAttempts THEN @ + 1 ELSE @] \in [Runs -> Run]
<1>1. run[r].attempts \in 0..MaxAttempts
  BY DEF Run
<1>2. (IF run[r].attempts < MaxAttempts THEN run[r].attempts + 1 ELSE run[r].attempts)
        \in 0..MaxAttempts
  BY <1>1, RunAssumption
<1> DEFINE n == IF run[r].attempts < MaxAttempts THEN run[r].attempts + 1 ELSE run[r].attempts
<1>3. [run EXCEPT ![r].execution = "running",
                  ![r].attempts = IF @ < MaxAttempts THEN @ + 1 ELSE @]
        = [run EXCEPT ![r] = [run[r] EXCEPT !.execution = "running", !.attempts = n]]
  OBVIOUS
<1>4. n \in 0..MaxAttempts
  BY <1>2
<1> HIDE DEF n
<1>5. [run[r] EXCEPT !.execution = "running", !.attempts = n] \in Run
  BY <1>4 DEF Run, Executions
<1>6. QED
  BY <1>3, <1>5

LEMMA BusyWorker ==
    ASSUME RunsOK, NEW w \in Workers, attempt[w] # NoAttempt
    PROVE  attempt[w] \in Attempt /\ attempt[w].run \in Runs
BY DEF RunsOK, Attempt

LEMMA WorkerAt ==
    ASSUME RunsOK, NEW w \in Workers, NEW phase, phase # "idle", At(w, phase)
    PROVE  attempt[w] # NoAttempt /\ attempt[w] \in Attempt /\ attempt[w].run \in Runs
BY BusyWorker DEF At, NoAttempt

AttemptsOK == attempt \in [Workers -> Attempt \cup {NoAttempt}]

LEMMA ReleaseOK ==
    ASSUME RunsOK, NEW w \in Workers, Release(w)
    PROVE  AttemptsOK'
BY DEF RunsOK, AttemptsOK, Release

LEMMA PhaseOK ==
    ASSUME RunsOK, NEW w \in Workers, attempt[w] \in Attempt,
           NEW phase \in {"calling", "completing", "failing"},
           attempt' = [attempt EXCEPT ![w].phase = phase]
    PROVE  AttemptsOK'
<1>1. [attempt[w] EXCEPT !.phase = phase] \in Attempt
  BY DEF Attempt
<1>2. QED
  BY <1>1 DEF RunsOK, AttemptsOK

LEMMA FailsOK ==
    ASSUME RunsOK, NEW w \in Workers, attempt[w] \in Attempt,
           NEW cause \in {"none", "retryable", "invalid", "terminal"}, Fails(w, cause)
    PROVE  AttemptsOK'
<1>1. [attempt[w] EXCEPT !.phase = "failing", !.cause = cause] \in Attempt
  BY DEF Attempt
<1>2. attempt' = [attempt EXCEPT ![w] = [attempt[w] EXCEPT !.phase = "failing", !.cause = cause]]
  BY DEF RunsOK, Fails
<1>3. QED
  BY <1>1, <1>2 DEF RunsOK, AttemptsOK

RunQueueOK == BagOf(runQueue, RunMessages)

LEMMA GoneOK ==
    ASSUME RunsOK, NEW m
    PROVE  BagOf(Gone(m), RunMessages)
BY RemovedBagOf DEF RunsOK, Gone

LEMMA MessageOK ==
    ASSUME NEW r \in Runs, NEW n \in 0..RetryDelays
    PROVE  Message(r, n) \in RunMessages
BY DEF Message, RunMessages

LEMMA HandedOK ==
    ASSUME RunsOK, NEW r \in Runs, NEW n \in 0..RetryDelays
    PROVE  BagOf(runQueue (+) SetToBag({Message(r, n)}), RunMessages)
BY AddedBagOf, MessageOK DEF RunsOK

LEMMA NextNumber == \A n \in 0..RetryDelays : n < RetryDelays => n + 1 \in 0..RetryDelays
BY SubmissionAssumption

LEMMA ResentOK ==
    ASSUME RunsOK, NEW m \in RunMessages
    PROVE  BagOf(Resent(m), RunMessages)
<1>1. BagOf(Gone(m), RunMessages)
  BY GoneOK
<1>2. m.run \in Runs /\ m.retry \in 0..RetryDelays
  BY DEF RunMessages
<1>3. CASE m.retry < RetryDelays
  <2>1. Message(m.run, m.retry + 1) \in RunMessages
    BY <1>2, <1>3, NextNumber, MessageOK
  <2>2. QED
    BY <1>1, <1>3, <2>1, AddedBagOf DEF Resent
<1>4. CASE ~(m.retry < RetryDelays)
  BY <1>1, <1>4 DEF Resent
<1>5. QED
  BY <1>3, <1>4

LEMMA HandOnOK ==
    ASSUME RunsOK, NEW w \in Workers, attempt[w] \in Attempt, NEW again, HandOn(w, again)
    PROVE  RunQueueOK'
<1>1. attempt[w].run \in Runs /\ attempt[w].retry \in 0..RetryDelays
  BY DEF Attempt
<1>2. CASE UNCHANGED runQueue
  BY <1>2 DEF RunsOK, RunQueueOK
<1>3. CASE /\ attempt[w].retry < RetryDelays
           /\ runQueue' = runQueue (+) SetToBag({Message(attempt[w].run, attempt[w].retry + 1)})
  BY <1>1, <1>3, NextNumber, HandedOK DEF RunQueueOK
<1>4. QED
  BY <1>2, <1>3 DEF HandOn

LEMMA TakenBackOK ==
    ASSUME RunsOK, NEW w \in Workers, attempt[w] \in Attempt, TakenBack(w)
    PROVE  RunQueueOK'
<1>1. attempt[w].run \in Runs /\ attempt[w].retry \in 0..RetryDelays
  BY DEF Attempt
<1>2. CASE UNCHANGED runQueue
  BY <1>2 DEF RunsOK, RunQueueOK
<1>3. CASE runQueue' = runQueue (+) SetToBag({Message(attempt[w].run, attempt[w].retry)})
  BY <1>1, <1>3, HandedOK DEF RunQueueOK
<1>4. QED
  BY <1>2, <1>3 DEF TakenBack

LEMMA DeliveredIsMessage ==
    ASSUME RunsOK, NEW m, Delivered(m)
    PROVE  m \in RunMessages /\ m.run \in Runs /\ m.retry \in 0..RetryDelays
           /\ m \in BagToSet(runQueue)
<1>1. m \in BagToSet(runQueue) /\ m \in RunMessages
  BY DEF Delivered, BagIn, RunsOK, BagOf
<1>2. QED
  BY <1>1 DEF RunMessages

LEMMA RunsTyped ==
    ASSUME Typed, run' \in [Runs -> Run], runEvents' \subseteq Runs, RunQueueOK', AttemptsOK',
           OnlyRunsChange, Fault \/ Steady
    PROVE  Typed'
<1>1. RunsOK'
  BY DEF RunsOK, RunQueueOK, AttemptsOK
<1>2. disturbances' \in Nat
  BY DisturbancesOK DEF Typed
<1>3. QED
  BY <1>1, <1>2, ProbeFrame DEF Typed, RowsOK, StoreOK, OperatorsOK, OnlyRunsChange, rowVars, storeVars

LEMMA RunStepTyped ==
    ASSUME Typed, RunStep
    PROVE  Typed'
<1> RunsOK /\ RunQueueOK /\ AttemptsOK /\ run \in [Runs -> Run] /\ runEvents \subseteq Runs
  BY DEF Typed, RunsOK, RunQueueOK, AttemptsOK
<1> /\ \A x \in {"queued", "running", "retry_scheduled", "stuck", "system_failed"} : x \in Executions
    /\ "pending" \in Results /\ "formal" \in Results /\ "withdrawn" \in Results
    /\ Published \subseteq Results
  BY DEF Executions, Results, Published
<1>1. ASSUME NEW r \in Runs, publishRun(r) PROVE Typed'
  <2>1. 0 \in 0..RetryDelays
    BY SubmissionAssumption
  <2>2. RunQueueOK'
    BY <1>1, <2>1, HandedOK DEF publishRun, RunQueueOK
  <2>3. QED
    BY <1>1, <2>2, RunsTyped DEF publishRun, AttemptsOK
<1>2. ASSUME NEW r \in Runs, reclaim(r) \/ createNewVersion(r) \/ retry(r) PROVE Typed'
  <2>1. run' \in [Runs -> Run]
    BY <1>2, ExecutionOK DEF reclaim, createNewVersion, retry, Queued
  <2>2. runEvents' \subseteq Runs
    BY <1>2 DEF reclaim, createNewVersion, retry, Enqueue
  <2>3. UNCHANGED runQueue /\ UNCHANGED attempt /\ OnlyRunsChange /\ (Fault \/ Steady)
    BY <1>2 DEF reclaim, createNewVersion, retry
  <2>4. QED
    BY <2>1, <2>2, <2>3, RunsTyped DEF RunQueueOK, AttemptsOK
<1>3. ASSUME NEW r \in Runs, discard(r) \/ review(r) PROVE Typed'
  <2>1. run' = [run EXCEPT ![r].result = "withdrawn"] \/ run' = Superseding(r, "formal")
    BY <1>3 DEF discard, review, Accepting
  <2>2. run' \in [Runs -> Run]
    BY <2>1, ResultOK, SupersedingOK
  <2>3. /\ UNCHANGED runEvents /\ UNCHANGED runQueue /\ UNCHANGED attempt
        /\ OnlyRunsChange /\ (Fault \/ Steady)
    BY <1>3 DEF discard, review
  <2>4. QED
    BY <2>2, <2>3, RunsTyped DEF RunQueueOK, AttemptsOK
<1>4. ASSUME NEW m, Delivery(m) PROVE Typed'
  <2>1. Delivered(m)
    BY <1>4 DEF Delivery, dropBusy, skipRun, markFullBudgetExhausted, rejectRun, deliveryFails
  <2>2. m \in RunMessages /\ m.run \in Runs
    BY <2>1, DeliveredIsMessage
  <2>3. RunQueueOK'
    BY <1>4, <2>2, GoneOK, ResentOK DEF Delivery, dropBusy, skipRun, markFullBudgetExhausted,
         rejectRun, deliveryFails, RunQueueOK
  <2>4. run' \in [Runs -> Run]
    BY <1>4, <2>2, ExecutionOK DEF Delivery, dropBusy, skipRun, markFullBudgetExhausted,
         rejectRun, deliveryFails
  <2>5. UNCHANGED runEvents /\ UNCHANGED attempt /\ OnlyRunsChange /\ (Fault \/ Steady)
    BY <1>4 DEF Delivery, dropBusy, skipRun, markFullBudgetExhausted, rejectRun, deliveryFails
  <2>6. QED
    BY <2>3, <2>4, <2>5, RunsTyped DEF AttemptsOK
<1>5. ASSUME NEW w \in Workers, NEW m, begin(w, m) PROVE Typed'
  <2>1. m.run \in Runs /\ m.retry \in 0..RetryDelays
    BY <1>5, DeliveredIsMessage DEF begin
  <2>2. run' \in [Runs -> Run]
    BY <1>5, <2>1, AttemptedOK DEF begin
  <2>3. [run |-> m.run, retry |-> m.retry, phase |-> "calling",
         cause |-> "none", message |-> "held", locked |-> TRUE] \in Attempt
    BY <2>1 DEF Attempt
  <2>4. AttemptsOK'
    BY <1>5, <2>3 DEF begin, AttemptsOK
  <2>5. RunQueueOK'
    BY <1>5, GoneOK DEF begin, RunQueueOK
  <2>6. QED
    BY <1>5, <2>2, <2>4, <2>5, RunsTyped DEF begin
<1>6. ASSUME NEW w \in Workers, callModel(w) \/ abort(w) PROVE Typed'
  <2>1. attempt[w] \in Attempt /\ attempt[w].run \in Runs
    BY <1>6, WorkerAt DEF callModel, abort
  <2>2. run' \in [Runs -> Run]
    BY <1>6, <2>1, CountedOK DEF callModel, abort
  <2>3. \/ attempt' = [attempt EXCEPT ![w].phase = "completing"]
        \/ \E cause \in {"none", "retryable", "invalid", "terminal"} : Fails(w, cause)
    BY <1>6 DEF callModel, abort
  <2>4. AttemptsOK'
    BY <2>1, <2>3, PhaseOK, FailsOK
  <2>5. UNCHANGED runEvents /\ UNCHANGED runQueue /\ OnlyRunsChange /\ (Fault \/ Steady)
    BY <1>6 DEF callModel, abort
  <2>6. QED
    BY <2>2, <2>4, <2>5, RunsTyped DEF RunQueueOK
<1>7. ASSUME NEW w \in Workers, complete(w) PROVE Typed'
  <2> DEFINE r == attempt[w].run
  <2>1. attempt[w] \in Attempt /\ r \in Runs
    BY <1>7, WorkerAt DEF complete
  <2>2. \/ UNCHANGED run
        \/ \E x \in Results :
             \/ run' = Superseding(r, x)
             \/ run' = [run EXCEPT ![r].execution = "succeeded", ![r].result = x]
    BY <1>7 DEF complete
  <2>3. Release(w) \/ Fails(w, "retryable")
    BY <1>7 DEF complete
  <2>4. AttemptsOK'
    BY <2>1, <2>3, ReleaseOK, FailsOK
  <2> HIDE DEF r
  <2>5. ASSUME NEW x \in Results
        PROVE  /\ Superseding(r, x) \in [Runs -> Run]
               /\ [run EXCEPT ![r].execution = "succeeded", ![r].result = x] \in [Runs -> Run]
    BY <2>1, SupersedingOK, SucceededOK
  <2>6. run' \in [Runs -> Run]
    BY <2>2, <2>5
  <2>7. UNCHANGED runEvents /\ UNCHANGED runQueue /\ OnlyRunsChange /\ (Fault \/ Steady)
    BY <1>7 DEF complete
  <2>8. QED
    BY <2>4, <2>6, <2>7, RunsTyped DEF RunQueueOK
<1>8. ASSUME NEW w \in Workers, fail(w) \/ failFails(w) PROVE Typed'
  <2>1. attempt[w] \in Attempt /\ attempt[w].run \in Runs
    BY <1>8, WorkerAt DEF fail, failFails
  <2>2. run' \in [Runs -> Run]
    BY <1>8, <2>1, ExecutionOK DEF fail, failFails
  <2>3. RunQueueOK'
    BY <1>8, <2>1, HandOnOK DEF fail, failFails, RunQueueOK
  <2>4. AttemptsOK'
    BY <1>8, ReleaseOK DEF fail, failFails
  <2>5. UNCHANGED runEvents /\ OnlyRunsChange /\ (Fault \/ Steady)
    BY <1>8 DEF fail, failFails
  <2>6. QED
    BY <2>2, <2>3, <2>4, <2>5, RunsTyped
<1>9. ASSUME NEW w \in Workers, timesOut(w) \/ dies(w) \/ losesChannel(w) \/ losesSession(w)
      PROVE  Typed'
  <2>1. attempt[w] \in Attempt /\ attempt[w].run \in Runs
    BY <1>9, BusyWorker DEF timesOut, dies, losesChannel, losesSession
  <2>2. RunQueueOK'
    BY <1>9, <2>1, HandOnOK, TakenBackOK DEF timesOut, dies, losesChannel, losesSession, RunQueueOK
  <2>3. /\ [attempt[w] EXCEPT !.message = "resent"] \in Attempt
        /\ [attempt[w] EXCEPT !.message = "lost"] \in Attempt
        /\ [attempt[w] EXCEPT !.locked = FALSE] \in Attempt
    BY <2>1 DEF Attempt
  <2>4. \/ Release(w)
        \/ attempt' = [attempt EXCEPT ![w] = [attempt[w] EXCEPT !.message = "resent"]]
        \/ attempt' = [attempt EXCEPT ![w] = [attempt[w] EXCEPT !.message = "lost"]]
        \/ attempt' = [attempt EXCEPT ![w] = [attempt[w] EXCEPT !.locked = FALSE]]
    BY <1>9 DEF timesOut, dies, losesChannel, losesSession
  <2>5. AttemptsOK'
    BY <2>3, <2>4, ReleaseOK DEF AttemptsOK
  <2>6. /\ UNCHANGED run /\ UNCHANGED runEvents /\ OnlyRunsChange /\ (Fault \/ Steady)
    BY <1>9 DEF timesOut, dies, losesChannel, losesSession
  <2>7. QED
    BY <2>2, <2>5, <2>6, RunsTyped
<1>10. QED
  BY <1>1, <1>2, <1>3, <1>4, <1>5, <1>6, <1>7, <1>8, <1>9 DEF RunStep, Worker

LEMMA NextTyped ==
    ASSUME Typed, Next
    PROVE  Typed'
<1>1. CASE SubmissionStep /\ NoRunChanges
  <2>1. RunsOK'
    BY <1>1, RunFrame DEF Typed
  <2>2. RowsOK' /\ StoreOK' /\ OperatorsOK' /\ ProbesOK' /\ disturbances' \in Nat
    BY <1>1, OperatorTyped, ProbeTyped DEF SubmissionStep
  <2>3. QED
    BY <2>1, <2>2 DEF Typed
<1>2. ASSUME NEW h \in Probes, commitProbeAndEnqueue(h) PROVE Typed'
  <2>1. RowsOK' /\ StoreOK' /\ OperatorsOK' /\ ProbesOK' /\ disturbances' \in Nat
    BY <1>2, CommitProbeTyped DEF commitProbeAndEnqueue
  <2>2. [run EXCEPT ![Initial].execution = "queued"] \in [Runs -> Run]
    BY ExecutionOK, RunAssumption DEF Executions, Typed, RunsOK
  <2>3. run' \in [Runs -> Run] /\ runEvents' \subseteq Runs
    BY <1>2, <2>2, RunAssumption DEF commitProbeAndEnqueue, Queued, Typed, RunsOK
  <2>4. RunsOK'
    BY <1>2, <2>3 DEF commitProbeAndEnqueue, Typed, RunsOK
  <2>5. QED
    BY <2>1, <2>4 DEF Typed
<1>3. ASSUME NEW o \in Operators, commitDeletionAndCancel(o) PROVE Typed'
  <2>1. RowsOK' /\ StoreOK' /\ OperatorsOK' /\ ProbesOK' /\ disturbances' \in Nat
    BY <1>3, CommitDeletionTyped DEF commitDeletionAndCancel
  <2>2. NewRun \in Run /\ \A r \in Runs : [run[r] EXCEPT !.execution = "cancelled"] \in Run
    BY RunAssumption DEF NewRun, Run, Executions, Results, Typed, RunsOK
  <2>3. run' \in [Runs -> Run] /\ runEvents' \subseteq Runs
    BY <1>3, <2>2 DEF commitDeletionAndCancel, cancelAnnotationRuns, Typed, RunsOK
  <2>4. RunsOK'
    BY <1>3, <2>3 DEF commitDeletionAndCancel, Typed, RunsOK
  <2>5. QED
    BY <2>1, <2>4 DEF Typed
<1>4. QED
  BY <1>1, <1>2, <1>3, RunStepTyped DEF Next

LEMMA InitTyped == Init => Typed
<1> SUFFICES ASSUME Init PROVE Typed
  OBVIOUS
<1>1. RowsOK /\ StoreOK /\ OperatorsOK /\ disturbances \in Nat
  BY DEF Init, SubmissionInit, RowsOK, StoreOK, OperatorsOK, Processing, Sizes
<1>2. ProbesOK
  BY EmptyQueue DEF Init, SubmissionInit, ProbesOK, BagOf
<1>3. NewRun \in Run
  BY RunAssumption DEF NewRun, Run, Executions, Results
<1>4. RunsOK
  BY <1>3, EmptyQueue DEF Init, RunInit, RunsOK, BagOf
<1>5. QED
  BY <1>1, <1>2, <1>4 DEF Typed

LEMMA StutterTyped ==
    ASSUME Typed, UNCHANGED vars
    PROVE  Typed'
BY ProbeFrame, RunFrame DEF Typed, RowsOK, StoreOK, OperatorsOK, NoRunChanges, vars,
   submissionVars, rowVars, storeVars

LEMMA TypedInvariant == Spec => []Typed
<1>1. Typed /\ [Next]_vars => Typed'
  BY NextTyped, StutterTyped
<1>2. QED
  BY <1>1, InitTyped, PTL DEF Spec

\* Every variable keeps the shape of its rows, messages and objects, for any number
\* of requests, handlers, runs and retries.
THEOREM TypeCorrect == Spec => []TypeOK
BY TypedInvariant, TypedIsTypeOK, PTL

----------------------------------------------------------------------------
(* One formal result *)

\* What has a result has succeeded.
SucceededOnly == \A r \in Runs : run[r].result # "none" => run[r].execution = "succeeded"
Results1 == OneResult /\ SucceededOnly

\* The runs change in no other way than these.
Restarted(r) == \E x \in {"queued", "running", "retry_scheduled", "stuck", "system_failed"} :
                  /\ run[r].execution \in Open \cup {"none", "system_failed"}
                  /\ run' = [run EXCEPT ![r].execution = x]
Attempted(r) == /\ run[r].execution \in Startable
                /\ run' = [run EXCEPT ![r].execution = "running",
                                      ![r].attempts = IF @ < MaxAttempts THEN @ + 1 ELSE @]
Counted(r) == run' = [run EXCEPT ![r].full = @ + 1]
CameOut(r) == /\ run[r].execution \in Open
              /\ \/ \E x \in Published : run' = Superseding(r, x)
                 \/ /\ ~OtherPending(r)
                    /\ run' = [run EXCEPT ![r].execution = "succeeded", ![r].result = "pending"]
Decided(r) == /\ run[r].result \in {"pending", "audit"}
              /\ \/ run' = Superseding(r, "formal")
                 \/ run' = [run EXCEPT ![r].result = "withdrawn"]
Cancelled == \/ run' = [r \in Runs |-> IF run[r].execution \in Open
                                         THEN [run[r] EXCEPT !.execution = "cancelled"]
                                         ELSE run[r]]
             \/ storage' = "removed" /\ run' = [r \in Runs |-> NewRun]

LEMMA RunSteps ==
    ASSUME Typed, Next
    PROVE  \/ UNCHANGED run \/ Cancelled
           \/ \E r \in Runs : Restarted(r) \/ Attempted(r) \/ CameOut(r) \/ Decided(r)
           \/ \E w \in Workers : /\ callModel(w)
                                 /\ attempt[w].run \in Runs /\ Counted(attempt[w].run)
<1> DEFINE Step == \/ UNCHANGED run \/ Cancelled
                   \/ \E r \in Runs : Restarted(r) \/ Attempted(r) \/ CameOut(r) \/ Decided(r)
                   \/ \E w \in Workers : /\ callModel(w)
                                         /\ attempt[w].run \in Runs /\ Counted(attempt[w].run)
<1> RunsOK
  BY DEF Typed
<1>1. CASE SubmissionStep /\ NoRunChanges
  BY <1>1 DEF NoRunChanges, annotationVars
<1>2. ASSUME NEW h \in Probes, commitProbeAndEnqueue(h) PROVE Step
  <2>1. UNCHANGED run \/ (run[Initial].execution = "none" /\ run' = Queued(Initial))
    BY <1>2 DEF commitProbeAndEnqueue
  <2>2. QED
    BY <2>1, RunAssumption DEF Restarted, Queued
<1>3. ASSUME NEW o \in Operators, commitDeletionAndCancel(o) PROVE Step
  BY <1>3 DEF commitDeletionAndCancel, commitDeletion, rowVars, cancelAnnotationRuns, Cancelled
<1>4. ASSUME NEW r \in Runs, publishRun(r) \/ reclaim(r) \/ createNewVersion(r) \/ retry(r)
      PROVE  Step
  <2>1. \/ UNCHANGED run
        \/ /\ run[r].execution \in Open \cup {"none", "system_failed"}
           /\ \E x \in {"queued", "stuck"} : run' = [run EXCEPT ![r].execution = x]
    BY <1>4 DEF publishRun, reclaim, createNewVersion, retry, Queued, Open, Startable
  <2>2. QED
    BY <2>1 DEF Restarted
<1>5. ASSUME NEW r \in Runs, discard(r) \/ review(r) PROVE Step
  <2>1. Decided(r)
    BY <1>5 DEF discard, review, Accepting, Decided
  <2>2. QED
    BY <2>1
<1>6. ASSUME NEW m, Delivery(m) PROVE Step
  <2>1. \/ UNCHANGED run
        \/ /\ Delivered(m) /\ Exhausted(m.run)
           /\ run' = [run EXCEPT ![m.run].execution = "system_failed"]
    BY <1>6 DEF Delivery, dropBusy, skipRun, markFullBudgetExhausted, rejectRun, deliveryFails
  <2>2. QED
    BY <2>1, DeliveredIsMessage DEF Restarted, Exhausted, Open
<1>7. ASSUME NEW w \in Workers, NEW m, begin(w, m) PROVE Step
  <2>1. m.run \in Runs
    BY <1>7, DeliveredIsMessage DEF begin
  <2>2. Attempted(m.run)
    BY <1>7 DEF begin, Attempted
  <2>3. QED
    BY <2>1, <2>2
<1>8. ASSUME NEW w \in Workers, callModel(w) \/ complete(w) \/ fail(w) PROVE Step
  <2> DEFINE r == attempt[w].run
  <2>1. r \in Runs
    BY <1>8, WorkerAt DEF callModel, complete, fail
  <2>2. CASE callModel(w)
    <3>1. UNCHANGED run \/ Counted(r)
      BY <2>2 DEF callModel, Counted
    <3>2. QED
      BY <2>1, <2>2, <3>1
  <2>3. CASE complete(w)
    <3>1. UNCHANGED run \/ CameOut(r)
      BY <2>3 DEF complete, CameOut
    <3>2. QED
      BY <2>1, <3>1
  <2>4. CASE fail(w)
    <3>1. UNCHANGED run \/ Restarted(r)
      BY <2>4 DEF fail, Restarted, Open
    <3>2. QED
      BY <2>1, <3>1
  <2>5. QED
    BY <1>8, <2>2, <2>3, <2>4
<1>9. ASSUME NEW w \in Workers,
             \/ abort(w) \/ failFails(w) \/ timesOut(w) \/ dies(w) \/ losesChannel(w)
             \/ losesSession(w)
      PROVE  UNCHANGED run
  BY <1>9 DEF abort, failFails, timesOut, dies, losesChannel, losesSession
<1>10. QED
  BY <1>1, <1>2, <1>3, <1>4, <1>5, <1>6, <1>7, <1>8, <1>9 DEF Next, RunStep, Worker

LEMMA NextResults ==
    ASSUME Typed, Results1, Next
    PROVE  Results1'
<1> run \in [Runs -> Run]
  BY DEF Typed, RunsOK
<1>1. CASE UNCHANGED run
  BY <1>1 DEF Results1, OneResult, SucceededOnly
<1>2. CASE Cancelled
  BY <1>2 DEF Results1, OneResult, SucceededOnly, Cancelled, Run, NewRun, Published, Open, Startable
<1>3. ASSUME NEW r \in Runs, Restarted(r) PROVE Results1'
  <2>1. /\ \A q \in Runs : run'[q].result = run[q].result
        /\ \A q \in Runs : q # r => run'[q] = run[q]
        /\ run[r].execution # "succeeded" /\ run'[r].execution # "cancelled"
    BY <1>3 DEF Restarted, Run, Open, Startable
  <2>2. QED
    BY <2>1 DEF Results1, OneResult, SucceededOnly
<1>4. ASSUME NEW r \in Runs, Attempted(r) \/ Counted(r) PROVE Results1'
  <2>1. /\ \A q \in Runs : run'[q].result = run[q].result
        /\ \A q \in Runs : q # r => run'[q] = run[q]
        /\ \/ run'[r].execution = run[r].execution
           \/ run'[r].execution = "running" /\ run[r].execution # "succeeded"
    BY <1>4 DEF Attempted, Counted, Run, Startable
  <2>2. QED
    BY <2>1 DEF Results1, OneResult, SucceededOnly
<1>5. ASSUME NEW r \in Runs, NEW x \in Published, run' = Superseding(r, x) PROVE Results1'
  <2>1. /\ run'[r].execution = "succeeded" /\ run'[r].result = x
        /\ \A q \in Runs : q # r => /\ run'[q].execution = run[q].execution
                                    /\ \/ run[q].result \in Published /\ run'[q].result = "withdrawn"
                                       \/ run[q].result \notin Published
                                          /\ run'[q].result = run[q].result
    BY <1>5 DEF Superseding, Run
  <2>2. QED
    BY <2>1 DEF Results1, OneResult, SucceededOnly, Published
<1>6. ASSUME NEW r \in Runs, ~OtherPending(r),
             run' = [run EXCEPT ![r].execution = "succeeded", ![r].result = "pending"]
      PROVE  Results1'
  <2>1. /\ run'[r].execution = "succeeded" /\ run'[r].result = "pending"
        /\ \A q \in Runs : q # r => run'[q] = run[q]
    BY <1>6 DEF Run
  <2>2. QED
    BY <1>6, <2>1 DEF Results1, OneResult, SucceededOnly, Published, OtherPending
<1>7. ASSUME NEW r \in Runs, run[r].result # "none", run' = [run EXCEPT ![r].result = "withdrawn"]
      PROVE  Results1'
  <2>1. /\ run'[r].execution = run[r].execution /\ run'[r].result = "withdrawn"
        /\ \A q \in Runs : q # r => run'[q] = run[q]
    BY <1>7 DEF Run
  <2>2. QED
    BY <1>7, <2>1 DEF Results1, OneResult, SucceededOnly, Published
<1>8. "formal" \in Published
  BY DEF Published
<1>9. QED
  BY <1>1, <1>2, <1>3, <1>4, <1>5, <1>6, <1>7, <1>8, RunSteps DEF CameOut, Decided

\* There is at most one formal result and one candidate, whichever runs overlap, are
\* retried or audited, and nothing comes of a run that was cancelled.
THEOREM OneResultForEver == Spec => []OneResult
<1>1. Init => Results1
  BY DEF Init, RunInit, NewRun, Results1, OneResult, SucceededOnly, Published
<1>2. Typed /\ Results1 /\ [Next]_vars => Results1'
  <2> SUFFICES ASSUME Typed, Results1, [Next]_vars PROVE Results1'
    OBVIOUS
  <2>1. CASE UNCHANGED vars
    BY <2>1 DEF vars, annotationVars, Results1, OneResult, SucceededOnly
  <2>2. QED
    BY <2>1, NextResults
<1>3. Results1 => OneResult
  BY DEF Results1
<1>4. QED
  BY <1>1, <1>2, <1>3, TypedInvariant, PTL DEF Spec

----------------------------------------------------------------------------
(* The rows and the store *)

Clean == original = "none" /\ multipart # "open"
Over  == {"deleted", "removed"}

\* An object comes of an upload that is being completed, and while it is nothing
\* deletes it; what a deletion finds stays as it is.
RowsFit ==
    /\ multipart = "open" => original = "none" /\ upload \in {"uploading", "completing"}
    /\ original # "none" => multipart = "completed"
    /\ upload = "uploading" => multipart # "completed"
    /\ upload = "completing" => storage = "available"
    /\ upload = "aborted" => storage # "available"
    /\ storage \in Over => Clean
    /\ storage = "delete_pending" => mode # "none" /\ (keys \/ original = "none")
    /\ WholeObject

Completes(o) == op[o].kind \in {"complete", "reconcile"}
Deletes(o)   == op[o].kind = "delete"
AtCommit(o)  == op[o].step = "commit"

\* What an operator found still holds, or has been deleted since; what it has
\* deleted does not come back.
CompletionFits(o) ==
    Completes(o) =>
        /\ upload # "uploading"
        /\ AtCommit(o) => /\ multipart = "completed" /\ op[o].found \in Sizes
                          /\ original \in {op[o].found, "none"}
                          /\ storage = "available" => original = op[o].found
DeletionFits(o) ==
    Deletes(o) =>
        /\ storage # "available"
        /\ ~op[o].upload => multipart # "open"
        /\ ~op[o].keys => original = "none"
        /\ AtCommit(o) => Clean
OperatorsFit == \A o \in Operators : CompletionFits(o) /\ DeletionFits(o)

\* An analysis that has gone through has seen the whole video.
Seen == metadata \/ \E h \in Probes : Analyzed(h)
AnalysisFits ==
    /\ processing # "uploading" => upload \in {"uploaded", "aborted"}
    /\ metadata => processing \in {"awaiting_ai", "judged"}
    /\ Seen => multipart = "completed" /\ original # "short"
    /\ \A o \in Operators : Seen /\ Completes(o) /\ AtCommit(o) => op[o].found # "short"

Store == RowsFit /\ OperatorsFit /\ AnalysisFits

LEMMA SameSeen == UNCHANGED probe /\ UNCHANGED metadata => (Seen' <=> Seen)
BY DEF Seen, Analyzed

\* What the step of a completion to its commit changes of its operation.
LEMMA CommitStep ==
    ASSUME NEW r \in Operation, NEW f
    PROVE  LET q == [r EXCEPT !.step = "commit", !.found = f]
           IN  q.kind = r.kind /\ q.found = f
  BY DEF Operation

\* The other operators are where they were.
LEMMA OneOperator ==
    ASSUME OperatorsOK, NEW o \in Operators, NEW x, op' = [op EXCEPT ![o] = x], NEW k \in Operators
    PROVE  op'[k] = IF k = o THEN x ELSE op[k]
BY DEF OperatorsOK

LEMMA CompletionStore ==
    ASSUME Typed, Store, NEW o \in Operators,
           \/ completeUpload(o) \/ reconcileCompletion(o) \/ ensureMultipartObject(o)
           \/ completionFails(o) \/ commitCompletion(o)
    PROVE  Store'
<1> RowsOK /\ StoreOK /\ OperatorsOK
  BY DEF Typed
<1>1. CASE completeUpload(o) \/ reconcileCompletion(o)
  <2>1. /\ op[o] = NoOperation /\ upload' = "completing" /\ storage = "available"
        /\ upload \in {"uploading", "completing"}
        /\ UNCHANGED <<storage, mode, keys, processing, metadata, multipart, original, probe>>
        /\ \E x \in {"complete", "reconcile"} : op' = [op EXCEPT ![o] = Completion(x)]
    BY <1>1 DEF completeUpload, reconcileCompletion, Available, storeVars, probeVars, rowVars,
         Begin, Store, RowsFit
  <2>2. PICK x \in {"complete", "reconcile"} : op' = [op EXCEPT ![o] = Completion(x)]
    BY <2>1
  <2>3. ASSUME NEW k \in Operators
        PROVE  /\ CompletionFits(k)' /\ DeletionFits(k)'
               /\ Completes(k)' /\ AtCommit(k)' => Completes(k) /\ AtCommit(k) /\ op'[k] = op[k]
    BY <2>1, <2>2, OneOperator DEF Store, OperatorsFit, CompletionFits, DeletionFits, Completion,
         Completes, Deletes, AtCommit, Clean
  <2>4. RowsFit'
    BY <2>1 DEF Store, RowsFit, WholeObject, Uploaded, Available, Clean, Over
  <2>5. AnalysisFits'
    BY <2>1, <2>3, SameSeen DEF Store, AnalysisFits
  <2>6. QED
    BY <2>3, <2>4, <2>5 DEF Store, OperatorsFit
<1>2. CASE completionFails(o)
  <2>1. /\ UNCHANGED <<upload, storage, mode, keys, processing, metadata, multipart, original, probe>>
        /\ op' = [op EXCEPT ![o] = NoOperation]
    BY <1>2 DEF completionFails, storeVars, probeVars, rowVars, End
  <2>2. ASSUME NEW k \in Operators
        PROVE  /\ CompletionFits(k)' /\ DeletionFits(k)'
               /\ Completes(k)' /\ AtCommit(k)' => Completes(k) /\ AtCommit(k) /\ op'[k] = op[k]
    BY <2>1, OneOperator DEF Store, OperatorsFit, CompletionFits, DeletionFits, NoOperation,
         Completes, Deletes, AtCommit, Clean
  <2>3. RowsFit'
    BY <2>1 DEF Store, RowsFit, WholeObject, Uploaded, Available, Clean, Over
  <2>4. AnalysisFits'
    BY <2>1, <2>2, SameSeen DEF Store, AnalysisFits
  <2>5. QED
    BY <2>2, <2>3, <2>4 DEF Store, OperatorsFit
<1>3. CASE ensureMultipartObject(o)
  <2>1. /\ Completes(o) /\ op[o].step = "store" /\ op[o] \in Operation
        /\ UNCHANGED <<upload, storage, mode, keys, processing, metadata, probe>>
    BY <1>3, BusyOperator DEF ensureMultipartObject, AtStore, Completes, rowVars, probeVars
  <2>2. \/ /\ multipart = "open" /\ multipart' = "completed" /\ original' \in Sizes
           /\ storage = "available" /\ upload = "completing"
        \/ multipart # "open" /\ UNCHANGED <<multipart, original>>
    BY <1>3, <2>1 DEF ensureMultipartObject, Store, RowsFit, OperatorsFit, CompletionFits
  <2>3. \/ op' = [op EXCEPT ![o] = NoOperation]
        \/ /\ original' # "none"
           /\ op' = [op EXCEPT ![o] = [op[o] EXCEPT !.step = "commit", !.found = original']]
    BY <1>3 DEF ensureMultipartObject, End, OperatorsOK
  <2>4. RowsFit'
    BY <2>1, <2>2 DEF Store, RowsFit, WholeObject, Uploaded, Available, Clean, Over, Sizes
  <2>5. original' # "none" => multipart' = "completed" /\ original' \in Sizes
    BY <2>2 DEF Store, RowsFit, StoreOK, Sizes
  <2>6. ASSUME NEW k \in Operators, k # o PROVE CompletionFits(k)' /\ DeletionFits(k)'
    <3>1. op'[k] = op[k]
      BY <2>3, <2>6, OneOperator
    <3>2. QED
      BY <2>1, <2>2, <3>1 DEF Store, OperatorsFit, CompletionFits, DeletionFits,
         Completes, Deletes, AtCommit, Clean, Sizes
  <2>7. \/ op'[o] = NoOperation
        \/ /\ original' # "none" /\ op'[o].kind = op[o].kind /\ op'[o].found = original'
    <3>1. CASE op' = [op EXCEPT ![o] = NoOperation]
      BY <3>1 DEF OperatorsOK
    <3>2. CASE /\ original' # "none"
               /\ op' = [op EXCEPT ![o] = [op[o] EXCEPT !.step = "commit", !.found = original']]
      <4>1. op'[o] = [op[o] EXCEPT !.step = "commit", !.found = original']
        BY <3>2 DEF OperatorsOK
      <4>2. op'[o].kind = op[o].kind /\ op'[o].found = original'
        BY ONLY <2>1, <4>1, CommitStep
      <4>3. QED
        BY ONLY <3>2, <4>2
    <3>3. QED
      BY <2>3, <3>1, <3>2
  <2>8. CompletionFits(o)' /\ DeletionFits(o)'
    BY <2>1, <2>2, <2>5, <2>7 DEF Store, OperatorsFit, CompletionFits, DeletionFits, NoOperation,
         Completes, Deletes, AtCommit, Sizes
  <2>9. ASSUME Seen PROVE multipart # "open" /\ original' # "short"
    BY <2>2, <2>9 DEF Store, AnalysisFits
  <2>10. AnalysisFits'
    <3>1. ASSUME NEW k \in Operators, Seen, Completes(k)', AtCommit(k)' PROVE op'[k].found # "short"
      <4>1. CASE k = o
        BY <2>7, <2>9, <3>1, <4>1 DEF Completes, NoOperation
      <4>2. CASE k # o
        <5>1. op'[k] = op[k]
          BY <2>3, <4>2, OneOperator
        <5>2. QED
          BY <3>1, <5>1 DEF Store, AnalysisFits, Completes, AtCommit
      <4>3. QED
        BY <4>1, <4>2
    <3>2. QED
      BY <2>1, <2>2, <2>9, <3>1, SameSeen DEF Store, AnalysisFits
  <2>11. QED
    BY <2>4, <2>6, <2>8, <2>10 DEF Store, OperatorsFit
<1>4. CASE commitCompletion(o)
  <2>1. /\ Completes(o) /\ AtCommit(o) /\ op[o] \in Operation
        /\ UNCHANGED <<storage, mode, keys, metadata, multipart, original, probe>>
        /\ op' = [op EXCEPT ![o] = NoOperation]
    BY <1>4, BusyOperator DEF commitCompletion, Completes, AtCommit, storeVars, End
  <2>2. \/ /\ upload' = "uploaded" /\ processing' = "queued" /\ op[o].found = "whole"
           /\ upload = "completing"
        \/ upload' = "uploaded" /\ processing' = "rejected" /\ op[o].found # "whole"
        \/ UNCHANGED <<upload, processing>>
    BY <1>4 DEF commitCompletion, SizeMatches, StillCompleting
  <2>3. ASSUME NEW k \in Operators
        PROVE  /\ CompletionFits(k)' /\ DeletionFits(k)'
               /\ Completes(k)' /\ AtCommit(k)' => Completes(k) /\ AtCommit(k) /\ op'[k] = op[k]
    BY <2>1, <2>2, OneOperator DEF Store, OperatorsFit, CompletionFits, DeletionFits, NoOperation,
         Completes, Deletes, AtCommit, Clean
  <2>4. /\ multipart = "completed" /\ op[o].found \in Sizes
        /\ storage = "available" => original = op[o].found
        /\ Seen => op[o].found # "short"
    BY <2>1 DEF Store, OperatorsFit, CompletionFits, AnalysisFits
  <2>5. RowsFit'
    BY <2>1, <2>2, <2>4 DEF Store, RowsFit, WholeObject, Uploaded, Available, Clean, Over
  <2>6. metadata => Seen /\ processing \in {"awaiting_ai", "judged"}
    BY DEF Store, AnalysisFits, Seen
  <2>7. AnalysisFits'
    BY <2>1, <2>2, <2>3, <2>4, <2>6, SameSeen DEF Store, AnalysisFits, Sizes
  <2>8. QED
    BY <2>3, <2>5, <2>7 DEF Store, OperatorsFit
<1>5. QED
  BY <1>1, <1>2, <1>3, <1>4

LEMMA DeletionStore ==
    ASSUME Typed, Store, NEW o \in Operators,
           \/ abortUpload(o) \/ deleteObjects(o) \/ deleteSubmission(o) \/ reconcileDeletion(o)
           \/ deleteFiles(o) \/ deletionFails(o) \/ operatorDies(o)
    PROVE  Store'
<1> RowsOK /\ StoreOK /\ OperatorsOK
  BY DEF Typed
<1>1. CASE abortUpload(o) \/ deleteObjects(o) \/ deleteSubmission(o) \/ reconcileDeletion(o)
  <2>1. /\ UNCHANGED <<upload, processing, metadata, multipart, original, probe>>
        /\ storage' = "delete_pending" /\ upload # "completing"
        /\ mode' # "none" /\ keys' \in BOOLEAN
        /\ keys' \/ original = "none"
    <3>1. CASE abortUpload(o) \/ deleteObjects(o)
      BY <3>1 DEF abortUpload, deleteObjects, Mark, Uploaded, storeVars, probeVars
    <3>2. CASE reconcileDeletion(o)
      BY <3>2 DEF reconcileDeletion, rowVars, storeVars, probeVars, RowsOK, Store, RowsFit
    <3>3. CASE deleteSubmission(o)
      <4>1. /\ UNCHANGED <<upload, processing, metadata, multipart, original, probe>>
            /\ storage' = "delete_pending" /\ mode' # "none" /\ upload # "completing"
            /\ keys' = (Uploaded /\ storage # "deleted")
            /\ storage \in {"available", "deleted"}
        BY <3>3 DEF deleteSubmission, Mark, Deletable, storeVars, probeVars
      <4>2. ~(Uploaded /\ storage # "deleted") => original = "none"
        BY <4>1 DEF Uploaded, RowsOK, StoreOK, Store, RowsFit, Over, Clean
      <4>3. QED
        BY <4>1, <4>2
    <3>4. QED
      BY <1>1, <3>1, <3>2, <3>3
  <2> DEFINE x == [kind |-> "delete", step |-> "store", found |-> "none", keys |-> keys',
                   upload |-> upload \in {"uploading", "completing"}]
  <2>2. op' = [op EXCEPT ![o] = x] /\ op[o] = NoOperation
    BY <1>1 DEF abortUpload, deleteObjects, deleteSubmission, reconcileDeletion, Mark,
         ProcessPending, Begin, rowVars
  <2>3. op'[o] = x
    BY <2>2 DEF OperatorsOK
  <2>4. CompletionFits(o)' /\ ~(Completes(o)')
    BY <2>3 DEF CompletionFits, Completes
  <2>5. DeletionFits(o)'
    <3>1. /\ op'[o].upload = (upload \in {"uploading", "completing"})
          /\ op'[o].keys = keys' /\ op'[o].step = "store"
      BY <2>3
    <3>2. multipart = "open" => upload \in {"uploading", "completing"}
      BY DEF Store, RowsFit
    <3>3. QED
      BY <2>1, <3>1, <3>2 DEF DeletionFits, Deletes, AtCommit
  <2>6. ASSUME NEW k \in Operators, k # o
        PROVE  op'[k] = op[k] /\ CompletionFits(k)' /\ DeletionFits(k)'
    <3>1. op'[k] = op[k]
      BY <2>2, <2>6, OneOperator
    <3>2. QED
      BY <2>1, <3>1 DEF Store, OperatorsFit, CompletionFits, DeletionFits, Completes, Deletes,
         AtCommit, Clean
  <2>7. RowsFit'
    BY <2>1 DEF Store, RowsFit, WholeObject, Uploaded, Available, Clean, Over
  <2>8. AnalysisFits'
    BY <2>1, <2>4, <2>6, SameSeen DEF Store, AnalysisFits, Completes, AtCommit
  <2>9. QED
    BY <2>4, <2>5, <2>6, <2>7, <2>8 DEF Store, OperatorsFit
<1>2. ASSUME NEW k \in Operators, op'[k] = op[k] \/ op'[k] = NoOperation,
             UNCHANGED <<upload, storage, processing, metadata, probe>>,
             UNCHANGED multipart \/ (multipart = "open" /\ multipart' = "aborted"),
             UNCHANGED original \/ (original' = "none" /\ storage # "available")
      PROVE  /\ CompletionFits(k)' /\ DeletionFits(k)'
             /\ Seen' /\ Completes(k)' /\ AtCommit(k)' => op'[k].found # "short"
  <2>1. CompletionFits(k)'
    BY <1>2 DEF Store, RowsFit, OperatorsFit, CompletionFits, Completes, AtCommit, NoOperation
  <2>2. DeletionFits(k)'
    BY <1>2 DEF Store, RowsFit, OperatorsFit, DeletionFits, Deletes, AtCommit, NoOperation, Clean
  <2>3. QED
    BY <1>2, <2>1, <2>2, SameSeen DEF Store, AnalysisFits, Completes, AtCommit, NoOperation
<1>3. ASSUME UNCHANGED <<rowVars, probe>>,
             UNCHANGED multipart \/ (multipart = "open" /\ multipart' = "aborted"),
             UNCHANGED original \/ (original' = "none" /\ storage # "available")
      PROVE  /\ RowsFit'
             /\ processing' # "uploading" => upload' \in {"uploaded", "aborted"}
             /\ metadata' => processing' \in {"awaiting_ai", "judged"}
             /\ Seen' => multipart' = "completed" /\ original' # "short"
  <2>1. RowsFit'
    BY <1>3 DEF Store, RowsFit, WholeObject, Uploaded, Available, Clean, Over, rowVars
  <2>2. QED
    BY <1>3, <2>1, SameSeen DEF Store, AnalysisFits, rowVars
<1>4. CASE deletionFails(o) \/ operatorDies(o)
  <2>1. /\ UNCHANGED <<rowVars, probe>>
        /\ op' = [op EXCEPT ![o] = NoOperation]
    BY <1>4 DEF deletionFails, operatorDies, End, probeVars
  <2>2. /\ UNCHANGED multipart \/ (multipart = "open" /\ multipart' = "aborted")
        /\ UNCHANGED original \/ (original' = "none" /\ Deletes(o))
    BY <1>4 DEF deletionFails, operatorDies, AtStore, Deletes, storeVars
  <2>3. Deletes(o) => storage # "available"
    BY DEF Store, OperatorsFit, DeletionFits
  <2>4. \A k \in Operators : op'[k] = op[k] \/ op'[k] = NoOperation
    BY <2>1, OneOperator
  <2>5. QED
    BY <1>2, <1>3, <2>1, <2>2, <2>3, <2>4 DEF Store, OperatorsFit, AnalysisFits, rowVars
<1>5. CASE deleteFiles(o)
  <2>1. /\ UNCHANGED <<rowVars, probe>>
        /\ op' = [op EXCEPT ![o] = [op[o] EXCEPT !.step = "commit"]]
        /\ Deletes(o) /\ op[o] \in Operation /\ storage # "available"
    BY <1>5, BusyOperator
       DEF deleteFiles, probeVars, AtStore, Deletes, Store, OperatorsFit, DeletionFits
  <2>2. /\ UNCHANGED multipart \/ (multipart = "open" /\ multipart' = "aborted")
        /\ UNCHANGED original \/ original' = "none"
    BY <1>5 DEF deleteFiles
  <2>3. Clean'
    BY <1>5, <2>1 DEF deleteFiles, Clean, Store, RowsFit, OperatorsFit, DeletionFits
  <2>4. op'[o] = [op[o] EXCEPT !.step = "commit"]
    BY <2>1 DEF OperatorsOK
  <2>5. op'[o].kind = "delete"
    BY <2>1, <2>4 DEF Operation, Deletes
  <2>6. CompletionFits(o)' /\ DeletionFits(o)' /\ ~(Completes(o)')
    BY <2>1, <2>3, <2>5 DEF CompletionFits, DeletionFits, Completes, Clean, rowVars
  <2>7. ASSUME NEW k \in Operators, k # o PROVE op'[k] = op[k]
    BY <2>1, <2>7, OneOperator
  <2>8. QED
    BY <1>2, <1>3, <2>1, <2>2, <2>6, <2>7 DEF Store, OperatorsFit, AnalysisFits, rowVars
<1>6. QED
  BY <1>1, <1>4, <1>5

LEMMA CommitDeletionStore ==
    ASSUME Typed, Store, NEW o \in Operators, commitDeletion(o)
    PROVE  Store'
<1> RowsOK /\ StoreOK /\ OperatorsOK
  BY DEF Typed
<1>1. /\ op' = [op EXCEPT ![o] = NoOperation] /\ UNCHANGED <<multipart, original, probe>>
      /\ Deletes(o) /\ AtCommit(o)
  BY DEF commitDeletion, End, storeVars, Deletes, AtCommit
<1>2. Clean /\ storage # "available"
  BY <1>1 DEF Store, OperatorsFit, DeletionFits
<1>3. ASSUME NEW k \in Operators PROVE op'[k] = op[k] \/ op'[k] = NoOperation
  BY <1>1, OneOperator
<1>4. CASE UNCHANGED rowVars
  <2>1. RowsFit'
    BY <1>1, <1>4 DEF Store, RowsFit, WholeObject, Uploaded, Available, Clean, Over, rowVars
  <2>2. OperatorsFit'
    BY <1>1, <1>3, <1>4 DEF Store, OperatorsFit, CompletionFits, DeletionFits, Completes, Deletes,
         AtCommit, NoOperation, Clean, rowVars
  <2>3. AnalysisFits'
    BY <1>1, <1>3, <1>4, SameSeen DEF Store, AnalysisFits, Completes, AtCommit, NoOperation, rowVars
  <2>4. QED
    BY <2>1, <2>2, <2>3 DEF Store
<1>5. CASE ~UNCHANGED rowVars
  <2>1. /\ upload' = "aborted"
        /\ \/ storage' = "deleted" /\ UNCHANGED <<processing, metadata>>
           \/ storage' = "removed" /\ processing' = "uploading" /\ metadata' = FALSE
    BY <1>5 DEF commitDeletion
  <2>2. RowsFit'
    BY <1>1, <1>2, <2>1 DEF Store, RowsFit, WholeObject, Uploaded, Available, Clean, Over
  <2>3. OperatorsFit'
    BY <1>1, <1>2, <1>3, <2>1 DEF Store, OperatorsFit, CompletionFits, DeletionFits, Completes,
         Deletes, AtCommit, NoOperation, Clean, Sizes
  <2>4. Seen' => Seen
    BY <1>1, <2>1 DEF Seen, Analyzed
  <2>5. AnalysisFits'
    BY <1>1, <1>3, <2>1, <2>4 DEF Store, AnalysisFits, Completes, AtCommit, NoOperation
  <2>6. QED
    BY <2>2, <2>3, <2>5 DEF Store
<1>6. QED
  BY <1>4, <1>5

\* The analysis changes neither the upload nor the store.
LEMMA ProbeSteps ==
    ASSUME Typed, Store,
           \/ \E h \in Probes : Prober(h) \/ commitProbe(h)
           \/ \E n \in BagToSet(probeQueue) : skipProbe(n) \/ waitForLock(n)
           \/ publishProbe \/ reclaimProbe \/ judge \/ rerunAiQuality
    PROVE  /\ UNCHANGED <<upload, storage, mode, keys, multipart, original, op>>
           /\ metadata => metadata'
           /\ processing' # processing => /\ processing # "uploading" \/ upload = "uploaded"
                                          /\ processing \notin {"rejected", "uploading"}
                                          /\ processing' # "uploading"
                                          /\ metadata => processing' \in {"awaiting_ai", "judged"}
           /\ metadata' => metadata \/ (processing' = "awaiting_ai" /\ Seen)
           /\ Seen' => Seen \/ original = "whole"
<1> StoreOK /\ ProbesOK /\ RowsOK
  BY DEF Typed
<1> DEFINE Result ==
      /\ UNCHANGED <<upload, storage, mode, keys, multipart, original, op>>
      /\ metadata => metadata'
      /\ processing' # processing => /\ processing # "uploading" \/ upload = "uploaded"
                                     /\ processing \notin {"rejected", "uploading"}
                                     /\ processing' # "uploading"
                                     /\ metadata => processing' \in {"awaiting_ai", "judged"}
      /\ metadata' => metadata \/ (processing' = "awaiting_ai" /\ Seen)
      /\ Seen' => Seen \/ original = "whole"
<1>1. metadata => processing \in {"awaiting_ai", "judged"}
  BY DEF Store, AnalysisFits
<1>2. ASSUME NEW h \in Probes, claimSubmission(h, 0) \/ \E n : claimSubmission(h, n) PROVE Result
  <2>1. PICK n : claimSubmission(h, n)
    BY <1>2
  <2>2. ASSUME NEW g \in Probes, Analyzed(g)' PROVE Analyzed(g)
    BY <2>1, <2>2 DEF claimSubmission, Analyzed, ProbesOK
  <2>3. Seen' => Seen
    BY <2>1, <2>2 DEF claimSubmission, Seen
  <2>4. QED
    BY <1>1, <2>1, <2>3 DEF claimSubmission, Claimable, Uploaded, storeVars
<1>3. ASSUME NEW h \in Probes, analyze(h) PROVE Result
  BY <1>3 DEF analyze, rowVars, storeVars
<1>4. ASSUME NEW h \in Probes, commitProbe(h) PROVE Result
  <2>1. Seen
    BY <1>4 DEF commitProbe, Seen
  <2>2. QED
    BY <1>1, <1>4, <2>1 DEF commitProbe, StillProbing, storeVars
<1>5. ASSUME NEW h \in Probes,
             failProbe(h) \/ probeUnrecorded(h) \/ probeDies(h) \/ probeLosesChannel(h)
               \/ probeLosesSession(h)
      PROVE  Result
  <2>1. UNCHANGED <<upload, storage, mode, keys, metadata, multipart, original, op>>
    BY <1>5 DEF failProbe, probeUnrecorded, probeDies, probeLosesChannel, probeLosesSession,
         rowVars, storeVars
  <2>2. processing' # processing => processing = "probing" /\ processing' \in {"rejected", "failed"}
    BY <1>5 DEF failProbe, probeUnrecorded, probeDies, probeLosesChannel, probeLosesSession,
         rowVars, StillProbing
  <2>3. ASSUME NEW g \in Probes, Analyzed(g)' PROVE Analyzed(g)
    <3>1. \/ probe' = [probe EXCEPT ![h] = NoProbe]
          \/ probe' = [probe EXCEPT ![h].connected = FALSE] /\ probe[h] \in Probe
          \/ probe' = [probe EXCEPT ![h].locked = FALSE] /\ probe[h] \in Probe
      BY <1>5, BusyProbe DEF failProbe, probeUnrecorded, probeDies, probeLosesChannel,
           probeLosesSession
    <3>2. QED
      BY <2>3, <3>1 DEF Analyzed, ProbesOK, NoProbe, Probe
  <2>4. Seen' => Seen
    BY <2>1, <2>3 DEF Seen
  <2>5. QED
    BY <1>1, <2>1, <2>2, <2>4
<1>6. ASSUME \/ \E n \in BagToSet(probeQueue) : skipProbe(n) \/ waitForLock(n)
             \/ publishProbe \/ reclaimProbe \/ judge \/ rerunAiQuality
      PROVE  Result
  <2>1. /\ UNCHANGED <<upload, storage, mode, keys, metadata, multipart, original, op, probe>>
        /\ \/ UNCHANGED processing
           \/ processing = "probing" /\ processing' = "queued"
           \/ processing \in {"awaiting_ai", "judged"} /\ processing' \in {"awaiting_ai", "judged"}
    BY <1>6 DEF skipProbe, waitForLock, publishProbe, reclaimProbe, judge, rerunAiQuality,
         rowVars, storeVars, probeVars
  <2>2. QED
    BY <1>1, <2>1, SameSeen
<1> HIDE DEF Result
<1>7. Result
  BY <1>2, <1>3, <1>4, <1>5, <1>6 DEF Prober
<1>8. QED
  BY <1>7 DEF Result

LEMMA ProbeStore ==
    ASSUME Typed, Store,
           \/ \E h \in Probes : Prober(h) \/ commitProbe(h)
           \/ \E n \in BagToSet(probeQueue) : skipProbe(n) \/ waitForLock(n)
           \/ publishProbe \/ reclaimProbe \/ judge \/ rerunAiQuality
    PROVE  Store'
<1> DEFINE Frame == /\ UNCHANGED <<upload, storage, mode, keys, multipart, original, op>>
                    /\ metadata => metadata'
                    /\ processing' # processing =>
                         /\ processing # "uploading" \/ upload = "uploaded"
                         /\ processing \notin {"rejected", "uploading"}
                         /\ processing' # "uploading"
                         /\ metadata => processing' \in {"awaiting_ai", "judged"}
                    /\ metadata' => metadata \/ (processing' = "awaiting_ai" /\ Seen)
                    /\ Seen' => Seen \/ original = "whole"
<1>1. Frame
  BY ProbeSteps
<1>2. RowsFit'
  BY <1>1 DEF Store, RowsFit, WholeObject, Uploaded, Available, Clean, Over
<1>3. OperatorsFit'
  BY <1>1 DEF Store, OperatorsFit, CompletionFits, DeletionFits, Completes, Deletes, AtCommit, Clean
<1>4. \A o \in Operators : Seen' /\ Completes(o) /\ AtCommit(o) => op[o].found # "short"
  BY <1>1 DEF Store, AnalysisFits, OperatorsFit, CompletionFits
<1>5. Seen' => multipart = "completed" /\ original # "short"
  BY <1>1 DEF Store, AnalysisFits, RowsFit
<1>6. AnalysisFits'
  BY <1>1, <1>4, <1>5 DEF Store, AnalysisFits, Completes, AtCommit
<1>7. QED
  BY <1>2, <1>3, <1>6 DEF Store

LEMMA RunStepsOnlyRuns ==
    ASSUME RunStep
    PROVE  OnlyRunsChange
BY DEF RunStep, Worker, Delivery, publishRun, reclaim, createNewVersion, retry, discard, review,
   dropBusy, skipRun, markFullBudgetExhausted, rejectRun, deliveryFails, begin, callModel, abort,
   complete, fail, failFails, timesOut, dies, losesChannel, losesSession

LEMMA SameStore ==
    ASSUME Store, UNCHANGED <<rowVars, storeVars, op, probe>>
    PROVE  Store'
<1>1. RowsFit'
  BY DEF Store, RowsFit, WholeObject, Uploaded, Available, Clean, Over, rowVars, storeVars
<1>2. OperatorsFit'
  BY DEF Store, OperatorsFit, CompletionFits, DeletionFits, Completes, Deletes, AtCommit, Clean,
         rowVars, storeVars
<1>3. AnalysisFits'
  BY SameSeen DEF Store, AnalysisFits, Completes, AtCommit, rowVars, storeVars
<1>4. QED
  BY <1>1, <1>2, <1>3 DEF Store

LEMMA NextStore ==
    ASSUME Typed, Store, Next
    PROVE  Store'
<1>1. CASE SubmissionStep
  BY <1>1, CompletionStore, DeletionStore, ProbeStore DEF SubmissionStep, Operator
<1>2. ASSUME NEW h \in Probes, commitProbeAndEnqueue(h) PROVE Store'
  BY <1>2, ProbeStore DEF commitProbeAndEnqueue
<1>3. ASSUME NEW o \in Operators, commitDeletionAndCancel(o) PROVE Store'
  BY <1>3, CommitDeletionStore DEF commitDeletionAndCancel
<1>4. CASE RunStep
  BY <1>4, RunStepsOnlyRuns, SameStore DEF OnlyRunsChange, probeVars
<1>5. QED
  BY <1>1, <1>2, <1>3, <1>4 DEF Next

LEMMA StoreInvariant == Spec => [](Typed /\ Store)
<1>1. Init => Store
  <2> SUFFICES ASSUME Init PROVE Store
    OBVIOUS
  <2>1. RowsFit
    BY DEF Init, SubmissionInit, RowsFit, WholeObject, Uploaded, Over
  <2>2. OperatorsFit
    BY DEF Init, SubmissionInit, OperatorsFit, CompletionFits, DeletionFits, Completes, Deletes,
           NoOperation
  <2>3. AnalysisFits
    BY DEF Init, SubmissionInit, AnalysisFits, Seen, Analyzed, NoProbe
  <2>4. QED
    BY <2>1, <2>2, <2>3 DEF Store
<1>2. Typed /\ Store /\ [Next]_vars => Store'
  <2> SUFFICES ASSUME Typed, Store, [Next]_vars PROVE Store'
    OBVIOUS
  <2>1. CASE UNCHANGED vars
    BY <2>1, SameStore DEF vars, submissionVars, probeVars
  <2>2. QED
    BY <2>1, NextStore
<1>3. QED
  BY <1>1, <1>2, TypedInvariant, PTL DEF Spec

\* A submission that says its video is there has it, in full, whatever requests,
\* reconciliations and deletions overlap or die on the way.
THEOREM ObjectIsWhole == Spec => []WholeObject
<1>1. Store => WholeObject
  BY DEF Store, RowsFit
<1>2. QED
  BY <1>1, StoreInvariant, PTL

\* The analysis of a video is lost with its row only.
LEMMA NextMetadata ==
    ASSUME Typed, Store, Next, storage' # "removed", metadata
    PROVE  metadata'
<1>1. CASE RunStep
  BY <1>1, RunStepsOnlyRuns DEF rowVars, OnlyRunsChange
<1>2. CASE SubmissionStep
  <2>1. ASSUME NEW o \in Operators, Operator(o) PROVE UNCHANGED metadata
    BY <2>1 DEF Operator, completeUpload, reconcileCompletion, ensureMultipartObject,
         completionFails, commitCompletion, abortUpload, deleteObjects, deleteSubmission,
         reconcileDeletion, deleteFiles, deletionFails, operatorDies, rowVars
  <2>2. QED
    BY <1>2, <2>1, ProbeSteps DEF SubmissionStep
<1>3. ASSUME NEW h \in Probes, commitProbeAndEnqueue(h) PROVE metadata'
  BY <1>3, ProbeSteps DEF commitProbeAndEnqueue
<1>4. ASSUME NEW o \in Operators, commitDeletionAndCancel(o) PROVE metadata'
  BY <1>4 DEF commitDeletionAndCancel, commitDeletion, rowVars
<1>5. QED
  BY <1>1, <1>2, <1>3, <1>4 DEF Next

\* A finished analysis is not done again and its upload not completed again, however
\* late a completion or an earlier attempt comes.
THEOREM AnalysisStands == Spec => DownstreamStands
<1> DEFINE Stands == metadata /\ storage' # "removed" =>
                       /\ metadata'
                       /\ processing' \notin {"uploading", "queued", "probing", "failed", "rejected"}
<1>1. ASSUME Typed, Store, Store', [Next]_vars PROVE Stands
  <2>1. metadata /\ storage' # "removed" => metadata'
    BY <1>1, NextMetadata DEF vars, submissionVars, rowVars
  <2>2. metadata' => processing' \in {"awaiting_ai", "judged"}
    BY <1>1 DEF Store, AnalysisFits
  <2>3. QED
    BY <2>1, <2>2
<1>2. QED
  BY <1>1, StoreInvariant, PTL DEF Spec, DownstreamStands

----------------------------------------------------------------------------
(* A deletion that is over *)

NoOpenRun == storage \in Over => \A r \in Runs : run[r].execution \notin Open

\* Without its video no run is opened.
LEMMA RunsStayOver ==
    ASSUME Typed, Next, ~Available, NEW r \in Runs, run'[r].execution \in Open
    PROVE  run[r].execution \in Open
<1> RunsOK /\ run \in [Runs -> Run]
  BY DEF Typed, RunsOK
<1>1. ASSUME NEW q \in Runs, NEW x, run' = [run EXCEPT ![q].execution = x],
             run[q].execution \in Open
      PROVE  run[r].execution \in Open
  BY <1>1 DEF Run
<1>2. CASE SubmissionStep /\ NoRunChanges
  BY <1>2 DEF NoRunChanges, annotationVars
<1>3. ASSUME NEW h \in Probes, commitProbeAndEnqueue(h) PROVE UNCHANGED run
  BY <1>3 DEF commitProbeAndEnqueue
<1>4. ASSUME NEW o \in Operators, commitDeletionAndCancel(o) PROVE run[r].execution \in Open
  BY <1>4 DEF commitDeletionAndCancel, cancelAnnotationRuns, NewRun, Open, Startable, Run
<1>5. ASSUME NEW q \in Runs, publishRun(q) \/ reclaim(q) \/ createNewVersion(q) \/ retry(q)
      PROVE  run[r].execution \in Open
  <2>1. \/ UNCHANGED run
        \/ run[q].execution \in Open /\ \E x : run' = [run EXCEPT ![q].execution = x]
    BY <1>5 DEF publishRun, reclaim, createNewVersion, retry, Queued, Open, Startable
  <2>2. QED
    BY <1>1, <2>1
<1>6. ASSUME NEW q \in Runs, Decided(q) \/ CameOut(q) \/ Counted(q) \/ Attempted(q)
      PROVE  run[r].execution \in Open
  <2>1. CASE \E x : run' = Superseding(q, x)
    <3>1. \/ run'[r].execution = "succeeded"
          \/ run'[r].execution = run[r].execution
      BY <2>1 DEF Superseding, Run
    <3>2. QED
      BY <3>1 DEF Open, Startable
  <2>2. CASE run' = [run EXCEPT ![q].execution = "succeeded", ![q].result = "pending"]
    <3>1. r = q => run'[r].execution = "succeeded"
      BY <2>2 DEF Run
    <3>2. r # q => run'[r] = run[r]
      BY <2>2
    <3>3. QED
      BY <3>1, <3>2 DEF Open, Startable
  <2>3. CASE run' = [run EXCEPT ![q].result = "withdrawn"]
    BY <2>3 DEF Run
  <2>4. CASE Counted(q)
    <3>1. run' = [run EXCEPT ![q] = [run[q] EXCEPT !.full = @ + 1]]
      BY <2>4 DEF Counted
    <3>2. QED
      BY <3>1 DEF Run
  <2>5. CASE Attempted(q)
    <3>1. r # q => run'[r] = run[r]
      BY <2>5 DEF Attempted
    <3>2. QED
      BY <2>5, <3>1 DEF Attempted, Open
  <2>6. QED
    BY <1>6, <2>1, <2>2, <2>3, <2>4, <2>5 DEF Decided, CameOut
<1>7. ASSUME NEW q \in Runs, discard(q) \/ review(q) PROVE run[r].execution \in Open
  <2>1. Decided(q)
    BY <1>7 DEF discard, review, Accepting, Decided
  <2>2. QED
    BY <1>6, <2>1
<1>8. ASSUME NEW m, Delivery(m) PROVE run[r].execution \in Open
  <2>1. \/ UNCHANGED run
        \/ /\ Delivered(m) /\ Exhausted(m.run)
           /\ run' = [run EXCEPT ![m.run].execution = "system_failed"]
    BY <1>8 DEF Delivery, dropBusy, skipRun, markFullBudgetExhausted, rejectRun, deliveryFails
  <2>2. QED
    BY <1>1, <2>1, DeliveredIsMessage DEF Exhausted, Open
<1>9. ASSUME NEW w \in Workers, Worker(w) PROVE run[r].execution \in Open
  <2>1. ASSUME NEW m, begin(w, m) PROVE run[r].execution \in Open
    <3>1. m.run \in Runs /\ Attempted(m.run)
      BY <2>1, DeliveredIsMessage DEF begin, Attempted
    <3>2. QED
      BY <1>6, <3>1
  <2>2. ASSUME callModel(w) \/ complete(w) \/ fail(w) PROVE run[r].execution \in Open
    <3> DEFINE q == attempt[w].run
    <3>1. q \in Runs
      BY <2>2, WorkerAt DEF callModel, complete, fail
    <3>2. \/ UNCHANGED run \/ Counted(q) \/ CameOut(q)
          \/ run[q].execution \in Open /\ \E x : run' = [run EXCEPT ![q].execution = x]
      BY <2>2 DEF callModel, complete, fail, Counted, CameOut, Open
    <3> HIDE DEF q
    <3>3. QED
      BY <1>1, <1>6, <3>1, <3>2
  <2>3. ASSUME \/ abort(w) \/ failFails(w) \/ timesOut(w) \/ dies(w) \/ losesChannel(w)
               \/ losesSession(w)
        PROVE  UNCHANGED run
    BY <2>3 DEF abort, failFails, timesOut, dies, losesChannel, losesSession
  <2>4. QED
    BY <1>9, <2>1, <2>2, <2>3 DEF Worker
<1>10. QED
  BY <1>2, <1>3, <1>4, <1>5, <1>7, <1>8, <1>9 DEF Next, RunStep

\* A deletion is over with its commit, which cancels what is open.
LEMMA StorageSteps ==
    ASSUME Typed, Store, Next, storage' \in Over, storage \notin Over
    PROVE  /\ ~Available
           /\ \A r \in Runs : run'[r].execution \notin Open
<1> RunsOK
  BY DEF Typed
<1>1. ASSUME NEW o \in Operators, commitDeletionAndCancel(o)
      PROVE  /\ ~Available
             /\ \A r \in Runs : run'[r].execution \notin Open
  <2>1. Pending
    BY <1>1 DEF commitDeletionAndCancel, commitDeletion, rowVars
  <2>2. QED
    BY <1>1, <2>1 DEF commitDeletionAndCancel, cancelAnnotationRuns, NewRun, Open, Startable,
         Pending, Available, RunsOK, Run
<1>2. CASE RunStep
  BY <1>2, RunStepsOnlyRuns DEF OnlyRunsChange, rowVars
<1>3. ASSUME NEW h \in Probes, commitProbeAndEnqueue(h) PROVE UNCHANGED storage
  BY <1>3 DEF commitProbeAndEnqueue, commitProbe
<1>4. CASE SubmissionStep
  <2>1. ASSUME NEW o \in Operators, Operator(o) PROVE storage' \in {storage, "delete_pending"}
    BY <2>1 DEF Operator, completeUpload, reconcileCompletion, ensureMultipartObject,
         completionFails, commitCompletion, abortUpload, deleteObjects, deleteSubmission,
         reconcileDeletion, deleteFiles, deletionFails, operatorDies, rowVars, Mark
  <2>2. \/ storage' = storage \/ storage' = "delete_pending"
    BY <1>4, <2>1, ProbeSteps DEF SubmissionStep
  <2>3. QED
    BY <2>2 DEF Over
<1>5. QED
  BY <1>1, <1>2, <1>3, <1>4 DEF Next

LEMMA NextNoOpenRun ==
    ASSUME Typed, Store, NoOpenRun, Next
    PROVE  NoOpenRun'
<1> SUFFICES ASSUME storage' \in Over, NEW r \in Runs PROVE run'[r].execution \notin Open
  BY DEF NoOpenRun
<1>1. CASE storage \notin Over
  BY <1>1, StorageSteps
<1>2. CASE storage \in Over
  <2>1. ~Available /\ run[r].execution \notin Open
    BY <1>2 DEF NoOpenRun, Over, Available
  <2>2. QED
    BY <2>1, RunsStayOver
<1>3. QED
  BY <1>1, <1>2

\* When a deletion is over neither the video nor an upload that could become one is
\* left, and no run waits for it or is opened again.
THEOREM DeletionIsClean == Spec => []DeletedIsClean
<1>1. Init => NoOpenRun
  BY DEF Init, SubmissionInit, NoOpenRun, Over
<1>2. Typed /\ Store /\ NoOpenRun /\ [Next]_vars => NoOpenRun'
  <2> SUFFICES ASSUME Typed, Store, NoOpenRun, [Next]_vars PROVE NoOpenRun'
    OBVIOUS
  <2>1. CASE UNCHANGED vars
    BY <2>1 DEF vars, submissionVars, rowVars, annotationVars, NoOpenRun
  <2>2. QED
    BY <2>1, NextNoOpenRun
<1>3. Store /\ NoOpenRun => DeletedIsClean
  BY DEF Store, RowsFit, NoOpenRun, DeletedIsClean, Clean, Over
<1>4. QED
  BY <1>1, <1>2, <1>3, StoreInvariant, PTL DEF Spec
----------------------------------------------------------------------------
(* A media task that waits *)

\* What an action has to show of a task that waits.
LEMMA Awaiting ==
    ASSUME MediaAwaited,
           \/ probeEvent'
           \/ BagToSet(probeQueue') # {}
           \/ ~(storage' # "removed" /\ upload' = "uploaded" /\ processing' = "queued")
           \/ /\ storage' # "removed" => storage # "removed"
              /\ upload' = "uploaded" => upload = "uploaded"
              /\ processing' = "queued" => processing = "queued"
              /\ UNCHANGED <<probeEvent, probeQueue>>
    PROVE  MediaAwaited'
BY DEF MediaAwaited, Uploaded

LEMMA OperatorMedia ==
    ASSUME MediaAwaited, NEW o \in Operators, Operator(o)
    PROVE  MediaAwaited'
<1>1. CASE completeUpload(o)
  BY <1>1, Awaiting DEF completeUpload
<1>2. CASE \/ reconcileCompletion(o) \/ ensureMultipartObject(o) \/ completionFails(o)
           \/ reconcileDeletion(o) \/ deleteFiles(o) \/ deletionFails(o) \/ operatorDies(o)
  BY <1>2, Awaiting DEF reconcileCompletion, ensureMultipartObject, completionFails,
     reconcileDeletion, deleteFiles, deletionFails, operatorDies, rowVars, probeVars
<1>3. CASE commitCompletion(o)
  <2>1. UNCHANGED <<storage, probeQueue>>
    BY <1>3 DEF commitCompletion
  <2>2. \/ probeEvent'
        \/ processing' = "rejected"
        \/ UNCHANGED <<upload, processing, probeEvent>>
    BY <1>3 DEF commitCompletion
  <2>3. QED
    BY <2>1, <2>2, Awaiting
<1>4. CASE abortUpload(o) \/ deleteObjects(o) \/ deleteSubmission(o)
  BY <1>4, Awaiting DEF abortUpload, deleteObjects, deleteSubmission, probeVars, Available
<1>5. QED
  BY <1>1, <1>2, <1>3, <1>4 DEF Operator

LEMMA ProbeMedia ==
    ASSUME Typed, MediaAwaited,
           \/ \E h \in Probes : Prober(h) \/ commitProbe(h)
           \/ \E n \in BagToSet(probeQueue) : skipProbe(n) \/ waitForLock(n)
           \/ publishProbe \/ reclaimProbe \/ judge \/ rerunAiQuality
    PROVE  MediaAwaited'
<1> IsABag(probeQueue)
  BY DEF Typed, ProbesOK, BagOf
<1>1. \A n : BagToSet(With(n)) # {}
  BY AddedIsABag DEF With
<1>2. \A n, k : BagToSet(Without(n) (+) SetToBag({k})) # {}
  <2> TAKE n, k
  <2>1. IsABag(Without(n))
    BY RemovedIsABag DEF Without
  <2>2. BagToSet(Without(n) (+) SetToBag({k})) = BagToSet(Without(n)) \cup {k}
    BY <2>1, AddedIsABag
  <2>3. QED
    BY <2>2
<1>3. ASSUME NEW n, skipProbe(n) PROVE MediaAwaited'
  BY <1>3 DEF skipProbe, Claimable, MediaAwaited, Uploaded, rowVars
<1>4. ASSUME NEW n, waitForLock(n) PROVE MediaAwaited'
  BY <1>2, <1>4, Awaiting DEF waitForLock
<1>5. CASE publishProbe
  BY <1>1, <1>5, Awaiting DEF publishProbe, With
<1>6. CASE reclaimProbe \/ judge \/ rerunAiQuality
  BY <1>6, Awaiting DEF reclaimProbe, judge, rerunAiQuality
<1>7. ASSUME NEW h \in Probes,
             \/ \E n \in BagToSet(probeQueue) : claimSubmission(h, n)
             \/ analyze(h) \/ probeLosesSession(h) \/ commitProbe(h)
      PROVE  MediaAwaited'
  BY <1>7, Awaiting DEF claimSubmission, analyze, probeLosesSession, commitProbe, rowVars
<1>8. ASSUME NEW h \in Probes,
             failProbe(h) \/ probeUnrecorded(h) \/ probeDies(h) \/ probeLosesChannel(h)
      PROVE  MediaAwaited'
  <2>1. UNCHANGED <<storage, upload, probeEvent>>
    BY <1>8 DEF failProbe, probeUnrecorded, probeDies, probeLosesChannel, rowVars
  <2>2. processing' = "queued" => processing = "queued"
    BY <1>8 DEF failProbe, probeUnrecorded, probeDies, probeLosesChannel, rowVars
  <2>3. UNCHANGED probeQueue \/ \E n : probeQueue' = With(n)
    BY <1>8 DEF failProbe, probeUnrecorded, probeDies, probeLosesChannel
  <2>4. QED
    BY <1>1, <2>1, <2>2, <2>3, Awaiting
<1>9. QED
  BY <1>3, <1>4, <1>5, <1>6, <1>7, <1>8 DEF Prober

\* A task that waits for its analysis never waits in vain, whatever became of the
\* messages and handlers before.
THEOREM MediaIsAwaited == Spec => []MediaAwaited
<1>1. Init => MediaAwaited
  BY DEF Init, SubmissionInit, MediaAwaited, Uploaded
<1>2. Typed /\ MediaAwaited /\ [Next]_vars => MediaAwaited'
  <2> SUFFICES ASSUME Typed, MediaAwaited, [Next]_vars PROVE MediaAwaited'
    OBVIOUS
  <2>1. CASE UNCHANGED vars
    BY <2>1, Awaiting DEF vars, submissionVars, rowVars, probeVars
  <2>2. CASE SubmissionStep
    BY <2>2, OperatorMedia, ProbeMedia DEF SubmissionStep
  <2>3. ASSUME NEW h \in Probes, commitProbeAndEnqueue(h) PROVE MediaAwaited'
    BY <2>3, ProbeMedia DEF commitProbeAndEnqueue
  <2>4. ASSUME NEW o \in Operators, commitDeletionAndCancel(o) PROVE MediaAwaited'
    BY <2>4, Awaiting DEF commitDeletionAndCancel, commitDeletion, rowVars
  <2>5. CASE RunStep
    BY <2>5, RunStepsOnlyRuns, Awaiting DEF OnlyRunsChange, rowVars, probeVars
  <2>6. QED
    BY <2>1, <2>2, <2>3, <2>4, <2>5 DEF Next
<1>3. QED
  BY <1>1, <1>2, TypedInvariant, PTL DEF Spec
----------------------------------------------------------------------------
(* A run that waits *)

\* Nothing that awaits a run is taken away.
Kept(r) ==
    /\ r \in runEvents => r \in runEvents'
    /\ \A m \in BagToSet(runQueue) : m.run = r => m \in BagToSet(runQueue')
    /\ \A w \in Working(r) : /\ attempt'[w] # NoAttempt
                             /\ attempt'[w].run = r
                             /\ attempt'[w].message = attempt[w].message

KeepsWaking(r) == \/ (Waiting(r)' => Waiting(r)) /\ Kept(r)
                  \/ ~Waiting(r)'
                  \/ Awaited(r)'

LEMMA KeptIsAwaited ==
    ASSUME NEW r \in Runs, Kept(r), Awaited(r)
    PROVE  Awaited(r)'
BY DEF Kept, Awaited, Working

LEMMA EventAwaits ==
    ASSUME NEW r, r \in runEvents'
    PROVE  Awaited(r)'
BY DEF Awaited

LEMMA MessageAwaits ==
    ASSUME RunsOK, NEW r, NEW n, runQueue' = runQueue (+) SetToBag({Message(r, n)})
    PROVE  Awaited(r)'
<1>1. IsABag(runQueue)
  BY DEF RunsOK, BagOf
<1>2. BagToSet(runQueue (+) SetToBag({Message(r, n)})) = BagToSet(runQueue) \cup {Message(r, n)}
  BY <1>1, AddedIsABag
<1>3. Message(r, n) \in BagToSet(runQueue')
  BY <1>2
<1>4. QED
  BY <1>3 DEF Awaited, Message

\* What is queued for a run, and what is taken off for another, leaves what there was.
LEMMA QueueKept ==
    ASSUME RunsOK, NEW r,
           \/ UNCHANGED runQueue
           \/ \E x : runQueue' = runQueue (+) SetToBag({x})
           \/ \E m : m.run # r /\ runQueue' = Gone(m)
    PROVE  \A m \in BagToSet(runQueue) : m.run = r => m \in BagToSet(runQueue')
<1>1. IsABag(runQueue)
  BY DEF RunsOK, BagOf
<1>2. ASSUME NEW x, runQueue' = runQueue (+) SetToBag({x})
      PROVE  BagToSet(runQueue) \subseteq BagToSet(runQueue')
  <2>1. BagToSet(runQueue (+) SetToBag({x})) = BagToSet(runQueue) \cup {x}
    BY <1>1, AddedIsABag
  <2>2. QED
    BY <1>2, <2>1
<1>3. ASSUME NEW m, runQueue' = Gone(m)
      PROVE  BagToSet(runQueue) \subseteq BagToSet(runQueue') \cup {m}
  <2>1. BagToSet(runQueue) \subseteq BagToSet(runQueue (-) SetToBag({m})) \cup {m}
    BY <1>1, RemovedIsABag
  <2>2. QED
    BY <1>3, <2>1 DEF Gone
<1>4. QED
  BY <1>2, <1>3

\* An attempt goes on, or one of another run begins or ends.
LEMMA WorkersKept ==
    ASSUME RunsOK, NEW r, NEW w \in Workers,
           \/ UNCHANGED attempt
           \/ \E phase : attempt' = [attempt EXCEPT ![w].phase = phase]
           \/ \E cause : Fails(w, cause)
           \/ w \notin Working(r) /\ \E x : attempt' = [attempt EXCEPT ![w] = x]
    PROVE  \A k \in Working(r) : /\ attempt'[k] # NoAttempt
                                 /\ attempt'[k].run = r
                                 /\ attempt'[k].message = attempt[k].message
<1> SUFFICES ASSUME NEW k \in Working(r)
             PROVE  /\ attempt'[k] # NoAttempt
                    /\ attempt'[k].run = r
                    /\ attempt'[k].message = attempt[k].message
  OBVIOUS
<1>1. k \in Workers /\ attempt[k] # NoAttempt /\ attempt[k].run = r /\ attempt[k] \in Attempt
  BY DEF Working, RunsOK
<1>2. \A x \in Attempt : x # NoAttempt
  BY DEF Attempt, NoAttempt
<1>3. CASE \E phase : attempt' = [attempt EXCEPT ![w].phase = phase]
  <2>1. PICK phase : attempt' = [attempt EXCEPT ![w].phase = phase]
    BY <1>3
  <2>2. k # w => attempt'[k] = attempt[k]
    BY <2>1, <1>1 DEF RunsOK
  <2>3. k = w => attempt'[k] = [attempt[k] EXCEPT !.phase = phase]
    BY <2>1, <1>1 DEF RunsOK
  <2>4. [attempt[k] EXCEPT !.phase = phase] # NoAttempt
    BY <1>1 DEF Attempt, NoAttempt
  <2>5. QED
    BY <1>1, <2>2, <2>3, <2>4 DEF Attempt
<1>4. CASE \E cause : Fails(w, cause)
  <2>1. PICK cause : Fails(w, cause)
    BY <1>4
  <2>2. k # w => attempt'[k] = attempt[k]
    BY <2>1, <1>1 DEF RunsOK, Fails
  <2>3. k = w => attempt'[k] = [attempt[k] EXCEPT !.phase = "failing", !.cause = cause]
    BY <2>1, <1>1 DEF RunsOK, Fails
  <2>4. [attempt[k] EXCEPT !.phase = "failing", !.cause = cause] # NoAttempt
    BY <1>1 DEF Attempt, NoAttempt
  <2>5. QED
    BY <1>1, <2>2, <2>3, <2>4 DEF Attempt
<1>5. CASE w \notin Working(r) /\ \E x : attempt' = [attempt EXCEPT ![w] = x]
  BY <1>1, <1>5 DEF RunsOK
<1>6. QED
  BY <1>1, <1>3, <1>4, <1>5

LEMMA WaitingIsOpen == \A r : Waiting(r) => run[r].execution \in Startable
BY DEF Waiting, Startable

\* The steps other than those of the deliveries and workers.
LEMMA CallersKeepWaking ==
    ASSUME Typed, NEW r \in Runs, SourceReady, Steady,
           \/ NoRunChanges
           \/ \E h \in Probes : commitProbeAndEnqueue(h)
           \/ \E o \in Operators : commitDeletionAndCancel(o)
           \/ \E q \in Runs : \/ publishRun(q) \/ reclaim(q) \/ createNewVersion(q)
                              \/ retry(q) \/ discard(q) \/ review(q)
    PROVE  KeepsWaking(r)
<1> RunsOK /\ run \in [Runs -> Run]
  BY DEF Typed, RunsOK
<1>1. ASSUME UNCHANGED runQueue, UNCHANGED attempt, UNCHANGED runEvents,
             Waiting(r)' => Waiting(r)
      PROVE  KeepsWaking(r)
  BY <1>1 DEF KeepsWaking, Kept, Working
<1>2. ASSUME NEW q \in Runs, UNCHANGED runQueue, UNCHANGED attempt,
             run' = Queued(q), runEvents' = runEvents \cup {q}
      PROVE  KeepsWaking(r)
  <2>1. CASE q = r
    BY <1>2, <2>1, EventAwaits DEF KeepsWaking
  <2>2. CASE q # r
    BY <1>2, <2>2 DEF KeepsWaking, Kept, Working, Waiting, Queued
  <2>3. QED
    BY <2>1, <2>2
<1>3. CASE NoRunChanges
  BY <1>1, <1>3 DEF NoRunChanges, annotationVars, Waiting
<1>4. ASSUME NEW h \in Probes, commitProbeAndEnqueue(h) PROVE KeepsWaking(r)
  BY <1>1, <1>2, <1>4, RunAssumption DEF commitProbeAndEnqueue, Waiting
<1>5. ASSUME NEW o \in Operators, commitDeletionAndCancel(o) PROVE KeepsWaking(r)
  <2>1. ~Pending
    BY DEF SourceReady, Available, Pending
  <2>2. QED
    BY <1>1, <1>5, <2>1 DEF commitDeletionAndCancel, Waiting
<1>6. ASSUME NEW q \in Runs, publishRun(q) PROVE KeepsWaking(r)
  <2>1. /\ runQueue' = runQueue (+) SetToBag({Message(q, 0)})
        /\ runEvents \ {q} \subseteq runEvents'
        /\ UNCHANGED <<run, attempt>>
    BY <1>6 DEF publishRun
  <2>2. CASE q = r
    BY <2>1, <2>2, MessageAwaits DEF KeepsWaking
  <2>3. CASE q # r
    <3>1. \A m \in BagToSet(runQueue) : m.run = r => m \in BagToSet(runQueue')
      BY <2>1, QueueKept
    <3>2. QED
      BY <2>1, <2>3, <3>1 DEF KeepsWaking, Kept, Working, Waiting
  <2>4. QED
    BY <2>2, <2>3
<1>7. ASSUME NEW q \in Runs, reclaim(q) PROVE KeepsWaking(r)
  <2>1. CASE run' = Queued(q) /\ Enqueue(q)
    BY <1>2, <1>7, <2>1 DEF reclaim, Enqueue
  <2>2. CASE run' = [run EXCEPT ![q].execution = "stuck"] /\ UNCHANGED runEvents
    <3>1. Waiting(r)' => Waiting(r)
      BY <2>2 DEF Waiting, Run
    <3>2. QED
      BY <1>1, <1>7, <2>2, <3>1 DEF reclaim
  <2>3. QED
    BY <1>7, <2>1, <2>2 DEF reclaim
<1>8. ASSUME NEW q \in Runs, createNewVersion(q) \/ retry(q) PROVE KeepsWaking(r)
  BY <1>2, <1>8 DEF createNewVersion, retry, Enqueue
<1>9. ASSUME NEW q \in Runs, discard(q) \/ review(q) PROVE KeepsWaking(r)
  <2>1. run' = [run EXCEPT ![q].result = "withdrawn"] \/ run' = Superseding(q, "formal")
    BY <1>9 DEF discard, review, Accepting
  <2>2. CASE run' = [run EXCEPT ![q].result = "withdrawn"]
    <3>1. run'[r].execution = run[r].execution
      BY <2>2 DEF Run
    <3>2. QED
      BY <1>1, <1>9, <3>1 DEF discard, review, Waiting
  <2>3. CASE run' = Superseding(q, "formal")
    <3>1. run'[r].execution = "succeeded" \/ run'[r].execution = run[r].execution
      BY <2>3 DEF Superseding, Run
    <3>2. Waiting(r)' => Waiting(r)
      BY <3>1 DEF Waiting
    <3>3. QED
      BY <1>1, <1>9, <3>2 DEF discard, review
  <2>4. QED
    BY <2>1, <2>2, <2>3
<1>10. QED
  BY <1>3, <1>4, <1>5, <1>6, <1>7, <1>8, <1>9

\* A message is taken off for good only where there is nothing to wait for, or where
\* an attempt that was not overtaken holds another.
LEMMA DeliveriesKeepWaking ==
    ASSUME Typed, NEW r \in Runs, SourceReady, disturbances' = disturbances,
           \A w \in Working(r) : ~Overtaken(w),
           NEW m, Delivery(m)
    PROVE  KeepsWaking(r)
<1> RunsOK /\ run \in [Runs -> Run]
  BY DEF Typed, RunsOK
<1>1. ~Fault
  BY DEF Fault, Typed
<1>2. \/ dropBusy(m) \/ skipRun(m) \/ markFullBudgetExhausted(m)
  BY <1>1 DEF Delivery, rejectRun, deliveryFails
<1>3. /\ runQueue' = Gone(m) /\ UNCHANGED runEvents /\ UNCHANGED attempt
      /\ m.run \in Runs
      /\ UNCHANGED run \/ run' = [run EXCEPT ![m.run].execution = "system_failed"]
  BY <1>2, DeliveredIsMessage DEF dropBusy, skipRun, markFullBudgetExhausted
<1>4. Waiting(r)' => Waiting(r)
  BY <1>3 DEF Waiting, Run
<1>5. CASE m.run # r
  <2>1. \A k \in BagToSet(runQueue) : k.run = r => k \in BagToSet(runQueue')
    BY <1>3, <1>5, QueueKept
  <2>2. QED
    BY <1>3, <1>4, <2>1 DEF KeepsWaking, Kept, Working
<1>6. CASE m.run = r /\ dropBusy(m)
  <2>1. PICK w \in Working(r) : attempt[w].locked
    BY <1>6 DEF dropBusy, LockHeld
  <2>2. attempt[w].message = "held"
    BY <2>1 DEF Overtaken
  <2>3. w \in Working(r)' /\ attempt'[w].message = "held"
    BY <1>3, <2>1, <2>2 DEF Working
  <2>4. QED
    BY <2>3 DEF KeepsWaking, Awaited
<1>7. CASE m.run = r /\ skipRun(m)
  BY <1>7, WaitingIsOpen DEF skipRun, KeepsWaking, Waiting
<1>8. CASE m.run = r /\ markFullBudgetExhausted(m)
  <2>1. run'[r].execution = "system_failed"
    BY <1>8 DEF markFullBudgetExhausted, Run
  <2>2. QED
    BY <2>1 DEF KeepsWaking, Waiting
<1>9. QED
  BY <1>2, <1>5, <1>6, <1>7, <1>8

\* An attempt that was not overtaken either ends its run or hands its message on.
LEMMA WorkersKeepWaking ==
    ASSUME Typed, NEW r \in Runs, disturbances' = disturbances,
           \A w \in Working(r) : ~Overtaken(w),
           NEW w \in Workers, Worker(w)
    PROVE  KeepsWaking(r)
<1> RunsOK /\ run \in [Runs -> Run]
  BY DEF Typed, RunsOK
<1>1. ~Fault
  BY DEF Fault, Typed
<1>2. ASSUME \/ UNCHANGED runQueue
             \/ \E x : runQueue' = runQueue (+) SetToBag({x})
             \/ \E m : m.run # r /\ runQueue' = Gone(m),
             \/ UNCHANGED attempt
             \/ \E phase : attempt' = [attempt EXCEPT ![w].phase = phase]
             \/ \E cause : Fails(w, cause)
             \/ w \notin Working(r) /\ \E x : attempt' = [attempt EXCEPT ![w] = x],
             UNCHANGED runEvents,
             Waiting(r)' => Waiting(r)
      PROVE  KeepsWaking(r)
  <2>1. \A m \in BagToSet(runQueue) : m.run = r => m \in BagToSet(runQueue')
    BY <1>2, QueueKept
  <2>2. \A k \in Working(r) : /\ attempt'[k] # NoAttempt
                              /\ attempt'[k].run = r
                              /\ attempt'[k].message = attempt[k].message
    BY <1>2, WorkersKept
  <2>3. QED
    BY <1>2, <2>1, <2>2 DEF KeepsWaking, Kept
<1>3. ASSUME NEW m, begin(w, m) PROVE KeepsWaking(r)
  <2>1. m.run \in Runs
    BY <1>3, DeliveredIsMessage DEF begin
  <2>2. CASE m.run = r
    <3>1. run'[r].execution = "running"
      BY <1>3, <2>2 DEF begin, Run
    <3>2. QED
      BY <3>1 DEF KeepsWaking, Waiting
  <2>3. CASE m.run # r
    <3>1. UNCHANGED runEvents /\ runQueue' = Gone(m) /\ w \notin Working(r)
      BY <1>3 DEF begin, Working
    <3>2. \E x : attempt' = [attempt EXCEPT ![w] = x]
      BY <1>3 DEF begin
    <3>3. run'[r] = run[r]
      BY <1>3, <2>3 DEF begin
    <3>4. Waiting(r)' => Waiting(r)
      BY <3>3 DEF Waiting
    <3>5. QED
      BY <1>2, <2>3, <3>1, <3>2, <3>4
  <2>4. QED
    BY <2>2, <2>3
<1> DEFINE q == attempt[w].run
<1>4. CASE callModel(w) \/ abort(w)
  <2>1. q \in Runs
    BY <1>4, WorkerAt DEF callModel, abort
  <2>2. UNCHANGED run \/ Counted(q)
    BY <1>4 DEF callModel, abort, Counted
  <2>3. UNCHANGED runEvents /\ UNCHANGED runQueue
    BY <1>4 DEF callModel, abort
  <2>4. \/ \E phase : attempt' = [attempt EXCEPT ![w].phase = phase]
        \/ \E cause : Fails(w, cause)
    BY <1>4 DEF callModel, abort
  <2> HIDE DEF q
  <2>5. run'[r].execution = run[r].execution
    <3>1. CASE Counted(q)
      <4>1. run' = [run EXCEPT ![q] = [run[q] EXCEPT !.full = @ + 1]]
        BY <3>1 DEF Counted
      <4>2. QED
        BY <2>1, <4>1 DEF Run
    <3>2. QED
      BY <2>2, <3>1
  <2>6. Waiting(r)' => Waiting(r)
    BY <2>5 DEF Waiting
  <2>7. QED
    BY <1>2, <2>3, <2>4, <2>6
<1>5. CASE complete(w)
  <2>1. q \in Runs
    BY <1>5, WorkerAt DEF complete
  <2>2. UNCHANGED runEvents /\ UNCHANGED runQueue
    BY <1>5 DEF complete
  <2>3. CASE UNCHANGED run /\ Fails(w, "retryable")
    BY <1>2, <2>2, <2>3 DEF Waiting
  <2>4. CASE UNCHANGED run /\ q = r /\ run[q].execution \notin Open
    BY <2>4, WaitingIsOpen DEF KeepsWaking, Waiting, Open
  <2>5. CASE UNCHANGED run /\ q # r /\ Release(w)
    <3>1. w \notin Working(r)
      BY <2>5 DEF Working
    <3>2. QED
      BY <1>2, <2>2, <2>5, <3>1 DEF Release, Waiting
  <2>6. CASE CameOut(q) /\ Release(w)
    <3> HIDE DEF q
    <3>1. q = r => run'[r].execution = "succeeded"
      BY <2>1, <2>6 DEF CameOut, Superseding, Run
    <3>2. q # r => run'[r].execution = run[r].execution
      BY <2>1, <2>6 DEF CameOut, Superseding, Run
    <3>3. CASE q = r
      BY <3>1, <3>3 DEF KeepsWaking, Waiting
    <3>4. CASE q # r
      <4>1. w \notin Working(r)
        BY <3>4 DEF Working, q
      <4>2. Waiting(r)' => Waiting(r)
        BY <3>2, <3>4 DEF Waiting
      <4>3. QED
        BY <1>2, <2>2, <2>6, <4>1, <4>2 DEF Release
    <3>5. QED
      BY <3>3, <3>4
  <2>7. \/ UNCHANGED run /\ Fails(w, "retryable")
        \/ UNCHANGED run /\ Release(w) /\ run[q].execution \notin Open
        \/ CameOut(q) /\ Release(w)
    BY <1>5 DEF complete, CameOut
  <2>8. QED
    BY <2>3, <2>4, <2>5, <2>6, <2>7
<1>6. CASE fail(w)
  <2>1. q \in Runs /\ attempt[w] # NoAttempt /\ attempt[w] \in Attempt
    BY <1>6, WorkerAt DEF fail
  <2>2. UNCHANGED runEvents /\ Release(w)
    BY <1>6 DEF fail
  <2>3. CASE q # r
    <3>1. w \notin Working(r)
      BY <2>3 DEF Working
    <3>2. Waiting(r)' => Waiting(r)
      BY <1>6, <2>3 DEF fail, Waiting
    <3>3. \/ UNCHANGED runQueue
          \/ \E x : runQueue' = runQueue (+) SetToBag({x})
      BY <1>6 DEF fail, HandOn
    <3>4. QED
      BY <1>2, <2>2, <3>1, <3>2, <3>3 DEF Release
  <2>4. CASE q = r
    <3>1. attempt[w].message = "held" /\ run[r].execution = "running"
      BY <2>1, <2>4 DEF Working, Overtaken
    <3>2. CASE \/ attempt[w].cause = "terminal"
               \/ attempt[w].cause = "invalid" /\ run[r].full >= FullBudget
               \/ attempt[w].retry = RetryDelays
      <4>1. run' = [run EXCEPT ![r].execution = "system_failed"]
        BY <1>6, <2>4, <3>1, <3>2 DEF fail
      <4>2. QED
        BY <4>1 DEF KeepsWaking, Waiting, Run
    <3>3. CASE attempt[w].cause # "terminal" /\ attempt[w].retry # RetryDelays
      <4>1. attempt[w].retry < RetryDelays
        BY <2>1, <3>3, SubmissionAssumption DEF Attempt
      <4>2. runQueue' = runQueue (+) SetToBag({Message(r, attempt[w].retry + 1)})
        BY <1>6, <2>4, <3>1, <3>3, <4>1 DEF fail, HandOn
      <4>3. QED
        BY <4>2, MessageAwaits DEF KeepsWaking
    <3>4. QED
      BY <3>2, <3>3
  <2>5. QED
    BY <2>3, <2>4
<1>7. \/ \E m \in BagToSet(runQueue) : begin(w, m)
      \/ callModel(w) \/ abort(w) \/ complete(w) \/ fail(w)
  BY <1>1 DEF Worker, failFails, timesOut, dies, losesChannel, losesSession
<1>8. QED
  BY <1>3, <1>4, <1>5, <1>6, <1>7

LEMMA NextDisturbances == Next => Fault \/ Steady
<1>1. ASSUME NEW o \in Operators, Operator(o) \/ commitDeletionAndCancel(o) PROVE Fault \/ Steady
  BY <1>1 DEF Operator, completeUpload, reconcileCompletion, ensureMultipartObject, completionFails,
     commitCompletion, abortUpload, deleteObjects, deleteSubmission, reconcileDeletion, deleteFiles,
     deletionFails, operatorDies, commitDeletionAndCancel, commitDeletion, Steady
<1>2. ASSUME NEW h \in Probes, Prober(h) \/ commitProbeAndEnqueue(h) PROVE Fault \/ Steady
  BY <1>2 DEF Prober, claimSubmission, analyze, failProbe, probeUnrecorded, probeDies,
     probeLosesChannel, probeLosesSession, commitProbeAndEnqueue, commitProbe, Steady
<1>3. ASSUME NEW n, skipProbe(n) \/ waitForLock(n) PROVE Fault \/ Steady
  BY <1>3 DEF skipProbe, waitForLock, Steady
<1>4. CASE publishProbe \/ reclaimProbe \/ judge \/ rerunAiQuality
  BY <1>4 DEF publishProbe, reclaimProbe, judge, rerunAiQuality, Steady
<1>5. ASSUME NEW r \in Runs, \/ publishRun(r) \/ reclaim(r)
                             \/ createNewVersion(r) \/ retry(r) \/ discard(r) \/ review(r)
      PROVE  Fault \/ Steady
  BY <1>5 DEF publishRun, reclaim, createNewVersion, retry, discard, review
<1>6. ASSUME NEW m, Delivery(m) PROVE Fault \/ Steady
  BY <1>6 DEF Delivery, dropBusy, skipRun, markFullBudgetExhausted, rejectRun, deliveryFails
<1>7. ASSUME NEW w \in Workers, Worker(w) PROVE Fault \/ Steady
  BY <1>7 DEF Worker, begin, callModel, abort, complete, fail, failFails, timesOut, dies,
     losesChannel, losesSession
<1>8. QED
  BY <1>1, <1>2, <1>3, <1>4, <1>5, <1>6, <1>7 DEF Next, SubmissionStep, RunStep

LEMMA NextKeepsWaking ==
    ASSUME Typed, NEW r \in Runs, [Next]_vars, Waiting(r) => Awaited(r),
           (Waiting(r) /\ ~Awaited(r))'
    PROVE  \/ \E w \in Working(r) : Overtaken(w)
           \/ ~SourceReady
           \/ disturbances' > disturbances
<1> SUFFICES ASSUME \A w \in Working(r) : ~Overtaken(w), SourceReady,
                    ~(disturbances' > disturbances)
             PROVE  FALSE
  OBVIOUS
<1>1. CASE UNCHANGED vars
  BY <1>1 DEF vars, annotationVars, Waiting, Awaited, Working
<1>2. CASE Next
  <2>1. Fault \/ Steady
    BY <1>2, NextDisturbances
  <2>2. Steady
    BY <2>1 DEF Fault, Typed
  <2>3. KeepsWaking(r)
    BY <1>2, <2>2, CallersKeepWaking, DeliveriesKeepWaking, WorkersKeepWaking
       DEF Next, RunStep, Steady
  <2>4. QED
    BY <2>3, KeptIsAwaited DEF KeepsWaking
<1>3. QED
  BY <1>1, <1>2

\* A run comes to wait for nothing only where its attempt was overtaken, its source
\* has gone, or something fails in that very step.
THEOREM RunsAreAwaited == Spec => WakeUpKept
<1>1. Typed /\ [Next]_vars => [\A r \in Runs :
         (Waiting(r) => Awaited(r)) /\ (Waiting(r) /\ ~Awaited(r))'
           => \/ \E w \in Working(r) : Overtaken(w)
              \/ ~SourceReady
              \/ disturbances' > disturbances]_vars
  BY NextKeepsWaking
<1>2. QED
  BY <1>1, TypedInvariant, PTL DEF Spec, WakeUpKept
----------------------------------------------------------------------------
(* The budget of a run *)

\* What a run is while one worker is at it and nothing has gone wrong.
Settled == {"running", "cancelled", "none"}

Busy(w) == attempt[w] # NoAttempt

\* A run whose row is gone under a worker.
RemovedOnly ==
    \A w \in Workers : Busy(w) /\ run[attempt[w].run].execution = "none" => storage = "removed"

Sole == \A w, v \in Workers : Busy(w) /\ Busy(v) /\ attempt[w].run = attempt[v].run => w = v

\* A worker without its lock is a disturbance, a run that was reclaimed under it another.
Undisturbed(w) ==
    LET a == attempt[w] IN
    /\ a.locked \/ run[a.run].execution \in Settled
    /\ (a.locked /\ run[a.run].execution \in Settled) \/ disturbances # 0
    /\ a.phase = "calling" => run[a.run].full < FullBudget

Budget ==
    \/ disturbances > 1
    \/ /\ Sole
       /\ \A w \in Workers : Busy(w) => Undisturbed(w)
       /\ \A r \in Runs : run[r].full <= FullBudget

LEMMA WithinAttempt ==
    ASSUME NEW a \in Attempt, NEW x \in {"calling", "completing", "failing"},
           NEW c \in {"none", "retryable", "invalid", "terminal"}, NEW y \in {"resent", "lost"}
    PROVE  /\ [a EXCEPT !.phase = x].run = a.run
           /\ [a EXCEPT !.phase = x].locked = a.locked
           /\ [a EXCEPT !.phase = x].phase = x
           /\ [a EXCEPT !.phase = "failing", !.cause = c].run = a.run
           /\ [a EXCEPT !.phase = "failing", !.cause = c].locked = a.locked
           /\ [a EXCEPT !.phase = "failing", !.cause = c].phase = "failing"
           /\ [a EXCEPT !.message = y].run = a.run
           /\ [a EXCEPT !.message = y].locked = a.locked
           /\ [a EXCEPT !.message = y].phase = a.phase
           /\ [a EXCEPT !.locked = FALSE].run = a.run
           /\ [a EXCEPT !.locked = FALSE].phase = a.phase
BY DEF Attempt

\* An attempt goes on, no longer calling once it has called.
LEMMA AttemptSteps ==
    ASSUME Typed, Next, NEW w \in Workers, Busy(w)', ~\E m : begin(w, m)
    PROVE  /\ Busy(w)
           /\ attempt'[w].run = attempt[w].run
           /\ attempt'[w].phase = "calling" => attempt[w].phase = "calling" /\ ~callModel(w)
           /\ \/ attempt'[w].locked = attempt[w].locked
              \/ UNCHANGED run /\ disturbances' = disturbances + 1
<1> RunsOK /\ attempt \in [Workers -> Attempt \cup {NoAttempt}]
  BY DEF Typed, RunsOK
<1> DEFINE Result ==
      /\ Busy(w)
      /\ attempt'[w].run = attempt[w].run
      /\ attempt'[w].phase = "calling" => attempt[w].phase = "calling" /\ ~callModel(w)
      /\ \/ attempt'[w].locked = attempt[w].locked
         \/ UNCHANGED run /\ disturbances' = disturbances + 1
<1>1. ASSUME attempt'[w] = attempt[w] PROVE Result
  <2>1. ~callModel(w)
    <3> SUFFICES ASSUME callModel(w) PROVE FALSE
      OBVIOUS
    <3>1. attempt[w] \in Attempt /\ attempt[w].phase = "calling"
      BY WorkerAt DEF callModel, At
    <3>2. \/ attempt' = [attempt EXCEPT ![w].phase = "completing"]
          \/ \E cause : Fails(w, cause)
      BY DEF callModel
    <3>3. attempt'[w].phase # "calling"
      BY <3>1, <3>2 DEF Fails, Attempt
    <3>4. QED
      BY <1>1, <3>1, <3>3
  <2>2. QED
    BY <1>1, <2>1 DEF Busy
<1>2. ASSUME NEW k \in Workers, k # w, NEW x, attempt' = [attempt EXCEPT ![k] = x] PROVE Result
  BY <1>1, <1>2
<1>3. ASSUME NEW k \in Workers, NEW m, begin(k, m) PROVE Result
  <2>1. k # w
    BY <1>3
  <2>2. \E x : attempt' = [attempt EXCEPT ![k] = x]
    BY <1>3 DEF begin
  <2>3. QED
    BY <1>2, <2>1, <2>2
<1>4. ASSUME NEW k \in Workers, Release(k) PROVE Result
  <2>1. k # w
    BY <1>4 DEF Release, Busy
  <2>2. QED
    BY <1>2, <1>4, <2>1 DEF Release
<1>5. ASSUME NEW k \in Workers, Busy(k), NEW cause, Fails(k, cause) PROVE Result
  <2>1. CASE k # w
    BY <1>1, <1>5, <2>1 DEF Fails
  <2>2. CASE k = w
    <3>1. attempt[w] \in Attempt
      BY <1>5, <2>2 DEF Busy
    <3>2. attempt'[w] = [attempt[w] EXCEPT !.phase = "failing", !.cause = cause]
      BY <1>5, <2>2 DEF Fails
    <3>3. /\ attempt'[w].run = attempt[w].run /\ attempt'[w].locked = attempt[w].locked
          /\ attempt'[w].phase = "failing"
      BY <3>1, <3>2 DEF Attempt
    <3>4. QED
      BY <1>5, <2>2, <3>3
  <2>3. QED
    BY <2>1, <2>2
<1>6. ASSUME NEW k \in Workers, callModel(k) PROVE Result
  <2>1. Busy(k) /\ attempt[k] \in Attempt
    BY <1>6, WorkerAt DEF callModel, Busy
  <2>2. CASE attempt' = [attempt EXCEPT ![k].phase = "completing"]
    <3>1. CASE k # w
      BY <1>1, <2>2, <3>1
    <3>2. CASE k = w
      <4>1. attempt'[w] = [attempt[w] EXCEPT !.phase = "completing"]
        BY <2>2, <3>2
      <4>2. QED
        BY <2>1, <3>2, <4>1 DEF Attempt
    <3>3. QED
      BY <3>1, <3>2
  <2>3. QED
    BY <1>5, <1>6, <2>1, <2>2 DEF callModel
<1>7. ASSUME NEW k \in Workers, abort(k) PROVE Result
  BY <1>5, <1>7, WorkerAt DEF abort, Busy
<1>8. ASSUME NEW k \in Workers, complete(k) PROVE Result
  BY <1>4, <1>5, <1>8, WorkerAt DEF complete, Busy
<1>9. ASSUME NEW k \in Workers, fail(k) \/ failFails(k) \/ dies(k) PROVE Result
  BY <1>4, <1>9 DEF fail, failFails, dies
<1>10. ASSUME NEW k \in Workers, timesOut(k) \/ losesChannel(k) \/ losesSession(k) PROVE Result
  <2>1. CASE k # w
    <3>1. attempt'[w] = attempt[w]
      BY <1>10, <2>1 DEF timesOut, losesChannel, losesSession
    <3>2. QED
      BY <1>1, <3>1
  <2>2. CASE k = w
    <3>1. Busy(w) /\ attempt[w] \in Attempt
      BY <1>10, <2>2 DEF timesOut, losesChannel, losesSession, Busy
    <3>2. \/ attempt'[w] = [attempt[w] EXCEPT !.message = "resent"]
          \/ attempt'[w] = [attempt[w] EXCEPT !.message = "lost"]
          \/ attempt'[w] = [attempt[w] EXCEPT !.locked = FALSE]
      BY <1>10, <2>2 DEF timesOut, losesChannel, losesSession
    <3>3. attempt'[w].run = attempt[w].run /\ attempt'[w].phase = attempt[w].phase
      BY <3>1, <3>2 DEF Attempt
    <3>4. UNCHANGED run /\ disturbances' = disturbances + 1 /\ ~callModel(w)
      <4>1. UNCHANGED run /\ disturbances' = disturbances + 1
        BY <1>10 DEF timesOut, losesChannel, losesSession, Fault
      <4>3. callModel(w) => attempt'[w].phase # "calling" /\ attempt[w].phase = "calling"
        BY <3>1 DEF callModel, Fails, At, Attempt
      <4>4. QED
        BY <3>3, <4>1, <4>3
    <3>5. QED
      BY <3>1, <3>3, <3>4
  <2>3. QED
    BY <2>1, <2>2
<1>11. ASSUME UNCHANGED attempt PROVE Result
  BY <1>1, <1>11
<1>12. ASSUME SubmissionStep, NoRunChanges PROVE Result
  BY <1>11, <1>12 DEF NoRunChanges, annotationVars
<1>13. ASSUME \/ \E h \in Probes : commitProbeAndEnqueue(h)
              \/ \E o \in Operators : commitDeletionAndCancel(o)
              \/ \E r \in Runs : \/ publishRun(r) \/ reclaim(r) \/ createNewVersion(r)
                                 \/ retry(r) \/ discard(r) \/ review(r)
              \/ \E m \in BagToSet(runQueue) : Delivery(m)
       PROVE  UNCHANGED attempt
  BY <1>13 DEF commitProbeAndEnqueue, commitDeletionAndCancel, publishRun, reclaim, createNewVersion,
     retry, discard, review, Delivery, dropBusy, skipRun, markFullBudgetExhausted, rejectRun,
     deliveryFails
<1> HIDE DEF Result
<1>14. ASSUME NEW k \in Workers, Worker(k) PROVE Result
  BY <1>3, <1>6, <1>7, <1>8, <1>9, <1>10, <1>14 DEF Worker
<1>15. ASSUME RunStep PROVE Result
  BY <1>11, <1>13, <1>14, <1>15 DEF RunStep
<1>16. Result
  BY <1>11, <1>12, <1>13, <1>15 DEF Next
<1>17. QED
  BY <1>16 DEF Result
LEMMA StaysRemoved ==
    ASSUME Typed, Store, Next, storage = "removed"
    PROVE  storage' = "removed"
<1>1. ASSUME NEW o \in Operators, Operator(o) PROVE UNCHANGED storage
  BY <1>1 DEF Operator, completeUpload, reconcileCompletion, ensureMultipartObject,
     completionFails, commitCompletion, abortUpload, deleteObjects, deleteSubmission,
     reconcileDeletion, deleteFiles, deletionFails, operatorDies, rowVars, Available
<1>2. CASE SubmissionStep
  BY <1>1, <1>2, ProbeSteps DEF SubmissionStep
<1>3. ASSUME NEW h \in Probes, commitProbeAndEnqueue(h) PROVE UNCHANGED storage
  BY <1>3 DEF commitProbeAndEnqueue, commitProbe
<1>4. ASSUME NEW o \in Operators, commitDeletionAndCancel(o) PROVE UNCHANGED storage
  BY <1>4 DEF commitDeletionAndCancel, commitDeletion, Pending, rowVars
<1>5. CASE RunStep
  BY <1>5, RunStepsOnlyRuns DEF OnlyRunsChange, rowVars
<1>6. QED
  BY <1>2, <1>3, <1>4, <1>5 DEF Next

\* A run is not made new but with its row.
LEMMA NoneSteps ==
    ASSUME Typed, Next, NEW r \in Runs, run'[r].execution = "none"
    PROVE  run[r].execution = "none" \/ storage' = "removed"
<1> run \in [Runs -> Run]
  BY DEF Typed, RunsOK
<1>1. CASE Cancelled
  BY <1>1 DEF Cancelled, Run
<1>2. ASSUME NEW q \in Runs, Restarted(q) PROVE run[r].execution = "none"
  BY <1>2 DEF Restarted, Run
<1>3. ASSUME NEW q \in Runs, Attempted(q) PROVE run[r].execution = "none"
  <2>1. r # q /\ run'[r] = run[r]
    BY <1>3 DEF Attempted
  <2>2. QED
    BY <2>1
<1>4. ASSUME NEW q \in Runs, Counted(q) PROVE run[r].execution = "none"
  <2>1. run' = [run EXCEPT ![q] = [run[q] EXCEPT !.full = @ + 1]]
    BY <1>4 DEF Counted
  <2>2. QED
    BY <2>1 DEF Run
<1>5. ASSUME NEW q \in Runs, CameOut(q) \/ Decided(q) PROVE run[r].execution = "none"
  <2>1. CASE \E x : run' = Superseding(q, x)
    BY <2>1 DEF Superseding, Run
  <2>2. CASE run' = [run EXCEPT ![q].execution = "succeeded", ![q].result = "pending"]
    BY <2>2 DEF Run
  <2>3. CASE run' = [run EXCEPT ![q].result = "withdrawn"]
    BY <2>3 DEF Run
  <2>4. QED
    BY <1>5, <2>1, <2>2, <2>3 DEF CameOut, Decided
<1>6. QED
  BY <1>1, <1>2, <1>3, <1>4, <1>5, RunSteps

LEMMA NextRemovedOnly ==
    ASSUME Typed, Store, RemovedOnly, Next
    PROVE  RemovedOnly'
<1> SUFFICES ASSUME NEW w \in Workers, Busy(w)', run'[attempt'[w].run].execution = "none"
             PROVE  storage' = "removed"
  BY DEF RemovedOnly
<1> RunsOK /\ RunsOK'
  BY NextTyped DEF Typed
<1> DEFINE r == attempt'[w].run
<1>1. r \in Runs
  BY DEF Busy, RunsOK, Attempt
<1>2. ASSUME NEW m, begin(w, m) PROVE FALSE
  <2>1. m.run \in Runs /\ attempt'[w].run = m.run
    BY <1>2, DeliveredIsMessage DEF begin, RunsOK
  <2>2. run'[m.run].execution = "running"
    BY <1>2, <2>1 DEF begin, RunsOK, Run
  <2>3. QED
    BY <2>1, <2>2
<1>3. Busy(w) /\ r = attempt[w].run
  BY <1>2, AttemptSteps
<1>4. run'[r].execution = "none"
  OBVIOUS
<1> HIDE DEF r
<1>5. run[r].execution = "none" \/ storage' = "removed"
  BY <1>1, <1>4, NoneSteps
<1>6. QED
  BY <1>3, <1>5, StaysRemoved DEF RemovedOnly

\* A run is taken from under its only worker by a reclaimer.
LEMMA ExecutionSteps ==
    ASSUME Typed, Results1, RemovedOnly, Sole, Next, NEW w \in Workers, Busy(w), Busy(w)',
           NEW r, r = attempt[w].run, attempt'[w].run = r,
           run'[r].execution \notin Settled
    PROVE  run[r].execution \notin Settled \/ disturbances' = disturbances + 1
<1> RunsOK /\ run \in [Runs -> Run] /\ r \in Runs
  BY BusyWorker DEF Typed, RunsOK, Busy
<1> DEFINE Result == run[r].execution \notin Settled \/ disturbances' = disturbances + 1
<1>1. ASSUME run'[r].execution = run[r].execution PROVE Result
  BY <1>1
<1>2. ASSUME Available PROVE run[r].execution # "none"
  BY <1>2 DEF RemovedOnly, Available
<1>3. ASSUME NEW q \in Runs, NEW x, run[q].execution = "none" => Available,
             run[q].execution \in {"none", "queued", "retry_scheduled", "stuck", "system_failed"},
             run' = [run EXCEPT ![q].execution = x]
      PROVE  Result
  BY <1>2, <1>3 DEF Settled, Run
<1>4. ASSUME SubmissionStep, NoRunChanges PROVE Result
  BY <1>1, <1>4 DEF NoRunChanges, annotationVars
<1>5. ASSUME NEW h \in Probes, commitProbeAndEnqueue(h) PROVE Result
  BY <1>1, <1>3, <1>5, RunAssumption DEF commitProbeAndEnqueue, Queued
<1>6. ASSUME NEW o \in Operators, commitDeletionAndCancel(o) PROVE Result
  <2>1. CASE UNCHANGED run
    BY <1>1, <2>1
  <2>2. CASE cancelAnnotationRuns
    BY <1>1, <2>2 DEF cancelAnnotationRuns, Run, Settled
  <2>3. CASE run' = [q \in Runs |-> NewRun]
    BY <2>3 DEF NewRun, Settled
  <2>4. QED
    BY <1>6, <2>1, <2>2, <2>3 DEF commitDeletionAndCancel
<1>7. ASSUME NEW q \in Runs, reclaim(q) PROVE Result
  <2>1. CASE q = r
    <3>1. Working(q) # {}
      BY <2>1 DEF Working, Busy
    <3>2. QED
      BY <1>7, <3>1 DEF reclaim, Fault
  <2>2. CASE q # r
    <3>1. run'[r] = run[r]
      BY <1>7, <2>2 DEF reclaim, Queued
    <3>2. QED
      BY <1>1, <3>1
  <2>3. QED
    BY <2>1, <2>2
<1>8. ASSUME NEW q \in Runs, publishRun(q) \/ createNewVersion(q) \/ retry(q) PROVE Result
  BY <1>1, <1>3, <1>8 DEF publishRun, createNewVersion, retry, Queued
<1>9. ASSUME NEW q \in Runs, discard(q) \/ review(q) PROVE Result
  <2>1. run[q].result # "none"
    BY <1>9 DEF discard, review
  <2>2. run[q].execution = "succeeded"
    BY <2>1 DEF Results1, SucceededOnly
  <2>3. CASE run' = Superseding(q, "formal")
    <3>1. run'[r].execution = run[r].execution
      BY <2>2, <2>3 DEF Superseding, Run
    <3>2. QED
      BY <1>1, <3>1
  <2>4. CASE run' = [run EXCEPT ![q].result = "withdrawn"]
    <3>1. run'[r].execution = run[r].execution
      BY <2>4 DEF Run
    <3>2. QED
      BY <1>1, <3>1
  <2>5. QED
    BY <1>9, <2>3, <2>4 DEF discard, review, Accepting
<1>10. ASSUME NEW m \in BagToSet(runQueue), Delivery(m) PROVE Result
  <2>1. \/ UNCHANGED run
        \/ /\ Delivered(m) /\ run[m.run].execution \in Startable
           /\ run' = [run EXCEPT ![m.run].execution = "system_failed"]
    BY <1>10 DEF Delivery, dropBusy, skipRun, markFullBudgetExhausted, rejectRun, deliveryFails,
       Exhausted
  <2>2. Delivered(m) => m.run \in Runs
    BY DeliveredIsMessage
  <2>3. QED
    BY <1>1, <1>3, <2>1, <2>2 DEF Startable
<1>11. ASSUME NEW k \in Workers, NEW m, begin(k, m) PROVE Result
  <2>1. m.run \in Runs
    BY <1>11, DeliveredIsMessage DEF begin
  <2>2. CASE m.run = r
    <3>1. run'[r].execution = "running"
      BY <1>11, <2>2 DEF begin, Run
    <3>2. QED
      BY <3>1 DEF Settled
  <2>3. CASE m.run # r
    <3>1. run'[r] = run[r]
      BY <1>11, <2>3 DEF begin
    <3>2. QED
      BY <1>1, <3>1
  <2>4. QED
    BY <2>2, <2>3
<1>12. ASSUME NEW k \in Workers, callModel(k) PROVE Result
  <2>1. attempt[k].run \in Runs
    BY <1>12, WorkerAt DEF callModel
  <2>2. UNCHANGED run \/ Counted(attempt[k].run)
    BY <1>12 DEF callModel, Counted
  <2> DEFINE q == attempt[k].run
  <2>3. UNCHANGED run \/ run' = [run EXCEPT ![q] = [run[q] EXCEPT !.full = @ + 1]]
    BY <2>2 DEF Counted
  <2> HIDE DEF q
  <2>4. run'[r].execution = run[r].execution
    BY <2>1, <2>3 DEF Run, q
  <2>5. QED
    BY <1>1, <2>4
\* The only worker of a run that ends an attempt is gone with it.
<1>13. ASSUME NEW k \in Workers, complete(k) \/ fail(k) PROVE Result
  <2> DEFINE q == attempt[k].run
  <2>1. q \in Runs /\ Busy(k)
    BY <1>13, WorkerAt DEF complete, fail, Busy
  <2>2. CASE UNCHANGED run
    BY <1>1, <2>2
  <2>3. CASE Release(k)
    <3>1. k # w
      BY <2>3 DEF Release, Busy, RunsOK
    <3>2. q # r
      BY <2>1, <3>1 DEF Sole
    <3>3. UNCHANGED run \/ CameOut(q) \/ Restarted(q)
      BY <1>13 DEF complete, fail, CameOut, Restarted, Open
    <3> HIDE DEF q
    <3>4. run'[r].execution = run[r].execution
      BY <2>1, <3>2, <3>3 DEF CameOut, Restarted, Superseding, Run
    <3>5. QED
      BY <1>1, <3>4
  <2>4. QED
    BY <1>13, <2>2, <2>3 DEF complete, fail
<1>14. ASSUME NEW k \in Workers,
              \/ abort(k) \/ failFails(k) \/ timesOut(k) \/ dies(k) \/ losesChannel(k)
              \/ losesSession(k)
       PROVE  Result
  BY <1>1, <1>14 DEF abort, failFails, timesOut, dies, losesChannel, losesSession
<1> HIDE DEF Result
<1>15. ASSUME NEW k \in Workers, Worker(k) PROVE Result
  BY <1>11, <1>12, <1>13, <1>14, <1>15 DEF Worker
<1>16. ASSUME RunStep PROVE Result
  BY <1>7, <1>8, <1>9, <1>10, <1>15, <1>16 DEF RunStep
<1>17. Result
  BY <1>4, <1>5, <1>6, <1>16 DEF Next
<1>18. QED
  BY <1>17 DEF Result
\* Only a call of the model adds to the answers of a run.
LEMMA FullSteps ==
    ASSUME Typed, Next, NEW r \in Runs
    PROVE  \/ run'[r].full \in {run[r].full, 0}
           \/ \E w \in Workers : /\ callModel(w) /\ attempt[w].run = r
                                 /\ run'[r].full = run[r].full + 1
<1> RunsOK /\ run \in [Runs -> Run]
  BY DEF Typed, RunsOK
<1>1. CASE Cancelled
  BY <1>1 DEF Cancelled, Run, NewRun
<1>2. ASSUME NEW q \in Runs, Restarted(q) PROVE run'[r].full = run[r].full
  BY <1>2 DEF Restarted, Run
<1>3. ASSUME NEW q \in Runs, Attempted(q) PROVE run'[r].full = run[r].full
  BY <1>3 DEF Attempted, Run
<1>4. ASSUME NEW w \in Workers, callModel(w), Counted(attempt[w].run)
      PROVE  \/ run'[r].full = run[r].full
             \/ attempt[w].run = r /\ run'[r].full = run[r].full + 1
  <2> DEFINE q == attempt[w].run
  <2>1. q \in Runs
    BY <1>4, WorkerAt DEF callModel
  <2>2. run' = [run EXCEPT ![q] = [run[q] EXCEPT !.full = @ + 1]]
    BY <1>4 DEF Counted
  <2> HIDE DEF q
  <2>3. q # r => run'[r].full = run[r].full
    BY <2>1, <2>2
  <2>4. q = r => run'[r].full = run[r].full + 1
    BY <2>1, <2>2 DEF Run
  <2>5. QED
    BY <2>3, <2>4 DEF q
<1>5. ASSUME NEW q \in Runs, CameOut(q) \/ Decided(q) PROVE run'[r].full = run[r].full
  <2>1. CASE \E x : run' = Superseding(q, x)
    BY <2>1 DEF Superseding, Run
  <2>2. CASE run' = [run EXCEPT ![q].execution = "succeeded", ![q].result = "pending"]
    BY <2>2 DEF Run
  <2>3. CASE run' = [run EXCEPT ![q].result = "withdrawn"]
    BY <2>3 DEF Run
  <2>4. QED
    BY <1>5, <2>1, <2>2, <2>3 DEF CameOut, Decided
<1>6. QED
  BY <1>1, <1>2, <1>3, <1>4, <1>5, RunSteps

\* An attempt begins alone, within the budget.
LEMMA Begins ==
    ASSUME Typed, Sole, NEW w \in Workers, NEW m, begin(w, m),
           \A k \in Workers : Busy(k) => Undisturbed(k)
    PROVE  /\ m.run \in Runs
           /\ attempt'[w].run = m.run /\ attempt'[w].locked
           /\ run'[m.run].execution = "running" /\ run'[m.run].full = run[m.run].full
           /\ run[m.run].full < FullBudget
           /\ \A k \in Workers : Busy(k) => attempt[k].run # m.run
           /\ \A k \in Workers : k # w => attempt'[k] = attempt[k]
           /\ ~Busy(w)
<1> RunsOK /\ run \in [Runs -> Run]
  BY DEF Typed, RunsOK
<1>1. m.run \in Runs
  BY DeliveredIsMessage DEF begin
<1>2. attempt'[w].run = m.run /\ attempt'[w].locked /\ ~Busy(w)
  BY DEF begin, RunsOK, Busy
<1>3. run'[m.run].execution = "running" /\ run'[m.run].full = run[m.run].full
  BY <1>1 DEF begin, Run
<1>4. run[m.run].full < FullBudget
  <2>1. run[m.run].full \in Nat
    BY <1>1 DEF Run
  <2>2. QED
    BY <2>1, RunAssumption DEF begin, Exhausted
<1>5. ASSUME NEW k \in Workers, Busy(k), attempt[k].run = m.run PROVE FALSE
  <2>1. ~attempt[k].locked
    BY <1>5 DEF begin, LockHeld, Working, Busy
  <2>2. run[m.run].execution \notin Settled
    BY DEF begin, Settled, Startable
  <2>3. QED
    BY <1>5, <2>1, <2>2 DEF Undisturbed
<1>6. \A k \in Workers : k # w => attempt'[k] = attempt[k]
  BY DEF begin
<1>7. QED
  BY <1>1, <1>2, <1>3, <1>4, <1>5, <1>6

LEMMA NextBudget ==
    ASSUME Typed, Results1, RemovedOnly, Budget, Next
    PROVE  Budget'
<1> RunsOK /\ run \in [Runs -> Run] /\ disturbances \in Nat /\ FullBudget \in Nat
  BY RunAssumption DEF Typed, RunsOK
<1> SUFFICES ASSUME ~(disturbances' > 1)
             PROVE  /\ Sole'
                    /\ \A w \in Workers : Busy(w)' => Undisturbed(w)'
                    /\ \A r \in Runs : run'[r].full <= FullBudget
  BY DEF Budget
<1>1. Fault \/ Steady
  BY NextDisturbances
<1>2. /\ disturbances' \in Nat /\ disturbances' >= disturbances
      /\ disturbances' = 0 => disturbances = 0
  BY <1>1 DEF Fault, Steady
<1>3. /\ Sole
      /\ \A w \in Workers : Busy(w) => Undisturbed(w)
      /\ \A r \in Runs : run[r].full <= FullBudget
  BY <1>2 DEF Budget
<1>4. Sole'
  <2> SUFFICES ASSUME NEW w \in Workers, NEW v \in Workers, Busy(w)', Busy(v)',
                      attempt'[w].run = attempt'[v].run, w # v
               PROVE  FALSE
    BY DEF Sole
  <2>1. ASSUME NEW x \in Workers, NEW y \in Workers, NEW m, begin(x, m), x # y, Busy(y)',
               attempt'[x].run = attempt'[y].run
        PROVE  FALSE
    <3>1. /\ attempt'[x].run = m.run
          /\ \A k \in Workers : Busy(k) => attempt[k].run # m.run
          /\ attempt'[y] = attempt[y]
      BY <1>3, <2>1, Begins
    <3>2. Busy(y) /\ attempt[y].run = m.run
      BY <2>1, <3>1 DEF Busy
    <3>3. QED
      BY <3>1, <3>2
  <2>2. (~\E m : begin(w, m)) /\ ~\E m : begin(v, m)
    BY <2>1
  <2>3. /\ Busy(w) /\ Busy(v)
        /\ attempt'[w].run = attempt[w].run /\ attempt'[v].run = attempt[v].run
    BY <2>2, AttemptSteps
  <2>4. QED
    BY <1>3, <2>3 DEF Sole
<1>5. ASSUME NEW w \in Workers, Busy(w)' PROVE Undisturbed(w)'
  <2>1. CASE \E m : begin(w, m)
    <3>1. PICK m : begin(w, m)
      BY <2>1
    <3>2. /\ attempt'[w].run = m.run /\ attempt'[w].locked
          /\ run'[m.run].execution = "running"
          /\ run'[m.run].full < FullBudget
      BY <1>3, <3>1, Begins
    <3>3. run'[attempt'[w].run].execution \in Settled /\ run'[attempt'[w].run].full < FullBudget
      BY <3>2 DEF Settled
    <3>4. QED
      BY <3>2, <3>3 DEF Undisturbed
  <2>2. CASE ~\E m : begin(w, m)
    <3>1. PICK r \in Runs : r = attempt[w].run
      BY <2>2, <1>5, AttemptSteps, BusyWorker DEF Busy
    <3>2. /\ Busy(w) /\ attempt'[w].run = r
          /\ attempt'[w].phase = "calling" => attempt[w].phase = "calling" /\ ~callModel(w)
          /\ \/ attempt'[w].locked = attempt[w].locked
             \/ UNCHANGED run /\ disturbances' = disturbances + 1
      BY <1>5, <2>2, <3>1, AttemptSteps
    <3>3. /\ attempt[w].locked \/ run[r].execution \in Settled
          /\ (attempt[w].locked /\ run[r].execution \in Settled) \/ disturbances # 0
          /\ attempt[w].phase = "calling" => run[r].full < FullBudget
      BY <1>3, <3>1, <3>2 DEF Undisturbed
    <3>4. \/ run'[r].execution \in Settled
          \/ run[r].execution \notin Settled
          \/ disturbances' = disturbances + 1
      BY <1>3, <1>5, <3>1, <3>2, ExecutionSteps
    <3>5. attempt'[w].locked \/ run'[r].execution \in Settled
      <4>1. CASE attempt'[w].locked = attempt[w].locked
        <5> SUFFICES ASSUME ~attempt[w].locked, run'[r].execution \notin Settled PROVE FALSE
          BY <4>1
        <5>1. run[r].execution \in Settled /\ disturbances # 0
          BY <3>3
        <5>2. disturbances' = disturbances + 1
          BY <3>4, <5>1
        <5>3. QED
          BY <5>1, <5>2
      <4>2. CASE UNCHANGED run /\ disturbances' = disturbances + 1
        <5>1. disturbances = 0
          BY <4>2
        <5>2. QED
          BY <3>3, <4>2, <5>1
      <4>3. QED
        BY <3>2, <4>1, <4>2
    <3>6. (attempt'[w].locked /\ run'[r].execution \in Settled) \/ disturbances' # 0
      <4>1. CASE disturbances # 0 \/ disturbances' = disturbances + 1
        BY <1>2, <4>1
      <4>2. CASE disturbances = 0 /\ disturbances' # disturbances + 1
        BY <3>2, <3>3, <3>4, <4>2
      <4>3. QED
        BY <4>1, <4>2
    <3>7. ASSUME attempt'[w].phase = "calling" PROVE run'[r].full < FullBudget
      <4>1. run[r].full < FullBudget /\ run[r].full \in Nat
        BY <3>2, <3>3, <3>7 DEF Run
      <4>2. ASSUME NEW k \in Workers, callModel(k), attempt[k].run = r PROVE FALSE
        <5>1. Busy(k)
          BY <4>2, WorkerAt DEF callModel, Busy
        <5>2. k = w
          BY <1>3, <3>1, <3>2, <4>2, <5>1 DEF Sole
        <5>3. QED
          BY <3>2, <3>7, <4>2, <5>2
      <4>3. run'[r].full \in {run[r].full, 0}
        BY <4>2, FullSteps
      <4>4. QED
        BY <4>1, <4>3
    <3>8. QED
      BY <3>2, <3>5, <3>6, <3>7 DEF Undisturbed
  <2>3. QED
    BY <2>1, <2>2
<1>6. ASSUME NEW r \in Runs PROVE run'[r].full <= FullBudget
  <2>1. run[r].full \in Nat /\ run[r].full <= FullBudget
    BY <1>3 DEF Run
  <2>2. CASE run'[r].full \in {run[r].full, 0}
    BY <2>1, <2>2
  <2>3. ASSUME NEW w \in Workers, callModel(w), attempt[w].run = r,
               run'[r].full = run[r].full + 1
        PROVE  run'[r].full <= FullBudget
    <3>1. Busy(w) /\ attempt[w].phase = "calling"
      BY <2>3, WorkerAt DEF callModel, Busy, At
    <3>2. run[r].full < FullBudget
      BY <1>3, <2>3, <3>1 DEF Undisturbed
    <3>3. QED
      BY <2>1, <2>3, <3>2
  <2>4. QED
    BY <2>2, <2>3, FullSteps
<1>7. QED
  BY <1>4, <1>5, <1>6

\* A run gets at most as many full answers as its budget allows, over all attempts,
\* retries and reclaims: it takes two disturbances for a worker to call once more.
THEOREM BudgetIsKept == Spec => []WithinBudget
<1> DEFINE Inv == Results1 /\ RemovedOnly /\ Budget
<1>1. Init => Inv
  <2> SUFFICES ASSUME Init PROVE Inv
    OBVIOUS
  <2>1. Results1
    BY DEF Init, RunInit, NewRun, Results1, OneResult, SucceededOnly, Published
  <2>2. \A w \in Workers : ~Busy(w)
    BY DEF Init, RunInit, Busy
  <2>3. \A r \in Runs : run[r].full <= FullBudget
    BY RunAssumption DEF Init, RunInit, NewRun
  <2>4. QED
    BY <2>1, <2>2, <2>3 DEF RemovedOnly, Budget, Sole
<1>2. Typed /\ Store /\ Inv /\ [Next]_vars => Inv'
  <2> SUFFICES ASSUME Typed, Store, Inv, [Next]_vars PROVE Inv'
    OBVIOUS
  <2>1. CASE UNCHANGED vars
    BY <2>1 DEF vars, submissionVars, rowVars, annotationVars, Results1, OneResult, SucceededOnly,
       RemovedOnly, Budget, Sole, Busy, Undisturbed
  <2>2. CASE Next
    BY <2>2, NextResults, NextRemovedOnly, NextBudget
  <2>3. QED
    BY <2>1, <2>2
<1>3. Inv => WithinBudget
  BY DEF Budget, WithinBudget
<1> HIDE DEF Inv
<1>4. QED
  BY <1>1, <1>2, <1>3, StoreInvariant, PTL DEF Spec

----------------------------------------------------------------------------
(* The submission as SubmissionLife tells it *)

\* An attempt begins on a video that has been analysed, which it stays.
BegunStudied == \A w \in Workers : Busy(w) => metadata \/ storage = "removed"

LifeInv == Store /\ NoOpenRun /\ Results1 /\ BegunStudied

LEMMA NextBegunStudied ==
    ASSUME Typed, Store, BegunStudied, Next
    PROVE  BegunStudied'
<1> SUFFICES ASSUME NEW w \in Workers, Busy(w)', storage' # "removed" PROVE metadata'
  BY DEF BegunStudied
<1>1. CASE \E m : begin(w, m)
  BY <1>1 DEF begin, SourceReady, OnlyRunsChange, rowVars
<1>2. CASE ~\E m : begin(w, m)
  <2>1. Busy(w)
    BY <1>2, AttemptSteps
  <2>2. storage # "removed"
    BY StaysRemoved
  <2>3. QED
    BY <2>1, <2>2, NextMetadata DEF BegunStudied
<1>3. QED
  BY <1>1, <1>2

\* How the stage of a row follows from its columns.
LEMMA Stages ==
    ASSUME RowsOK, RowsFit, AnalysisFits
    PROVE  /\ Stage \in {"uploading", "refused", "kept", "delete_pending", "deleted", "removed"}
           /\ Available => Stage \in {"uploading", "refused", "kept"}
           /\ ~Available => Stage = storage
           /\ Stage \in {"delete_pending", "deleted", "removed"} => Stage = storage
           /\ Stage = "uploading" => Available /\ upload \in {"uploading", "completing"}
           /\ upload \in {"uploading", "completing"} /\ Available => Stage = "uploading"
           /\ Stage = "kept" <=> Available /\ Uploaded /\ processing # "rejected"
           /\ Stage = "refused" <=> Available /\ Uploaded /\ processing = "rejected"
BY DEF RowsOK, RowsFit, AnalysisFits, Stage, Available, Uploaded

LEMMA Videos ==
    ASSUME StoreOK, RowsFit
    PROVE  /\ Video \in {"awaited", "whole", "short", "gone"}
           /\ Video = "awaited" <=> multipart = "open"
           /\ Video = "gone" <=> Clean
           /\ \A x \in Sizes : Video = x <=> original = x
BY DEF StoreOK, RowsFit, Video, Clean, Sizes

\* The runs change with their rows only.
Works == [r \in Runs |-> Work(run[r])]
Outcomes == [r \in Runs |-> run[r].result]

LEMMA SameRuns ==
    ASSUME UNCHANGED run
    PROVE  UNCHANGED Works /\ UNCHANGED Outcomes
BY DEF Works, Outcomes

LEMMA OneRun ==
    ASSUME NEW r \in Runs, \A q \in Runs \ {r} : run'[q] = run[q]
    PROVE  /\ Works' = [Works EXCEPT ![r] = Work(run'[r])]
           /\ Outcomes' = [Outcomes EXCEPT ![r] = run'[r].result]
<1>1. \A q \in Runs : Works'[q] = [Works EXCEPT ![r] = Work(run'[r])][q]
  BY DEF Works
<1>2. \A q \in Runs : Outcomes'[q] = [Outcomes EXCEPT ![r] = run'[r].result][q]
  BY DEF Outcomes
<1>3. QED
  BY <1>1, <1>2 DEF Works, Outcomes

\* An execution that is written anew leaves what has come out.
LEMMA OneExecution ==
    ASSUME RunsOK, NEW r \in Runs, NEW x, run' = [run EXCEPT ![r].execution = x]
    PROVE  /\ Works' = [Works EXCEPT ![r] = Work([execution |-> x])]
           /\ UNCHANGED Outcomes
<1>1. /\ \A q \in Runs \ {r} : run'[q] = run[q]
      /\ run'[r].execution = x /\ run'[r].result = run[r].result
  BY DEF RunsOK, Run
<1>2. Work(run'[r]) = Work([execution |-> x])
  BY <1>1 DEF Work
<1>3. Outcomes' = Outcomes
  BY <1>1, OneRun DEF Outcomes
<1>4. QED
  BY <1>1, <1>2, <1>3, OneRun

\* What a step of the upload, of a deletion or of the analysis shows.
LEMMA SubmissionLives ==
    ASSUME UNCHANGED run,
           \/ UNCHANGED <<Stage, Video, metadata>>
           \/ /\ UNCHANGED <<Video, metadata>>
              /\ \/ Stage = "uploading" /\ Video = "whole" /\ Stage' = "kept"
                 \/ /\ \/ Stage = "uploading" /\ Video = "short"
                       \/ Stage = "kept" /\ ~metadata
                    /\ Stage' = "refused"
                 \/ /\ Stage \in {"uploading", "kept", "refused", "deleted"}
                    /\ Stage = "uploading" => Video \notin {"whole", "short"}
                    /\ Stage' = "delete_pending"
           \/ /\ UNCHANGED <<Stage, metadata>>
              /\ \/ Stage = "uploading" /\ Video = "awaited" /\ Video' \in {"whole", "short"}
                 \/ Stage = "delete_pending" /\ Video' = "gone"
    PROVE  [Life!Next]_(Life!vars)
<1>1. /\ [r \in Runs |-> Work(run[r])]' = [r \in Runs |-> Work(run[r])]
      /\ [r \in Runs |-> run[r].result]' = [r \in Runs |-> run[r].result]
  OBVIOUS
<1>2. CASE UNCHANGED <<Stage, Video, metadata>>
  BY <1>1, <1>2 DEF Life!vars
<1>3. CASE UNCHANGED <<Video, metadata>> /\ ~UNCHANGED <<Stage, Video, metadata>>
  <2>1. CASE Stage = "uploading" /\ Video = "whole" /\ Stage' = "kept"
    BY <1>1, <1>3, <2>1 DEF Life!Accept, Life!Next
  <2>2. CASE /\ \/ Stage = "uploading" /\ Video = "short"
                \/ Stage = "kept" /\ ~metadata
             /\ Stage' = "refused"
    BY <1>1, <1>3, <2>2 DEF Life!Refuse, Life!Next
  <2>3. CASE /\ Stage \in {"uploading", "kept", "refused", "deleted"}
             /\ Stage = "uploading" => Video \notin {"whole", "short"}
             /\ Stage' = "delete_pending"
    BY <1>1, <1>3, <2>3 DEF Life!Delete, Life!Next
  <2>4. QED
    BY <1>3, <2>1, <2>2, <2>3
<1>4. CASE UNCHANGED <<Stage, metadata>> /\ ~UNCHANGED <<Stage, Video, metadata>>
  <2>1. CASE Stage = "uploading" /\ Video = "awaited" /\ Video' \in {"whole", "short"}
    BY <1>1, <1>4, <2>1 DEF Life!Arrive, Life!Next
  <2>2. CASE Stage = "delete_pending" /\ Video' = "gone"
    BY <1>1, <1>4, <2>2 DEF Life!Lose, Life!Next
  <2>3. QED
    BY <1>4, <2>1, <2>2
<1>5. QED
  BY <1>2, <1>3, <1>4

LEMMA CompletionLives ==
    ASSUME Typed, Store, Store', NoRunChanges, NEW o \in Operators,
           \/ completeUpload(o) \/ reconcileCompletion(o) \/ ensureMultipartObject(o)
           \/ completionFails(o) \/ commitCompletion(o)
    PROVE  [Life!Next]_(Life!vars)
<1> RowsOK /\ StoreOK /\ UNCHANGED run
  BY DEF Typed, NoRunChanges, annotationVars
<1> RowsFit /\ AnalysisFits
  BY DEF Store
<1>1. CASE completeUpload(o) \/ reconcileCompletion(o) \/ completionFails(o)
  <2>1. /\ UNCHANGED <<storage, processing, metadata, multipart, original>>
        /\ \/ UNCHANGED upload
           \/ upload \in {"uploading", "completing"} /\ upload' = "completing"
    BY <1>1 DEF completeUpload, reconcileCompletion, completionFails, rowVars, storeVars
  <2>2. UNCHANGED <<Stage, Video, metadata>>
    BY <2>1 DEF Stage, Video, Available, Uploaded
  <2>3. QED
    BY <2>2, SubmissionLives
<1>2. CASE ensureMultipartObject(o)
  <2>1. Completes(o) /\ op[o].step = "store" /\ UNCHANGED <<rowVars, metadata>>
    BY <1>2 DEF ensureMultipartObject, AtStore, Completes, rowVars
  <2>2. UNCHANGED Stage
    BY <2>1 DEF Stage, Available, Uploaded, rowVars
  <2>3. CASE multipart = "open"
    <3>1. original' \in Sizes /\ multipart' = "completed"
      BY <1>2, <2>3 DEF ensureMultipartObject
    <3>2. Stage = "uploading" /\ Video = "awaited"
      BY <2>1, <2>3, Stages, Videos DEF Store, OperatorsFit, CompletionFits, RowsFit
    <3>3. Video' \in {"whole", "short"}
      BY <3>1 DEF Video, Sizes
    <3>4. QED
      BY <2>1, <2>2, <3>2, <3>3, SubmissionLives
  <2>4. CASE multipart # "open"
    <3>1. UNCHANGED Video
      BY <1>2, <2>4 DEF ensureMultipartObject, Video
    <3>2. QED
      BY <2>1, <2>2, <3>1, SubmissionLives
  <2>5. QED
    BY <2>3, <2>4
<1>3. CASE commitCompletion(o)
  <2>1. /\ Completes(o) /\ AtCommit(o)
        /\ UNCHANGED <<storage, metadata, multipart, original>>
    BY <1>3 DEF commitCompletion, Completes, AtCommit, storeVars
  <2>2. UNCHANGED Video
    BY <2>1 DEF Video
  <2>3. \/ /\ upload' = "uploaded" /\ processing' = "queued" /\ op[o].found = "whole"
           /\ upload = "completing"
        \/ upload' = "uploaded" /\ processing' = "rejected" /\ op[o].found # "whole"
        \/ UNCHANGED <<upload, processing>>
    BY <1>3 DEF commitCompletion, SizeMatches, StillCompleting
  <2>4. /\ op[o].found \in Sizes /\ (storage = "available" => original = op[o].found)
        /\ upload # "uploading"
    BY <2>1 DEF Store, OperatorsFit, CompletionFits
  <2>5. CASE ~Available
    <3>1. UNCHANGED Stage
      BY <2>1, <2>5 DEF Stage, Available
    <3>2. QED
      BY <2>1, <2>2, <3>1, SubmissionLives
  <2>6. CASE Available /\ UNCHANGED <<upload, processing>>
    <3>1. UNCHANGED Stage
      BY <2>1, <2>6 DEF Stage, Available, Uploaded
    <3>2. QED
      BY <2>1, <2>2, <3>1, SubmissionLives
  <2>7. CASE Available /\ op[o].found = "whole" /\ ~UNCHANGED <<upload, processing>>
    <3>1. Stage = "uploading" /\ Stage' = "kept"
      BY <2>1, <2>3, <2>7 DEF Stage, Available, Uploaded
    <3>2. Video = "whole"
      BY <2>4, <2>7, Videos DEF Available, Sizes
    <3>3. QED
      BY <2>1, <2>2, <3>1, <3>2, SubmissionLives
  <2>8. CASE Available /\ op[o].found = "short" /\ ~UNCHANGED <<upload, processing>>
    <3>1. Stage' = "refused"
      BY <2>1, <2>3, <2>8 DEF Stage, Available, Uploaded
    <3>2. Video = "short" /\ original = "short"
      BY <2>4, <2>8, Videos DEF Available, Sizes
    <3>3. Stage \in {"uploading", "refused"}
      BY <2>8, <3>2, Stages DEF RowsFit, WholeObject
    <3>4. QED
      BY <2>1, <2>2, <3>1, <3>2, <3>3, SubmissionLives
  <2>9. QED
    BY <2>4, <2>5, <2>6, <2>7, <2>8 DEF Sizes
<1>4. QED
  BY <1>1, <1>2, <1>3

LEMMA DeletionLives ==
    ASSUME Typed, Store, Store', NoRunChanges, NEW o \in Operators,
           \/ abortUpload(o) \/ deleteObjects(o) \/ deleteSubmission(o) \/ reconcileDeletion(o)
           \/ deleteFiles(o) \/ deletionFails(o) \/ operatorDies(o)
    PROVE  [Life!Next]_(Life!vars)
<1> RowsOK /\ StoreOK /\ UNCHANGED run
  BY DEF Typed, NoRunChanges, annotationVars
<1> RowsFit /\ AnalysisFits /\ RowsFit'
  BY DEF Store
<1>1. CASE abortUpload(o) \/ deleteObjects(o) \/ deleteSubmission(o)
  <2>1. /\ storage \in {"available", "deleted"} /\ upload # "completing"
        /\ storage' = "delete_pending" /\ UNCHANGED <<metadata, multipart, original>>
    BY <1>1 DEF abortUpload, deleteObjects, deleteSubmission, Mark, Available, Uploaded,
       Deletable, storeVars
  <2>2. UNCHANGED Video
    BY <2>1 DEF Video
  <2>3. Stage' = "delete_pending"
    BY <2>1 DEF Stage, Available
  <2>4. Stage \in {"uploading", "kept", "refused", "deleted"}
    BY <2>1, Stages DEF Available
  <2>5. Stage = "uploading" => Video \notin {"whole", "short"}
    <3>1. Stage = "uploading" => upload = "uploading"
      BY <2>1, Stages
    <3>2. upload = "uploading" => original = "none"
      BY DEF RowsFit
    <3>3. QED
      BY <3>1, <3>2, Videos DEF Sizes
  <2>6. QED
    BY <2>1, <2>2, <2>3, <2>4, <2>5, SubmissionLives
<1>2. CASE reconcileDeletion(o) \/ operatorDies(o)
  <2>1. UNCHANGED <<rowVars, storeVars>>
    BY <1>2 DEF reconcileDeletion, operatorDies
  <2>2. UNCHANGED <<Stage, Video, metadata>>
    BY <2>1 DEF rowVars, storeVars, Stage, Video, Available, Uploaded
  <2>3. QED
    BY <2>2, SubmissionLives
<1>3. CASE deleteFiles(o) \/ deletionFails(o)
  <2>1. /\ Deletes(o) /\ UNCHANGED <<rowVars, metadata>>
        /\ UNCHANGED multipart \/ (multipart = "open" /\ multipart' = "aborted")
        /\ UNCHANGED original \/ original' = "none"
    BY <1>3 DEF deleteFiles, deletionFails, AtStore, Deletes, rowVars, storeVars
  <2>2. UNCHANGED Stage
    BY <2>1 DEF Stage, Available, Uploaded, rowVars
  <2>3. Stage \in {"delete_pending", "deleted", "removed"} /\ Stage = storage
    BY <2>1, Stages DEF Store, OperatorsFit, DeletionFits, RowsOK, Available
  <2>4. UNCHANGED Video \/ Video' = "gone"
    BY <2>1 DEF Video, RowsFit
  <2>5. Stage # "delete_pending" => Video = "gone"
    BY <2>3, Videos DEF RowsFit, Over
  <2>6. CASE UNCHANGED Video
    BY <2>1, <2>2, <2>6, SubmissionLives
  <2>7. CASE ~UNCHANGED Video
    <3>1. Video' = "gone" /\ Stage = "delete_pending"
      BY <2>3, <2>4, <2>5, <2>7
    <3>2. QED
      BY <2>1, <2>2, <3>1, SubmissionLives
  <2>8. QED
    BY <2>6, <2>7
<1>4. QED
  BY <1>1, <1>2, <1>3

\* Of an analysis under way only a refusal shows.
LEMMA ProbeLives ==
    ASSUME Typed, Store, Store', NoRunChanges,
           \/ \E h \in Probes : Prober(h)
           \/ \E n \in BagToSet(probeQueue) : skipProbe(n) \/ waitForLock(n)
           \/ publishProbe \/ reclaimProbe \/ judge \/ rerunAiQuality
    PROVE  [Life!Next]_(Life!vars)
<1> RowsOK /\ StoreOK /\ UNCHANGED run
  BY DEF Typed, NoRunChanges, annotationVars
<1> RowsFit /\ AnalysisFits
  BY DEF Store
<1>1. UNCHANGED metadata
  BY DEF Prober, claimSubmission, analyze, failProbe, probeUnrecorded, probeDies,
     probeLosesChannel, probeLosesSession, skipProbe, waitForLock, publishProbe, reclaimProbe,
     judge, rerunAiQuality, rowVars
<1>2. /\ UNCHANGED <<upload, storage, multipart, original>>
      /\ processing' # processing => /\ processing \notin {"rejected", "uploading"}
                                     /\ metadata => processing' \in {"awaiting_ai", "judged"}
  BY ProbeSteps
<1>3. UNCHANGED Video
  BY <1>2 DEF Video
<1>4. CASE UNCHANGED Stage
  BY <1>1, <1>3, <1>4, SubmissionLives
<1>5. CASE ~UNCHANGED Stage
  <2>1. Stage = "kept" /\ Stage' = "refused" /\ ~metadata
    BY <1>2, <1>5 DEF Stage, Available, Uploaded
  <2>2. QED
    BY <1>1, <1>3, <2>1, SubmissionLives
<1>6. QED
  BY <1>4, <1>5

\* A finished analysis may open the first run.
LEMMA StudyLives ==
    ASSUME Typed, Store, NEW h \in Probes, commitProbeAndEnqueue(h)
    PROVE  [Life!Next]_(Life!vars)
<1> RowsOK /\ StoreOK /\ RunsOK
  BY DEF Typed
<1> RowsFit /\ AnalysisFits
  BY DEF Store
<1>1. /\ UNCHANGED <<upload, storage, multipart, original>>
      /\ IF StillProbing THEN processing' = "awaiting_ai" /\ metadata' = TRUE
                         ELSE UNCHANGED <<processing, metadata>>
  BY DEF commitProbeAndEnqueue, commitProbe, storeVars
<1>2. UNCHANGED Video
  BY <1>1 DEF Video
<1>3. UNCHANGED Stage
  BY <1>1 DEF Stage, Available, Uploaded, StillProbing
<1>4. CASE ~StillProbing
  <2>1. UNCHANGED run
    BY <1>4 DEF commitProbeAndEnqueue
  <2>2. QED
    BY <1>1, <1>2, <1>3, <1>4, <2>1, SubmissionLives
<1>5. CASE StillProbing
  <2>1. Stage \in {"kept", "delete_pending", "deleted"} /\ ~metadata /\ metadata' = TRUE
    BY <1>1, <1>5, Stages DEF StillProbing, AnalysisFits, RowsFit, RowsOK, Available, Uploaded
  <2>2. UNCHANGED Outcomes
    BY SameRuns, OneExecution, RunAssumption DEF commitProbeAndEnqueue, Queued
  <2>3. \/ UNCHANGED Works
        \/ /\ Stage = "kept" /\ Works[Initial] = "none"
           /\ Works' = [Works EXCEPT ![Initial] = "open"]
    <3>1. CASE UNCHANGED run
      BY <3>1, SameRuns
    <3>2. CASE ~UNCHANGED run
      <4>1. /\ Uploaded /\ Available /\ run[Initial].execution = "none"
            /\ run' = [run EXCEPT ![Initial].execution = "queued"]
        BY <3>2 DEF commitProbeAndEnqueue, Queued
      <4>2. Works' = [Works EXCEPT ![Initial] = Work([execution |-> "queued"])]
        BY <4>1, OneExecution, RunAssumption
      <4>3. Work([execution |-> "queued"]) = "open"
        BY DEF Work, Active
      <4>4. Works[Initial] = "none"
        BY <4>1, RunAssumption DEF Works, Work, Active
      <4>5. Stage = "kept"
        BY <1>5, <4>1, Stages DEF StillProbing
      <4>6. QED
        BY <4>2, <4>3, <4>4, <4>5
    <3>3. QED
      BY <3>1, <3>2
  <2>4. Life!Study
    BY <1>2, <1>3, <2>1, <2>2, <2>3 DEF Works, Outcomes, Life!Study
  <2>5. QED
    BY <2>4 DEF Life!Next
<1>6. QED
  BY <1>4, <1>5

LEMMA EndDeletionLives ==
    ASSUME Typed, Store, NEW o \in Operators, commitDeletionAndCancel(o)
    PROVE  [Life!Next]_(Life!vars)
<1> RowsOK /\ StoreOK /\ RunsOK /\ run \in [Runs -> Run]
  BY DEF Typed, RunsOK
<1> RowsFit /\ AnalysisFits
  BY DEF Store
<1>1. /\ Deletes(o) /\ AtCommit(o) /\ UNCHANGED <<multipart, original>>
  BY DEF commitDeletionAndCancel, commitDeletion, Deletes, AtCommit, storeVars
<1>2. UNCHANGED Video /\ Video = "gone"
  BY <1>1, Videos DEF Store, OperatorsFit, DeletionFits, Video
<1>3. CASE ~Pending
  <2>1. UNCHANGED <<rowVars, run>>
    BY <1>3 DEF commitDeletionAndCancel, commitDeletion
  <2>2. UNCHANGED <<Stage, metadata>>
    BY <2>1 DEF Stage, Available, Uploaded, rowVars
  <2>3. QED
    BY <1>2, <2>1, <2>2, SubmissionLives
<1>4. CASE Pending /\ mode = "objects"
  <2>1. storage' = "deleted" /\ UNCHANGED metadata /\ cancelAnnotationRuns
    BY <1>4 DEF commitDeletionAndCancel, commitDeletion
  <2>2. Stage = "delete_pending" /\ Stage' = "deleted"
    BY <1>4, <2>1 DEF Stage, Pending, Available
  <2>3. \A r \in Runs : Works'[r] = IF Works[r] \in {"open", "aside"} THEN "cancelled" ELSE Works[r]
    <3> SUFFICES ASSUME NEW r \in Runs
                 PROVE  Work(run'[r]) = IF Work(run[r]) \in {"open", "aside"} THEN "cancelled"
                                        ELSE Work(run[r])
      BY DEF Works
    <3>1. CASE run[r].execution \in Open
      <4>1. run'[r].execution = "cancelled"
        BY <2>1, <3>1 DEF cancelAnnotationRuns, Run
      <4>2. QED
        BY <3>1, <4>1 DEF Work, Active, Open, Startable
    <3>2. CASE run[r].execution \notin Open
      <4>1. run'[r] = run[r]
        BY <2>1, <3>2 DEF cancelAnnotationRuns
      <4>2. Work(run[r]) \notin {"open", "aside"}
        BY <3>2 DEF Work, Active, Open, Startable, Run, Executions
      <4>3. QED
        BY <4>1, <4>2
    <3>3. QED
      BY <3>1, <3>2
  <2>4. UNCHANGED Outcomes
    BY <2>1 DEF cancelAnnotationRuns, Outcomes, Run
  <2>5. Works' = [r \in Runs |-> IF Works[r] \in {"open", "aside"} THEN "cancelled" ELSE Works[r]]
    BY <2>3 DEF Works
  <2>6. Life!EndDeletion
    BY <1>2, <2>1, <2>2, <2>4, <2>5 DEF Works, Outcomes, Life!EndDeletion, Life!Unfinished
  <2>7. QED
    BY <2>6 DEF Life!Next
<1>5. CASE Pending /\ mode = "submission"
  <2>1. storage' = "removed" /\ metadata' = FALSE /\ run' = [r \in Runs |-> NewRun]
    BY <1>5 DEF commitDeletionAndCancel, commitDeletion
  <2>2. Stage = "delete_pending" /\ Stage' = "removed"
    BY <1>5, <2>1 DEF Stage, Pending, Available
  <2>3. /\ Works' = [r \in Runs |-> "none"]
        /\ Outcomes' = [r \in Runs |-> "none"]
    BY <2>1 DEF Works, Outcomes, NewRun, Work, Active
  <2>4. Life!EndDeletion
    BY <1>2, <2>1, <2>2, <2>3 DEF Works, Outcomes, Life!EndDeletion
  <2>5. QED
    BY <2>4 DEF Life!Next
<1>6. QED
  BY <1>3, <1>4, <1>5 DEF RowsFit, Pending, RowsOK

\* What an annotation step shows leaves the row and the store alone.
LEMMA RunFrameLives ==
    ASSUME RunStep
    PROVE  UNCHANGED <<Stage, Video, metadata>>
BY RunStepsOnlyRuns DEF OnlyRunsChange, rowVars, storeVars, Stage, Video, Available, Uploaded

LEMMA WorkOf ==
    /\ \A x \in Active : Work([execution |-> x]) = "open"
    /\ Work([execution |-> "stuck"]) = "aside"
    /\ Work([execution |-> "system_failed"]) = "failed"
BY DEF Work, Active

LEMMA WorksAt ==
    ASSUME RunsOK, NEW r \in Runs
    PROVE  /\ run[r].execution \in Active <=> Works[r] = "open"
           /\ run[r].execution = "stuck" <=> Works[r] = "aside"
           /\ run[r].execution = "system_failed" <=> Works[r] = "failed"
           /\ run[r].execution = "succeeded" <=> Works[r] = "done"
           /\ run[r].execution = "none" <=> Works[r] = "none"
           /\ run[r].execution \in Open <=> Works[r] \in {"open", "aside"}
           /\ Outcomes[r] = run[r].result
<1>1. run[r].execution \in Executions
  BY DEF RunsOK, Run
<1>2. Works[r] = Work(run[r]) /\ Outcomes[r] = run[r].result
  BY DEF Works, Outcomes
<1>3. QED
  BY <1>1, <1>2 DEF Work, Active, Open, Startable, Executions

LEMMA NoOtherWorks ==
    ASSUME RunsOK, NEW r \in Runs, ~OtherActive(r)
    PROVE  \A q \in Runs \ {r} : Works[q] # "open"
BY WorksAt DEF OtherActive

\* Nothing is open once a deletion is over.
LEMMA OpenIsAlive ==
    ASSUME Typed, Store, NoOpenRun, NEW r \in Runs, run[r].execution \in Open
    PROVE  Stage \notin {"deleted", "removed"}
BY Stages DEF Typed, Store, NoOpenRun, Over

\* A run that is opened, set aside or fails.
LEMMA WorkLives ==
    ASSUME UNCHANGED <<Stage, Video, metadata>>, UNCHANGED Outcomes, NEW r \in Runs,
           \/ /\ Works' = [Works EXCEPT ![r] = "open"]
              /\ \/ /\ Stage \in {"kept", "refused"} /\ Works[r] = "none"
                    /\ \A q \in Runs \ {r} : Works[q] # "open"
                    /\ \A q \in Runs : Outcomes[q] # "pending"
                 \/ /\ Stage \in {"kept", "refused"} /\ Works[r] \in {"aside", "failed"}
                    /\ \A q \in Runs \ {r} : Works[q] # "open"
                 \/ /\ Stage \notin {"deleted", "removed"} /\ Works[r] = "aside"
                    /\ \A q \in Runs \ {r} : Works[q] # "open"
                 \/ Stage = "kept" /\ metadata /\ Works[r] = "aside"
           \/ Works' = [Works EXCEPT ![r] = "aside"] /\ Works[r] = "open"
           \/ Works' = [Works EXCEPT ![r] = "failed"] /\ Works[r] \in {"open", "aside"}
    PROVE  Life!Next
<1>1. CASE /\ Works' = [Works EXCEPT ![r] = "open"]
           /\ \/ /\ Stage \in {"kept", "refused"} /\ Works[r] = "none"
                 /\ \A q \in Runs \ {r} : Works[q] # "open"
                 /\ \A q \in Runs : Outcomes[q] # "pending"
              \/ /\ Stage \in {"kept", "refused"} /\ Works[r] \in {"aside", "failed"}
                 /\ \A q \in Runs \ {r} : Works[q] # "open"
              \/ /\ Stage \notin {"deleted", "removed"} /\ Works[r] = "aside"
                 /\ \A q \in Runs \ {r} : Works[q] # "open"
              \/ Stage = "kept" /\ metadata /\ Works[r] = "aside"
  <2>1. CASE /\ Stage \in {"kept", "refused"} /\ Works[r] = "none"
             /\ \A q \in Runs \ {r} : Works[q] # "open"
             /\ \A q \in Runs : Outcomes[q] # "pending"
    <3>1. Life!Start(r)
      BY <1>1, <2>1 DEF Works, Outcomes, Life!Start, Life!NoOther, Life!Begun
    <3>2. QED
      BY <3>1 DEF Life!Next
  <2>2. CASE \/ /\ Stage \in {"kept", "refused"} /\ Works[r] \in {"aside", "failed"}
                /\ \A q \in Runs \ {r} : Works[q] # "open"
             \/ /\ Stage \notin {"deleted", "removed"} /\ Works[r] = "aside"
                /\ \A q \in Runs \ {r} : Works[q] # "open"
             \/ Stage = "kept" /\ metadata /\ Works[r] = "aside"
    <3>1. Life!Resume(r)
      BY <1>1, <2>2 DEF Works, Outcomes, Life!Resume, Life!NoOther, Life!Begun
    <3>2. QED
      BY <3>1 DEF Life!Next
  <2>3. QED
    BY <1>1, <2>1, <2>2
<1>2. CASE Works' = [Works EXCEPT ![r] = "aside"] /\ Works[r] = "open"
  <2>1. Life!SetAside(r)
    BY <1>2 DEF Works, Outcomes, Life!SetAside
  <2>2. QED
    BY <2>1 DEF Life!Next
<1>3. CASE Works' = [Works EXCEPT ![r] = "failed"] /\ Works[r] \in {"open", "aside"}
  <2>1. Life!Fail(r)
    BY <1>3 DEF Works, Outcomes, Life!Fail, Life!Unfinished
  <2>2. QED
    BY <2>1 DEF Life!Next
<1>4. QED
  BY <1>1, <1>2, <1>3

LEMMA PublicationLives ==
    ASSUME RunsOK, Results1, NEW r \in Runs, NEW x \in Published, run' = Superseding(r, x)
    PROVE  /\ Outcomes' = [q \in Runs |-> IF q = r THEN x
                                          ELSE IF Outcomes[q] \in {"formal", "audit"}
                                            THEN "withdrawn" ELSE Outcomes[q]]
           /\ Works' = [Works EXCEPT ![r] = "done"]
<1> run \in [Runs -> Run]
  BY DEF RunsOK
<1>1. /\ run'[r].execution = "succeeded" /\ run'[r].result = x
      /\ \A q \in Runs \ {r} :
           /\ run'[q].execution = run[q].execution
           /\ run'[q].result = IF run[q].result \in Published THEN "withdrawn"
                              ELSE run[q].result
  BY DEF Superseding, Run
<1>2. ASSUME NEW q \in Runs \ {r} PROVE Work(run'[q]) = Work(run[q])
  BY <1>1 DEF Work
<1>3. Work(run'[r]) = "done"
  BY <1>1 DEF Work, Active
<1>4. Works' = [Works EXCEPT ![r] = "done"]
  <2>1. \A q \in Runs : Works'[q] = [Works EXCEPT ![r] = "done"][q]
    BY <1>2, <1>3 DEF Works
  <2>2. QED
    BY <2>1 DEF Works
<1>5. QED
  BY <1>1, <1>4 DEF Outcomes, Published

\* A run that comes to something.
LEMMA OutcomeLives ==
    ASSUME Typed, Store, NoOpenRun, Results1, BegunStudied, RunStep, NEW w \in Workers,
           complete(w)
    PROVE  [Life!Next]_(Life!vars)
<1> RunsOK /\ run \in [Runs -> Run] /\ UNCHANGED <<Stage, Video, metadata>>
  BY RunFrameLives DEF Typed, RunsOK
<1>1. PICK r \in Runs : r = attempt[w].run /\ Busy(w)
  BY WorkerAt DEF complete, Busy
<1>2. CASE UNCHANGED run
  BY <1>2, SubmissionLives
<1>3. CASE ~UNCHANGED run
  <2>1. /\ run[r].execution \in Open
        /\ \/ \E x \in Published : run' = Superseding(r, x)
           \/ /\ ~OtherPending(r)
              /\ run' = [run EXCEPT ![r].execution = "succeeded", ![r].result = "pending"]
    BY <1>1, <1>3 DEF complete
  <2>2. Works[r] \in {"open", "aside"} /\ Stage \notin {"deleted", "removed"}
    BY <1>1, <2>1, WorksAt, OpenIsAlive
  <2>3. metadata
    BY <1>1, <2>2, Stages DEF BegunStudied, Typed, Store, Available
  <2>4. CASE \E x \in Published : run' = Superseding(r, x)
    <3>1. PICK x \in Published : run' = Superseding(r, x)
      BY <2>4
    <3>2. /\ Outcomes' = [q \in Runs |-> IF q = r THEN x
                                         ELSE IF Outcomes[q] \in {"formal", "audit"}
                                           THEN "withdrawn" ELSE Outcomes[q]]
          /\ Works' = [Works EXCEPT ![r] = "done"]
      BY <1>1, <3>1, PublicationLives
    <3>3. Life!ComesOut(r)
      BY <1>1, <2>2, <2>3, <3>2
         DEF Works, Outcomes, Published, Life!ComesOut, Life!Unfinished, Life!Succeeds, Life!Formal
    <3>4. QED
      BY <1>1, <3>3 DEF Life!Next
  <2>5. CASE /\ ~OtherPending(r)
             /\ run' = [run EXCEPT ![r].execution = "succeeded", ![r].result = "pending"]
    <3>1. /\ run'[r].execution = "succeeded" /\ run'[r].result = "pending"
          /\ \A q \in Runs \ {r} : run'[q] = run[q]
      BY <1>1, <2>5 DEF Run
    <3>2. Work(run'[r]) = "done"
      BY <3>1 DEF Work, Active
    <3>3. /\ Works' = [Works EXCEPT ![r] = "done"]
          /\ Outcomes' = [Outcomes EXCEPT ![r] = "pending"]
      BY <1>1, <3>1, <3>2, OneRun
    <3>4. \A q \in Runs : Outcomes[q] # "pending"
      <4>1. Outcomes[r] # "pending"
        BY <1>1, <2>1 DEF Outcomes, Results1, SucceededOnly, Open, Startable
      <4>2. QED
        BY <2>5, <4>1 DEF Outcomes, OtherPending
    <3>5. Life!ComesOut(r)
      BY <1>1, <2>2, <2>3, <3>3, <3>4 DEF Works, Outcomes, Life!ComesOut, Life!Unfinished
    <3>6. QED
      BY <1>1, <3>5 DEF Life!Next
  <2>6. QED
    BY <2>1, <2>4, <2>5
<1>4. QED
  BY <1>2, <1>3

LEMMA DecisionLives ==
    ASSUME Typed, Store, Results1, RunStep, NEW r \in Runs, discard(r) \/ review(r)
    PROVE  [Life!Next]_(Life!vars)
<1> RunsOK /\ run \in [Runs -> Run] /\ UNCHANGED <<Stage, Video, metadata>>
  BY RunFrameLives DEF Typed, RunsOK
<1>1. Outcomes[r] \in {"pending", "audit"} /\ run[r].execution = "succeeded"
  BY DEF discard, review, Outcomes, Results1, SucceededOnly
<1>2. CASE run' = Superseding(r, "formal")
  <2>1. /\ Outcomes' = [q \in Runs |-> IF q = r THEN "formal"
                                       ELSE IF Outcomes[q] \in {"formal", "audit"}
                                         THEN "withdrawn" ELSE Outcomes[q]]
        /\ Works' = [Works EXCEPT ![r] = "done"]
    BY <1>2, PublicationLives DEF Published
  <2>2. Works' = Works
    BY <1>1, <2>1 DEF Works, Work, Active
  <2>3. Life!Decide(r)
    BY <1>1, <2>1, <2>2 DEF Works, Outcomes, Life!Decide, Life!Succeeds, Life!Formal
  <2>4. QED
    BY <2>3 DEF Life!Next
<1>3. CASE run' = [run EXCEPT ![r].result = "withdrawn"]
  <2>1. /\ run'[r].execution = run[r].execution /\ run'[r].result = "withdrawn"
        /\ \A q \in Runs \ {r} : run'[q] = run[q]
    BY <1>3 DEF Run
  <2>2. Work(run'[r]) = Works[r]
    BY <2>1 DEF Work, Works
  <2>3. UNCHANGED Works /\ Outcomes' = [Outcomes EXCEPT ![r] = "withdrawn"]
    BY <2>1, <2>2, OneRun DEF Works
  <2>4. Life!Decide(r)
    BY <1>1, <2>3 DEF Works, Outcomes, Life!Decide
  <2>5. QED
    BY <2>4 DEF Life!Next
<1>4. QED
  BY <1>2, <1>3 DEF discard, review, Accepting

\* What the reclaimer and the administrators open again.
LEMMA OpeningLives ==
    ASSUME Typed, Store, NoOpenRun, RunStep, NEW r \in Runs,
           publishRun(r) \/ reclaim(r) \/ createNewVersion(r) \/ retry(r)
    PROVE  [Life!Next]_(Life!vars)
<1> RunsOK /\ RowsOK /\ RowsFit /\ AnalysisFits /\ UNCHANGED <<Stage, Video, metadata>>
  BY RunFrameLives DEF Typed, Store
<1>1. CASE UNCHANGED run
  BY <1>1, SubmissionLives
<1>2. CASE UNCHANGED Works /\ UNCHANGED Outcomes
  BY <1>2 DEF Works, Outcomes, Life!vars
<1>3. ASSUME run' = Queued(r) PROVE Works' = [Works EXCEPT ![r] = "open"] /\ UNCHANGED Outcomes
  BY <1>3, OneExecution, WorkOf DEF Queued, Active
<1>4. Uploaded /\ Available => Stage \in {"kept", "refused"}
  BY Stages
<1>5. CASE publishRun(r)
  BY <1>1, <1>5 DEF publishRun
<1>6. CASE createNewVersion(r)
  <2>1. Works[r] = "none" /\ Stage \in {"kept", "refused"}
    BY <1>4, <1>6, WorksAt DEF createNewVersion
  <2>2. \A q \in Runs : Works[q] # "open" /\ Outcomes[q] # "pending"
    BY <1>6, WorksAt DEF createNewVersion
  <2>3. QED
    BY <1>3, <1>6, <2>1, <2>2, WorkLives DEF createNewVersion
<1>7. CASE retry(r)
  <2>1. Works[r] \in {"aside", "failed"} /\ Stage \in {"kept", "refused"}
    BY <1>4, <1>7, WorksAt DEF retry
  <2>2. QED
    BY <1>3, <1>7, <2>1, WorkLives, NoOtherWorks DEF retry
<1>8. CASE reclaim(r)
  <2>1. run[r].execution \in Open
    BY <1>8 DEF reclaim, Open, Startable
  <2>2. Stage \notin {"deleted", "removed"} /\ Works[r] \in {"open", "aside"}
    BY <2>1, OpenIsAlive, WorksAt
  <2>3. CASE run' = Queued(r) /\ ~OtherActive(r)
    <3>1. CASE Works[r] = "open"
      BY <1>2, <1>3, <2>3, <3>1 DEF Works
    <3>2. CASE Works[r] = "aside"
      BY <1>3, <2>2, <2>3, <3>2, WorkLives, NoOtherWorks
    <3>3. QED
      BY <2>2, <3>1, <3>2
  <2>4. CASE run' = [run EXCEPT ![r].execution = "stuck"]
    <3>1. Works' = [Works EXCEPT ![r] = "aside"] /\ UNCHANGED Outcomes
      BY <2>4, OneExecution, WorkOf
    <3>2. CASE Works[r] = "open"
      BY <3>1, <3>2, WorkLives
    <3>3. CASE Works[r] = "aside"
      BY <1>2, <3>1, <3>3 DEF Works
    <3>4. QED
      BY <2>2, <3>2, <3>3
  <2>5. QED
    BY <1>8, <2>3, <2>4 DEF reclaim
<1>9. QED
  BY <1>5, <1>6, <1>7, <1>8

\* What deliveries and attempts do to a run before it comes to something.
LEMMA AttemptLives ==
    ASSUME Typed, Store, NoOpenRun, RunStep,
           \/ \E m : Delivery(m)
           \/ \E w \in Workers : /\ ~complete(w)
                                 /\ Worker(w)
    PROVE  [Life!Next]_(Life!vars)
<1> RunsOK /\ run \in [Runs -> Run] /\ RowsOK /\ RowsFit /\ AnalysisFits
  BY DEF Typed, RunsOK, Store
<1> UNCHANGED <<Stage, Video, metadata>>
  BY RunFrameLives
<1>1. CASE UNCHANGED run
  BY <1>1, SubmissionLives
<1>2. CASE UNCHANGED Works /\ UNCHANGED Outcomes
  BY <1>2 DEF Works, Outcomes, Life!vars
<1>3. ASSUME NEW r \in Runs, run[r].execution \in Open,
             run' = [run EXCEPT ![r].execution = "system_failed"]
      PROVE  Life!Next
  <2>1. Works' = [Works EXCEPT ![r] = "failed"] /\ UNCHANGED Outcomes
    BY <1>3, OneExecution, WorkOf
  <2>2. QED
    BY <1>3, <2>1, WorksAt, WorkLives
<1>4. ASSUME NEW m, Delivery(m) PROVE UNCHANGED run \/ Life!Next
  <2>1. \/ UNCHANGED run
        \/ /\ Delivered(m) /\ Exhausted(m.run)
           /\ run' = [run EXCEPT ![m.run].execution = "system_failed"]
    BY <1>4 DEF Delivery, dropBusy, skipRun, markFullBudgetExhausted, rejectRun, deliveryFails
  <2>2. QED
    BY <1>3, <2>1, DeliveredIsMessage DEF Exhausted, Open
<1>5. ASSUME NEW w \in Workers, NEW m, begin(w, m) PROVE [Life!Next]_(Life!vars)
  <2> DEFINE r == m.run
  <2>1. r \in Runs
    BY <1>5, DeliveredIsMessage DEF begin
  <2>2. /\ run'[r].execution = "running" /\ run'[r].result = run[r].result
        /\ \A q \in Runs \ {r} : run'[q] = run[q]
    BY <1>5, <2>1 DEF begin, Run
  <2>3. run[r].execution \in Startable /\ SourceReady
    BY <1>5 DEF begin
  <2> HIDE DEF r
  <2>4. Works' = [Works EXCEPT ![r] = "open"] /\ UNCHANGED Outcomes
    <3>1. Work(run'[r]) = "open"
      BY <2>2 DEF Work, Active
    <3>2. QED
      BY <2>1, <2>2, <3>1, OneRun DEF Outcomes
  <2>5. Stage = "kept" /\ metadata
    BY <2>3, Stages DEF SourceReady, AnalysisFits
  <2>6. Works[r] \in {"open", "aside"}
    BY <2>1, <2>3, WorksAt DEF Open
  <2>7. CASE Works[r] = "open"
    BY <1>2, <2>4, <2>7 DEF Works
  <2>8. CASE Works[r] = "aside"
    BY <2>1, <2>4, <2>5, <2>8, WorkLives
  <2>9. QED
    BY <2>6, <2>7, <2>8
<1>6. ASSUME NEW w \in Workers, callModel(w) PROVE UNCHANGED Works /\ UNCHANGED Outcomes
  <2> DEFINE r == attempt[w].run
  <2>1. r \in Runs
    BY <1>6, WorkerAt DEF callModel
  <2>2. UNCHANGED run \/ run' = [run EXCEPT ![r] = [run[r] EXCEPT !.full = @ + 1]]
    BY <1>6 DEF callModel
  <2> HIDE DEF r
  <2>3. \A q \in Runs : /\ run'[q].execution = run[q].execution
                         /\ run'[q].result = run[q].result
    BY <2>1, <2>2 DEF Run
  <2>4. QED
    BY <2>3 DEF Works, Outcomes, Work
<1>7. ASSUME NEW w \in Workers, fail(w) PROVE [Life!Next]_(Life!vars)
  <2> DEFINE r == attempt[w].run
  <2>1. r \in Runs
    BY <1>7, WorkerAt DEF fail
  <2>2. \/ UNCHANGED run
        \/ /\ run[r].execution = "running"
           /\ \E x \in {"system_failed", "retry_scheduled"} : run' = [run EXCEPT ![r].execution = x]
    BY <1>7 DEF fail
  <2> HIDE DEF r
  <2>3. CASE run[r].execution = "running" /\ run' = [run EXCEPT ![r].execution = "retry_scheduled"]
    <3>1. Works' = [Works EXCEPT ![r] = "open"] /\ UNCHANGED Outcomes
      <4>1. Work([execution |-> "retry_scheduled"]) = "open"
        BY WorkOf DEF Active
      <4>2. QED
        BY <2>1, <2>3, <4>1, OneExecution
    <3>2. Works[r] = "open"
      BY <2>1, <2>3, WorksAt DEF Active
    <3>3. QED
      BY <1>2, <3>1, <3>2 DEF Works
  <2>4. QED
    BY <1>1, <1>3, <2>1, <2>2, <2>3 DEF Open
<1>8. ASSUME NEW w \in Workers,
             \/ abort(w) \/ failFails(w) \/ timesOut(w) \/ dies(w) \/ losesChannel(w)
             \/ losesSession(w)
      PROVE  UNCHANGED run
  BY <1>8 DEF abort, failFails, timesOut, dies, losesChannel, losesSession
<1>9. ASSUME NEW w \in Workers, Worker(w), ~complete(w) PROVE [Life!Next]_(Life!vars)
  BY <1>1, <1>2, <1>5, <1>6, <1>7, <1>8, <1>9 DEF Worker
<1>10. QED
  BY <1>1, <1>4, <1>9

LEMMA StepLives ==
    ASSUME Typed, LifeInv, LifeInv', [Next]_vars
    PROVE  [Life!Next]_(Life!vars)
<1> Store /\ Store' /\ NoOpenRun /\ Results1 /\ BegunStudied
  BY DEF LifeInv
<1>1. CASE UNCHANGED vars
  <2>1. UNCHANGED <<Stage, Video, metadata, run>>
    BY <1>1 DEF vars, submissionVars, rowVars, storeVars, annotationVars, Stage, Video, Available,
       Uploaded
  <2>2. QED
    BY <2>1, SubmissionLives
<1>2. CASE SubmissionStep /\ NoRunChanges
  BY <1>2, CompletionLives, DeletionLives, ProbeLives DEF SubmissionStep, Operator
<1>3. CASE RunStep
  <2>1. ASSUME NEW w \in Workers, Worker(w) PROVE [Life!Next]_(Life!vars)
    BY <1>3, <2>1, OutcomeLives, AttemptLives
  <2>2. QED
    BY <1>3, <2>1, OpeningLives, DecisionLives, AttemptLives DEF RunStep
<1>4. QED
  BY <1>1, <1>2, <1>3, StudyLives, EndDeletionLives DEF Next

LEMMA InitLives ==
    ASSUME Init
    PROVE  Life!Init
<1>1. Stage = "uploading" /\ Video = "awaited" /\ metadata = FALSE
  BY DEF Init, SubmissionInit, Stage, Video, Available, Uploaded
<1>2. /\ [r \in Runs |-> Work(run[r])] = [r \in Runs |-> "none"]
      /\ [r \in Runs |-> run[r].result] = [r \in Runs |-> "none"]
  BY DEF Init, RunInit, NewRun, Work, Active
<1>3. QED
  BY <1>1, <1>2 DEF Life!Init

LEMMA LifeInvariant == Spec => [](Typed /\ LifeInv)
<1>1. Init => NoOpenRun /\ Results1 /\ BegunStudied
  BY DEF Init, SubmissionInit, RunInit, NewRun, NoOpenRun, Over, Results1, OneResult,
     SucceededOnly, Published, BegunStudied, Busy
<1>2. Typed /\ Store /\ NoOpenRun /\ Results1 /\ BegunStudied /\ [Next]_vars
        => NoOpenRun' /\ Results1' /\ BegunStudied'
  <2> SUFFICES ASSUME Typed, Store, NoOpenRun, Results1, BegunStudied, [Next]_vars
               PROVE  NoOpenRun' /\ Results1' /\ BegunStudied'
    OBVIOUS
  <2>1. CASE UNCHANGED vars
    BY <2>1 DEF vars, submissionVars, rowVars, annotationVars, NoOpenRun, Results1, OneResult,
       SucceededOnly, BegunStudied, Busy
  <2>2. CASE Next
    BY <2>2, NextNoOpenRun, NextResults, NextBegunStudied
  <2>3. QED
    BY <2>1, <2>2
<1>3. QED
  BY <1>1, <1>2, StoreInvariant, PTL DEF Spec, LifeInv

\* Requests and reconciliations over the store, probes and annotation attempts under
\* their locks, the reclaimer, retries, reviews and deletions implement the life of a
\* submission that SubmissionLife promises, for any number of each and any mishaps.
THEOREM LifeKept == Spec => KeepsLife
<1>1. Init => Life!Init
  BY InitLives
<1>2. (Typed /\ LifeInv) /\ (Typed /\ LifeInv)' /\ [Next]_vars => [Life!Next]_(Life!vars)
  BY StepLives
<1>3. QED
  BY <1>1, <1>2, LifeInvariant, PTL DEF Spec, KeepsLife, Life!Spec

----------------------------------------------------------------------------
\* What has come of a run, whatever SubmissionLife calls it.
LEMMA LifeTyped ==
    ASSUME Life!TypeOK, NEW r \in Runs
    PROVE  /\ Work(run[r]) \in {"none", "open", "aside", "failed", "done", "cancelled"}
           /\ run[r].result \in {"none", "pending", "withdrawn", "formal", "audit"}
<1>1. /\ [q \in Runs |-> Work(run[q])][r]
           \in {"none", "open", "aside", "failed", "done", "cancelled"}
      /\ [q \in Runs |-> run[q].result][r] \in {"none", "pending", "withdrawn"} \cup Life!Formal
  BY DEF Life!TypeOK
<1>2. QED
  BY <1>1 DEF Life!Formal

LEMMA LifeRunStep ==
    ASSUME Life!TypeOK, Life!Sound, UNCHANGED <<Stage, Video, metadata>>,
           NEW r \in Runs, NEW x \in {"open", "aside", "failed"},
           [q \in Runs |-> Work(run[q])]' = [[q \in Runs |-> Work(run[q])] EXCEPT ![r] = x],
           UNCHANGED [q \in Runs |-> run[q].result],
           Work(run[r]) # "done",
           x # "failed" => Stage \notin {"deleted", "removed"}
    PROVE  Life!TypeOK' /\ Life!Sound'
<1>1. \A q \in Runs : Work(run'[q]) = IF q = r THEN x ELSE Work(run[q])
  <2> SUFFICES ASSUME NEW q \in Runs PROVE Work(run'[q]) = IF q = r THEN x ELSE Work(run[q])
    OBVIOUS
  <2>1. [p \in Runs |-> Work(run[p])]'[q] = [[p \in Runs |-> Work(run[p])] EXCEPT ![r] = x][q]
    OBVIOUS
  <2>2. QED
    BY <2>1
<1>2. \A q \in Runs : run'[q].result = run[q].result
  <2> SUFFICES ASSUME NEW q \in Runs PROVE run'[q].result = run[q].result
    OBVIOUS
  <2>1. [p \in Runs |-> run[p].result]'[q] = [p \in Runs |-> run[p].result][q]
    OBVIOUS
  <2>2. QED
    BY <2>1
<1>3. Life!TypeOK'
  BY <1>1, <1>2, LifeTyped DEF Life!TypeOK, Life!Formal
<1>4. Life!Sound'
  BY <1>1, <1>2 DEF Life!Sound, Life!Formal, Life!Unfinished
<1>5. QED
  BY <1>3, <1>4

\* Results read off the functions that SubmissionLife sees.
LEMMA ResultAt ==
    ASSUME NEW r \in Runs, NEW x,
           [p \in Runs |-> run[p].result]' = [[p \in Runs |-> run[p].result] EXCEPT ![r] = x]
    PROVE  \A q \in Runs : run'[q].result = IF q = r THEN x ELSE run[q].result
<1> SUFFICES ASSUME NEW q \in Runs
             PROVE  run'[q].result = IF q = r THEN x ELSE run[q].result
  OBVIOUS
<1>1. [p \in Runs |-> run[p].result]'[q] = [[p \in Runs |-> run[p].result] EXCEPT ![r] = x][q]
  OBVIOUS
<1>2. QED
  BY <1>1

LEMMA SuccessAt ==
    ASSUME NEW r \in Runs, NEW x, Life!Succeeds(r, x)
    PROVE  \A q \in Runs : run'[q].result = IF q = r THEN x
                                            ELSE IF run[q].result \in Life!Formal THEN "withdrawn"
                                            ELSE run[q].result
<1> SUFFICES ASSUME NEW q \in Runs
             PROVE  run'[q].result = IF q = r THEN x
                                     ELSE IF run[q].result \in Life!Formal THEN "withdrawn"
                                     ELSE run[q].result
  OBVIOUS
<1>1. [p \in Runs |-> run[p].result]'[q]
        = [p \in Runs |-> IF p = r THEN x
                          ELSE IF [o \in Runs |-> run[o].result][p] \in Life!Formal THEN "withdrawn"
                          ELSE [o \in Runs |-> run[o].result][p]][q]
  BY DEF Life!Succeeds
<1>2. QED
  BY <1>1

\* A run comes to something, or what it came to is decided: results change, and the
\* others' only from formal to withdrawn.
LEMMA LifeResultStep ==
    ASSUME Life!TypeOK, Life!Sound, UNCHANGED <<Stage, Video, metadata>>,
           NEW r \in Runs, NEW x \in {"formal", "audit", "pending", "withdrawn"},
           metadata, Stage \notin {"deleted", "removed"} \/ Work(run[r]) = "done",
           \A q \in Runs : Work(run'[q]) = IF q = r THEN "done" ELSE Work(run[q]),
           \A q \in Runs : run'[q].result =
               IF q = r THEN x
               ELSE IF x \in Life!Formal /\ run[q].result \in Life!Formal THEN "withdrawn"
               ELSE run[q].result,
           x = "pending" => \A q \in Runs : run[q].result # "pending"
    PROVE  Life!TypeOK' /\ Life!Sound'
<1>1. Life!TypeOK'
  BY LifeTyped DEF Life!TypeOK, Life!Formal
<1>2. Life!Sound'
  BY DEF Life!Sound, Life!Formal, Life!Unfinished
<1>3. QED
  BY <1>1, <1>2

LEMMA LifeComesOut ==
    ASSUME Life!TypeOK, Life!Sound, NEW r \in Runs, Life!ComesOut(r)
    PROVE  Life!TypeOK' /\ Life!Sound'
<1>1. UNCHANGED <<Stage, Video, metadata>> /\ metadata /\ Stage \notin {"deleted", "removed"}
  BY DEF Life!ComesOut
<1>2. \A q \in Runs : Work(run'[q]) = IF q = r THEN "done" ELSE Work(run[q])
  <2> SUFFICES ASSUME NEW q \in Runs PROVE Work(run'[q]) = IF q = r THEN "done" ELSE Work(run[q])
    OBVIOUS
  <2>1. [p \in Runs |-> Work(run[p])]'[q] = [[p \in Runs |-> Work(run[p])] EXCEPT ![r] = "done"][q]
    BY DEF Life!ComesOut
  <2>2. QED
    BY <2>1
<1>3. CASE \E x \in Life!Formal : Life!Succeeds(r, x)
  <2>1. PICK x \in Life!Formal : Life!Succeeds(r, x)
    BY <1>3
  <2>2. \A q \in Runs : run'[q].result = IF q = r THEN x
                                         ELSE IF run[q].result \in Life!Formal THEN "withdrawn"
                                         ELSE run[q].result
    BY <2>1, SuccessAt
  <2>3. QED
    BY <1>1, <1>2, <2>2, LifeResultStep DEF Life!Formal
<1>4. CASE /\ \A q \in Runs : [p \in Runs |-> run[p].result][q] # "pending"
           /\ [p \in Runs |-> run[p].result]'
                = [[p \in Runs |-> run[p].result] EXCEPT ![r] = "pending"]
  <2>1. \A q \in Runs : run'[q].result = IF q = r THEN "pending" ELSE run[q].result
    BY <1>4, ResultAt
  <2>2. \A q \in Runs : run[q].result # "pending"
    BY <1>4
  <2>3. "pending" \notin Life!Formal
    BY DEF Life!Formal
  <2>4. QED
    BY <1>1, <1>2, <2>1, <2>2, <2>3, LifeResultStep
<1>5. QED
  BY <1>3, <1>4 DEF Life!ComesOut

LEMMA LifeDecide ==
    ASSUME Life!TypeOK, Life!Sound, NEW r \in Runs, Life!Decide(r)
    PROVE  Life!TypeOK' /\ Life!Sound'
<1>1. UNCHANGED <<Stage, Video, metadata>> /\ run[r].result \in {"pending", "audit"}
  BY DEF Life!Decide
<1>2. metadata /\ Work(run[r]) = "done"
  <2>1. [p \in Runs |-> run[p].result][r] # "none"
    BY <1>1
  <2>2. metadata /\ [p \in Runs |-> Work(run[p])][r] = "done"
    BY <2>1 DEF Life!Sound
  <2>3. QED
    BY <2>2
<1>3. \A q \in Runs : Work(run'[q]) = IF q = r THEN "done" ELSE Work(run[q])
  <2> SUFFICES ASSUME NEW q \in Runs PROVE Work(run'[q]) = Work(run[q])
    BY <1>2
  <2>1. [p \in Runs |-> Work(run[p])]'[q] = [p \in Runs |-> Work(run[p])][q]
    BY DEF Life!Decide
  <2>2. QED
    BY <2>1
<1>4. CASE Life!Succeeds(r, "formal")
  <2>1. \A q \in Runs : run'[q].result = IF q = r THEN "formal"
                                         ELSE IF run[q].result \in Life!Formal THEN "withdrawn"
                                         ELSE run[q].result
    BY <1>4, SuccessAt
  <2>2. "formal" \in Life!Formal
    BY DEF Life!Formal
  <2>3. QED
    BY <1>1, <1>2, <1>3, <2>1, <2>2, LifeResultStep
<1>5. CASE [p \in Runs |-> run[p].result]'
             = [[p \in Runs |-> run[p].result] EXCEPT ![r] = "withdrawn"]
  <2>1. \A q \in Runs : run'[q].result = IF q = r THEN "withdrawn" ELSE run[q].result
    BY <1>5, ResultAt
  <2>2. "withdrawn" \notin Life!Formal
    BY DEF Life!Formal
  <2>3. QED
    BY <1>1, <1>2, <1>3, <2>1, <2>2, LifeResultStep
<1>6. QED
  BY <1>4, <1>5 DEF Life!Decide

LEMMA LifeEndDeletion ==
    ASSUME Life!TypeOK, Life!Sound, Life!EndDeletion
    PROVE  Life!TypeOK' /\ Life!Sound'
<1>1. Video = "gone" /\ Video' = "gone"
  BY DEF Life!EndDeletion
<1>2. CASE /\ Stage' = "deleted"
           /\ [q \in Runs |-> Work(run[q])]'
                = [q \in Runs |-> IF Life!Unfinished(q) THEN "cancelled"
                                  ELSE [p \in Runs |-> Work(run[p])][q]]
           /\ UNCHANGED <<metadata, [q \in Runs |-> run[q].result]>>
  <2>1. \A q \in Runs : Work(run'[q]) = IF Work(run[q]) \in {"open", "aside"} THEN "cancelled"
                                        ELSE Work(run[q])
    <3> SUFFICES ASSUME NEW q \in Runs
                 PROVE  Work(run'[q]) = IF Work(run[q]) \in {"open", "aside"} THEN "cancelled"
                                        ELSE Work(run[q])
      OBVIOUS
    <3>1. [p \in Runs |-> Work(run[p])]'[q]
            = [p \in Runs |-> IF Life!Unfinished(p) THEN "cancelled"
                              ELSE [o \in Runs |-> Work(run[o])][p]][q]
      BY <1>2
    <3>2. QED
      BY <3>1 DEF Life!Unfinished
  <2>2. \A q \in Runs : run'[q].result = run[q].result
    <3> SUFFICES ASSUME NEW q \in Runs PROVE run'[q].result = run[q].result
      OBVIOUS
    <3>1. [p \in Runs |-> run[p].result]'[q] = [p \in Runs |-> run[p].result][q]
      BY <1>2
    <3>2. QED
      BY <3>1
  <2>3. Life!TypeOK'
    BY <1>1, <1>2, <2>1, <2>2, LifeTyped DEF Life!TypeOK, Life!Formal
  <2>4. Life!Sound'
    BY <1>1, <1>2, <2>1, <2>2 DEF Life!Sound, Life!Formal, Life!Unfinished
  <2>5. QED
    BY <2>3, <2>4
<1>3. CASE /\ Stage' = "removed"
           /\ metadata' = FALSE
           /\ [q \in Runs |-> Work(run[q])]' = [q \in Runs |-> "none"]
           /\ [q \in Runs |-> run[q].result]' = [q \in Runs |-> "none"]
  BY <1>1, <1>3 DEF Life!TypeOK, Life!Sound, Life!Formal, Life!Unfinished
<1>4. QED
  BY <1>2, <1>3 DEF Life!EndDeletion

LEMMA LifeStep ==
    ASSUME Life!TypeOK, Life!Sound, [Life!Next]_(Life!vars)
    PROVE  Life!TypeOK' /\ Life!Sound'
<1>1. CASE UNCHANGED Life!vars
  BY <1>1 DEF Life!vars, Life!TypeOK, Life!Sound, Life!Formal, Life!Unfinished
<1>2. CASE Life!Arrive \/ Life!Accept \/ Life!Refuse \/ Life!Delete \/ Life!Lose
  BY <1>2 DEF Life!Arrive, Life!Accept, Life!Refuse, Life!Delete, Life!Lose,
     Life!TypeOK, Life!Sound, Life!Formal, Life!Unfinished
<1>3. CASE Life!Study
  BY <1>3 DEF Life!Study, Life!TypeOK, Life!Sound, Life!Formal, Life!Unfinished
<1>4. ASSUME NEW r \in Runs, Life!Start(r) \/ Life!Resume(r) \/ Life!SetAside(r) \/ Life!Fail(r)
      PROVE  Life!TypeOK' /\ Life!Sound'
  <2>1. CASE Life!Start(r) \/ Life!Resume(r)
    BY <1>4, <2>1, LifeRunStep DEF Life!Start, Life!Resume, Life!Begun
  <2>2. CASE Life!SetAside(r)
    BY <2>2, LifeRunStep DEF Life!SetAside, Life!Sound, Life!Unfinished
  <2>3. CASE Life!Fail(r)
    BY <2>3, LifeRunStep DEF Life!Fail, Life!Unfinished
  <2>4. QED
    BY <1>4, <2>1, <2>2, <2>3
<1>5. QED
  BY <1>1, <1>2, <1>3, <1>4, LifeEndDeletion, LifeComesOut, LifeDecide DEF Life!Next

LEMMA LifeSound == KeepsLife => [](Life!TypeOK /\ Life!Sound)
<1>1. Life!Init => Life!TypeOK /\ Life!Sound
  BY DEF Life!Init, Life!TypeOK, Life!Sound, Life!Formal, Life!Unfinished
<1>2. Life!TypeOK /\ Life!Sound /\ [Life!Next]_(Life!vars) => (Life!TypeOK /\ Life!Sound)'
  BY LifeStep
<1>3. QED
  BY <1>1, <1>2, PTL DEF KeepsLife, Life!Spec

\* What is kept is whole, what is deleted is gone with nothing left open, and a run
\* that came to something was about a video that was studied; one of them at most is
\* formal, and one at most waits for a decision.
THEOREM LifeIsSound == Spec => []Life!Sound
BY LifeKept, LifeSound, PTL
=============================================================================
