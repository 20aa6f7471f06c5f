---------------------- MODULE DeliveryArchives_proofs ----------------------
(***************************************************************************)
(* A published archive stands, what is not published is removed, and the   *)
(* leases and the attempts are bounded: for any number of tasks, workers   *)
(* and disturbances.                                                       *)
(***************************************************************************)
EXTENDS DeliveryArchives, FiniteSetTheorems, TLAPS

----------------------------------------------------------------------------
(* Jobs and rows *)

LEMMA IdleIsNoJob == Idle \notin Job /\ Idle.phase = "idle"
BY DEF Idle, Job

JobsOK == job \in [Workers -> Job \cup {Idle}]
RowsOK == task \in [Tasks -> Row]

LEMMA BusyJob ==
    ASSUME JobsOK, NEW w \in Workers, Busy(w) \/ job[w].phase # "idle"
    PROVE  job[w] \in Job /\ Busy(w)
BY IdleIsNoJob DEF JobsOK, Busy

LEMMA JobFields ==
    ASSUME NEW j \in Job
    PROVE  /\ j.task \in Tasks /\ j.attempt \in Nat
           /\ j.stored \in BOOLEAN /\ j.lost \in BOOLEAN
BY DEF Job

LEMMA RowFields ==
    ASSUME NEW r \in Row
    PROVE  r.attempt \in Nat /\ r.archive \in Nat
BY DEF Row

Phases == {"claimed", "building", "uploading", "uploaded", "completing",
           "failing", "cleaning", "deleting"}

LEMMA JobAt ==
    ASSUME NEW j \in Job, NEW p \in Phases
    PROVE  LET x == [j EXCEPT !.phase = p]
           IN  /\ x \in Job /\ x.phase = p /\ x.task = j.task /\ x.attempt = j.attempt
               /\ x.stored = j.stored /\ x.lost = j.lost
BY DEF Job, Phases

LEMMA JobLost ==
    ASSUME NEW j \in Job
    PROVE  LET x == [j EXCEPT !.lost = TRUE]
           IN  /\ x \in Job /\ x.phase = j.phase /\ x.task = j.task /\ x.attempt = j.attempt
               /\ x.stored = j.stored /\ x.lost
BY DEF Job

LEMMA JobStored ==
    ASSUME NEW j \in Job
    PROVE  LET x == [j EXCEPT !.phase = "uploading", !.stored = TRUE]
           IN  /\ x \in Job /\ x.phase = "uploading" /\ x.task = j.task
               /\ x.attempt = j.attempt /\ x.stored /\ x.lost = j.lost
BY DEF Job

LEMMA RowRenewed ==
    ASSUME NEW r \in Row, NEW l \in {"none", "live", "expired"}
    PROVE  LET x == [r EXCEPT !.lease = l]
           IN  /\ x \in Row /\ x.lease = l /\ x.status = r.status
               /\ x.attempt = r.attempt /\ x.archive = r.archive
BY DEF Row

----------------------------------------------------------------------------
(* A step of a claim *)

ClaimStep(w) == Process(w) \/ renewArchiveLease(w) \/ updateArchiveProgress(w) \/ workerDies(w)

\* What becomes of the job: it ends, or stays about the same claim.
Follows(w, x) == /\ job' = [job EXCEPT ![w] = x]
                 /\ \/ x = Idle
                    \/ /\ x \in Job
                       /\ x.task = job[w].task /\ x.attempt = job[w].attempt
                       /\ job[w].stored => x.stored

LEMMA GoesFollows ==
    ASSUME JobsOK, NEW w \in Workers, job[w] \in Job, NEW p \in Phases, Goes(w, p)
    PROVE  \E x : Follows(w, x) /\ x \in Job /\ x.phase = p /\ x.stored = job[w].stored
                                /\ x.lost = job[w].lost
<1> DEFINE x == [job[w] EXCEPT !.phase = p]
<1>1. x \in Job /\ x.phase = p /\ x.task = job[w].task /\ x.attempt = job[w].attempt
      /\ x.stored = job[w].stored /\ x.lost = job[w].lost
  BY JobAt
<1>2. job' = [job EXCEPT ![w] = x]
  BY DEF Goes, JobsOK
<1> HIDE DEF x
<1>3. QED
  BY <1>1, <1>2 DEF Follows

LEMMA EndsFollows ==
    ASSUME NEW w \in Workers, Ends(w)
    PROVE  Follows(w, Idle)
BY DEF Ends, Follows

LEMMA LeavesFollows ==
    ASSUME JobsOK, NEW w \in Workers, job[w] \in Job, Leaves(w)
    PROVE  \E x : /\ Follows(w, x)
                  /\ IF job[w].stored THEN x \in Job /\ x.phase = "cleaning" /\ x.stored
                                      ELSE x = Idle
<1>1. CASE job[w].stored
  BY <1>1, GoesFollows DEF Leaves, Phases
<1>2. CASE ~job[w].stored
  BY <1>2, EndsFollows DEF Leaves
<1>3. QED
  BY <1>1, <1>2

LEMMA LostFollows ==
    ASSUME JobsOK, NEW w \in Workers, job[w] \in Job,
           job' = [job EXCEPT ![w].lost = TRUE]
    PROVE  \E x : Follows(w, x) /\ x \in Job /\ x.phase = job[w].phase
                                /\ x.stored = job[w].stored /\ x.lost
<1> DEFINE x == [job[w] EXCEPT !.lost = TRUE]
<1>1. x \in Job /\ x.phase = job[w].phase /\ x.task = job[w].task /\ x.attempt = job[w].attempt
      /\ x.stored = job[w].stored /\ x.lost
  BY JobLost
<1>2. job' = [job EXCEPT ![w] = x]
  BY DEF JobsOK
<1> HIDE DEF x
<1>3. QED
  BY <1>1, <1>2 DEF Follows

LEMMA StoredFollows ==
    ASSUME JobsOK, NEW w \in Workers, job[w] \in Job,
           job' = [job EXCEPT ![w].phase = "uploading", ![w].stored = TRUE]
    PROVE  \E x : Follows(w, x) /\ x \in Job /\ x.phase = "uploading" /\ x.stored
                                /\ x.lost = job[w].lost
<1> DEFINE x == [job[w] EXCEPT !.phase = "uploading", !.stored = TRUE]
<1>1. x \in Job /\ x.phase = "uploading" /\ x.task = job[w].task /\ x.attempt = job[w].attempt
      /\ x.stored /\ x.lost = job[w].lost
  BY JobStored
<1>2. job' = [job EXCEPT ![w] = x]
  BY DEF JobsOK
<1> HIDE DEF x
<1>3. QED
  BY <1>1, <1>2 DEF Follows

Keeping(j)  == j.phase \notin {"cleaning", "deleting"} /\ ~j.lost
Storing     == {"uploading", "uploaded", "completing", "cleaning", "deleting"}
Live(w)     == Holds(w) /\ task[job[w].task].lease = "live"

\* Whether the storage knows of the archive, by where the claim is.
StoredOK == \A w \in Workers : /\ job[w].phase \in Storing => job[w].stored
                               /\ job[w].phase = "claimed" => ~job[w].stored

\* What a step of a claim does to the row of its task: nothing, or what it may under
\* its lease.
RowStep(w, x) ==
    \/ UNCHANGED task
    \/ Matches(w) /\ Renewed(w) /\ x \in Job
    \/ /\ Matches(w) /\ At(w, "completing") /\ Released(w, "completed", job[w].attempt)
       /\ x = Idle \/ x.phase = "failing"
    \/ /\ Matches(w) /\ At(w, "failing")
       /\ \E s \in {"queued", "failed"} :
             /\ Released(w, s, 0)
             /\ s = "queued" <=> job[w].attempt < MaxAttempts

\* What it does to the bucket, and what it leaves there.
BucketStep(w, x) ==
    /\ \/ UNCHANGED bucket
       \/ bucket' = bucket \cup {Archive(w)} /\ x \in Job /\ x.stored /\ UNCHANGED task
       \/ bucket' = bucket \ {Archive(w)} /\ At(w, "deleting") /\ UNCHANGED task
    /\ struck' = struck \/ struck' = struck \cup {Archive(w)}
    /\ x = Idle => \/ ~job[w].stored
                   \/ At(w, "completing") /\ Released(w, "completed", job[w].attempt)
                   \/ Published(w) /\ UNCHANGED task
                   \/ Archive(w) \notin bucket'
                   \/ Archive(w) \in struck'
    /\ x.phase \in {"uploaded", "completing"} =>
          \/ Archive(w) \in bucket'
          \/ job[w].phase \in {"uploaded", "completing"} /\ UNCHANGED bucket
    /\ x.phase = "deleting" => ~Published(w) /\ UNCHANGED task
    /\ x.phase \in Storing => x.stored
    /\ x.phase # "claimed"

\* A claim that keeps its task under a live lease lets go of it only by releasing it,
\* or disturbed.
CountStep(w, x) ==
    \/ disturbances' = disturbances + 1
    \/ /\ UNCHANGED disturbances
       /\ Keeping(job[w]) /\ Live(w) =>
             \/ x \in Job /\ Keeping(x)
             \/ \E s \in {"queued", "completed", "failed"}, a \in Nat : Released(w, s, a)

StepOf(w, x) ==
    Follows(w, x) /\ RowStep(w, x) /\ BucketStep(w, x) /\ CountStep(w, x)

LEMMA ClaimSteps ==
    ASSUME TypeOK, StoredOK, NEW w \in Workers, ClaimStep(w)
    PROVE  job[w] \in Job /\ \E x : StepOf(w, x)
<1> USE IdleIsNoJob
<1>1. JobsOK
  BY DEF TypeOK, JobsOK
<1>2. job[w] \in Job
  BY <1>1, BusyJob DEF ClaimStep, Process, processArchiveClaim, buildFails, built,
       uploadObject,
       uploadDone, completeArchiveClaim, failOrRetryArchiveClaim, deleteObject,
       deleteArchiveObjectUnlessPublished, renewArchiveLease, updateArchiveProgress,
       workerDies, At
<1>a. job[w].attempt \in Nat /\ job[w].task \in Tasks
  BY <1>2, JobFields
<1>3. CASE processArchiveClaim(w)
  <2>1. CASE Goes(w, "building") /\ Undisturbed
    <3>1. PICK x : /\ Follows(w, x)
                   /\ x \in Job /\ x.phase = "building" /\ x.stored = job[w].stored /\ x.lost = job[w].lost
      BY <1>1, <1>2, <2>1, GoesFollows DEF Phases
    <3>2. StepOf(w, x)
      BY <1>3, <1>a, <2>1, <3>1 DEF processArchiveClaim, StepOf, RowStep, BucketStep,
           CountStep, Undisturbed, Disturbed, Keeping, Storing, Live, At, Misses,
           StoredOK
    <3>3. QED
      BY <1>2, <3>2
  <2>2. CASE Ends(w) /\ ((Misses(w) /\ Undisturbed) \/ Disturbed)
    <3>1. Follows(w, Idle)
      BY <2>2, EndsFollows
    <3>2. StepOf(w, Idle)
      BY <1>3, <1>a, <2>2, <3>1 DEF processArchiveClaim, StepOf, RowStep, BucketStep,
           CountStep, Undisturbed, Disturbed, Keeping, Storing, Live, At, Misses,
           StoredOK
    <3>3. QED
      BY <1>2, <3>2
  <2>3. QED
    BY <1>3, <2>1, <2>2 DEF processArchiveClaim
<1>4. CASE renewArchiveLease(w)
  <2>1. CASE Matches(w) /\ Renewed(w) /\ UNCHANGED job
    <3>1. Follows(w, job[w])
      BY <1>1, <1>2, <2>1 DEF Follows, JobsOK
    <3>2. StepOf(w, job[w])
      BY <1>4, <1>2, <1>a, <2>1, <3>1 DEF renewArchiveLease, StepOf, RowStep,
           BucketStep, CountStep, Undisturbed, Disturbed, Keeping, Storing, Live, At,
           Misses, StoredOK
    <3>3. QED
      BY <1>2, <3>2
  <2>2. CASE Misses(w) /\ job' = [job EXCEPT ![w].lost = TRUE] /\ UNCHANGED task
    <3>1. PICK x : /\ Follows(w, x)
                   /\ x \in Job /\ x.phase = job[w].phase /\ x.stored = job[w].stored /\ x.lost
      BY <1>1, <1>2, <2>2, LostFollows DEF Phases
    <3>2. StepOf(w, x)
      BY <1>4, <1>a, <2>2, <3>1 DEF renewArchiveLease, StepOf, RowStep, BucketStep,
           CountStep, Undisturbed, Disturbed, Keeping, Storing, Live, At, Misses,
           StoredOK
    <3>3. QED
      BY <1>2, <3>2
  <2>3. QED
    BY <1>4, <2>1, <2>2 DEF renewArchiveLease
<1>5. CASE updateArchiveProgress(w)
  <2>1. CASE Matches(w) /\ Renewed(w) /\ UNCHANGED job
    <3>1. Follows(w, job[w])
      BY <1>1, <1>2, <2>1 DEF Follows, JobsOK
    <3>2. StepOf(w, job[w])
      BY <1>5, <1>2, <1>a, <2>1, <3>1 DEF updateArchiveProgress, StepOf, RowStep,
           BucketStep, CountStep, Undisturbed, Disturbed, Keeping, Storing, Live, At,
           Misses, StoredOK
    <3>3. QED
      BY <1>2, <3>2
  <2>2. CASE Misses(w) /\ Leaves(w) /\ UNCHANGED task
    <3>1. PICK x : /\ Follows(w, x)
                   /\ IF job[w].stored THEN x \in Job /\ x.phase = "cleaning" /\ x.stored ELSE x = Idle
      BY <1>1, <1>2, <2>2, LeavesFollows DEF Phases
    <3>2. StepOf(w, x)
      BY <1>5, <1>a, <2>2, <3>1 DEF updateArchiveProgress, StepOf, RowStep, BucketStep,
           CountStep, Undisturbed, Disturbed, Keeping, Storing, Live, At, Misses,
           StoredOK
    <3>3. QED
      BY <1>2, <3>2
  <2>3. QED
    BY <1>5, <2>1, <2>2 DEF updateArchiveProgress
<1>6. CASE buildFails(w)
  <2>1. CASE Goes(w, "failing")
    <3>1. PICK x : /\ Follows(w, x)
                   /\ x \in Job /\ x.phase = "failing" /\ x.stored = job[w].stored /\ x.lost = job[w].lost
      BY <1>1, <1>2, <2>1, GoesFollows DEF Phases
    <3>2. StepOf(w, x)
      BY <1>6, <1>a, <2>1, <3>1 DEF buildFails, StepOf, RowStep, BucketStep, CountStep,
           Undisturbed, Disturbed, Keeping, Storing, Live, At, Misses, StoredOK
    <3>3. QED
      BY <1>2, <3>2
  <2>2. QED
    BY <1>6, <2>1 DEF buildFails
<1>7. CASE built(w)
  <2>1. CASE Continues(w) /\ job' = [job EXCEPT ![w].phase = "uploading", ![w].stored = TRUE]
    <3>1. PICK x : /\ Follows(w, x)
                   /\ x \in Job /\ x.phase = "uploading" /\ x.stored /\ x.lost = job[w].lost
      BY <1>1, <1>2, <2>1, StoredFollows DEF Phases
    <3>2. StepOf(w, x)
      BY <1>7, <1>a, <2>1, <3>1 DEF built, StepOf, RowStep, BucketStep, CountStep,
           Undisturbed, Disturbed, Keeping, Storing, Live, At, Misses, StoredOK,
           Continues
    <3>3. QED
      BY <1>2, <3>2
  <2>2. CASE GivesUp(w) /\ UNCHANGED task
    <3>1. PICK x : /\ Follows(w, x)
                   /\ IF job[w].stored THEN x \in Job /\ x.phase = "cleaning" /\ x.stored ELSE x = Idle
      BY <1>1, <1>2, <2>2, LeavesFollows DEF Phases, GivesUp
    <3>2. UNCHANGED disturbances /\ (job[w].lost \/ ~Live(w))
      BY <2>2 DEF GivesUp, Undisturbed, Misses, Live
    <3>3. CountStep(w, x)
      BY <3>2 DEF CountStep, Keeping
    <3>4. RowStep(w, x)
      BY <2>2 DEF RowStep
    <3>5. BucketStep(w, x)
      BY <1>7, <3>1 DEF built, BucketStep, Storing
    <3>6. StepOf(w, x)
      BY <3>1, <3>3, <3>4, <3>5 DEF StepOf
    <3>7. QED
      BY <1>2, <3>6
  <2>3. CASE Refused(w) /\ UNCHANGED task /\ Goes(w, "failing")
    <3>1. PICK x : /\ Follows(w, x)
                   /\ x \in Job /\ x.phase = "failing" /\ x.stored = job[w].stored /\ x.lost = job[w].lost
      BY <1>1, <1>2, <2>3, GoesFollows DEF Phases
    <3>2. StepOf(w, x)
      BY <1>7, <1>a, <2>3, <3>1 DEF built, StepOf, RowStep, BucketStep, CountStep,
           Undisturbed, Disturbed, Keeping, Storing, Live, At, Misses, StoredOK, Refused
    <3>3. QED
      BY <1>2, <3>2
  <2>4. QED
    BY <1>7, <2>1, <2>2, <2>3 DEF built, Refused
<1>8. CASE uploadObject(w)
  <2>1. CASE bucket' = bucket \cup {Archive(w)} /\ Goes(w, "uploaded")
    <3>1. PICK x : /\ Follows(w, x)
                   /\ x \in Job /\ x.phase = "uploaded" /\ x.stored = job[w].stored /\ x.lost = job[w].lost
      BY <1>1, <1>2, <2>1, GoesFollows DEF Phases
    <3>2. UNCHANGED <<task, struck, disturbances>> /\ job[w].phase = "uploading" /\ job[w].stored
      BY <1>8 DEF uploadObject, At, StoredOK, Storing
    <3>3. CountStep(w, x)
      BY <3>1, <3>2 DEF CountStep, Keeping
    <3>4. RowStep(w, x)
      BY <3>2 DEF RowStep
    <3>5. BucketStep(w, x)
      BY <2>1, <3>1, <3>2 DEF BucketStep, Storing
    <3>6. StepOf(w, x)
      BY <3>1, <3>3, <3>4, <3>5 DEF StepOf
    <3>7. QED
      BY <1>2, <3>6
  <2>2. CASE bucket' \in {bucket, bucket \cup {Archive(w)}} /\ Goes(w, "failing")
    <3>1. PICK x : /\ Follows(w, x)
                   /\ x \in Job /\ x.phase = "failing" /\ x.stored = job[w].stored /\ x.lost = job[w].lost
      BY <1>1, <1>2, <2>2, GoesFollows DEF Phases
    <3>2. UNCHANGED <<task, struck, disturbances>> /\ job[w].phase = "uploading" /\ job[w].stored
      BY <1>8 DEF uploadObject, At, StoredOK, Storing
    <3>3. CountStep(w, x)
      BY <3>1, <3>2 DEF CountStep, Keeping
    <3>4. RowStep(w, x)
      BY <3>2 DEF RowStep
    <3>5. BucketStep(w, x)
      BY <2>2, <3>1, <3>2 DEF BucketStep, Storing
    <3>6. StepOf(w, x)
      BY <3>1, <3>3, <3>4, <3>5 DEF StepOf
    <3>7. QED
      BY <1>2, <3>6
  <2>3. QED
    BY <1>8, <2>1, <2>2 DEF uploadObject
<1>9. CASE uploadDone(w)
  <2>1. CASE Continues(w) /\ Goes(w, "completing")
    <3>1. PICK x : /\ Follows(w, x)
                   /\ x \in Job /\ x.phase = "completing" /\ x.stored = job[w].stored /\ x.lost = job[w].lost
      BY <1>1, <1>2, <2>1, GoesFollows DEF Phases
    <3>2. StepOf(w, x)
      BY <1>9, <1>a, <2>1, <3>1 DEF uploadDone, StepOf, RowStep, BucketStep, CountStep,
           Undisturbed, Disturbed, Keeping, Storing, Live, At, Misses, StoredOK,
           Continues
    <3>3. QED
      BY <1>2, <3>2
  <2>2. CASE GivesUp(w) /\ UNCHANGED task
    <3>1. PICK x : /\ Follows(w, x)
                   /\ IF job[w].stored THEN x \in Job /\ x.phase = "cleaning" /\ x.stored ELSE x = Idle
      BY <1>1, <1>2, <2>2, LeavesFollows DEF Phases, GivesUp
    <3>2. UNCHANGED disturbances /\ (job[w].lost \/ ~Live(w))
      BY <2>2 DEF GivesUp, Undisturbed, Misses, Live
    <3>3. CountStep(w, x)
      BY <3>2 DEF CountStep, Keeping
    <3>4. RowStep(w, x)
      BY <2>2 DEF RowStep
    <3>5. BucketStep(w, x)
      BY <1>9, <3>1 DEF uploadDone, BucketStep, Storing
    <3>6. StepOf(w, x)
      BY <3>1, <3>3, <3>4, <3>5 DEF StepOf
    <3>7. QED
      BY <1>2, <3>6
  <2>3. CASE Refused(w) /\ UNCHANGED task /\ Goes(w, "failing")
    <3>1. PICK x : /\ Follows(w, x)
                   /\ x \in Job /\ x.phase = "failing" /\ x.stored = job[w].stored /\ x.lost = job[w].lost
      BY <1>1, <1>2, <2>3, GoesFollows DEF Phases
    <3>2. StepOf(w, x)
      BY <1>9, <1>a, <2>3, <3>1 DEF uploadDone, StepOf, RowStep, BucketStep, CountStep,
           Undisturbed, Disturbed, Keeping, Storing, Live, At, Misses, StoredOK, Refused
    <3>3. QED
      BY <1>2, <3>2
  <2>4. QED
    BY <1>9, <2>1, <2>2, <2>3 DEF uploadDone, Refused
<1>10. CASE completeArchiveClaim(w)
  <2>1. CASE Matches(w) /\ Released(w, "completed", job[w].attempt) /\ Ends(w) /\ Undisturbed
    <3>1. Follows(w, Idle)
      BY <2>1, EndsFollows
    <3>2. StepOf(w, Idle)
      BY <1>10, <1>a, <2>1, <3>1 DEF completeArchiveClaim, StepOf, RowStep, BucketStep,
           CountStep, Undisturbed, Disturbed, Keeping, Storing, Live, At, Misses,
           StoredOK
    <3>3. QED
      BY <1>2, <3>2
  <2>2. CASE Matches(w) /\ Released(w, "completed", job[w].attempt) /\ Goes(w, "failing") /\ Disturbed
    <3>1. PICK x : /\ Follows(w, x)
                   /\ x \in Job /\ x.phase = "failing" /\ x.stored = job[w].stored /\ x.lost = job[w].lost
      BY <1>1, <1>2, <2>2, GoesFollows DEF Phases
    <3>2. StepOf(w, x)
      BY <1>10, <1>a, <2>2, <3>1 DEF completeArchiveClaim, StepOf, RowStep, BucketStep,
           CountStep, Undisturbed, Disturbed, Keeping, Storing, Live, At, Misses,
           StoredOK
    <3>3. QED
      BY <1>2, <3>2
  <2>3. CASE Misses(w) /\ Leaves(w) /\ UNCHANGED task /\ Undisturbed
    <3>1. PICK x : /\ Follows(w, x)
                   /\ IF job[w].stored THEN x \in Job /\ x.phase = "cleaning" /\ x.stored ELSE x = Idle
      BY <1>1, <1>2, <2>3, LeavesFollows DEF Phases
    <3>2. StepOf(w, x)
      BY <1>10, <1>a, <2>3, <3>1 DEF completeArchiveClaim, StepOf, RowStep, BucketStep,
           CountStep, Undisturbed, Disturbed, Keeping, Storing, Live, At, Misses,
           StoredOK
    <3>3. QED
      BY <1>2, <3>2
  <2>4. CASE Goes(w, "failing") /\ UNCHANGED task /\ Disturbed
    <3>1. PICK x : /\ Follows(w, x)
                   /\ x \in Job /\ x.phase = "failing" /\ x.stored = job[w].stored /\ x.lost = job[w].lost
      BY <1>1, <1>2, <2>4, GoesFollows DEF Phases
    <3>2. StepOf(w, x)
      BY <1>10, <1>a, <2>4, <3>1 DEF completeArchiveClaim, StepOf, RowStep, BucketStep,
           CountStep, Undisturbed, Disturbed, Keeping, Storing, Live, At, Misses,
           StoredOK
    <3>3. QED
      BY <1>2, <3>2
  <2>5. QED
    BY <1>10, <2>1, <2>2, <2>3, <2>4 DEF completeArchiveClaim
<1>11. CASE failOrRetryArchiveClaim(w)
  <2>1. CASE Leaves(w)
    <3>1. PICK x : /\ Follows(w, x)
                   /\ IF job[w].stored THEN x \in Job /\ x.phase = "cleaning" /\ x.stored ELSE x = Idle
      BY <1>1, <1>2, <2>1, LeavesFollows DEF Phases
    <3>2. StepOf(w, x)
      BY <1>11, <1>a, <2>1, <3>1 DEF failOrRetryArchiveClaim, StepOf, RowStep,
           BucketStep, CountStep, Undisturbed, Disturbed, Keeping, Storing, Live, At,
           Misses, StoredOK
    <3>3. QED
      BY <1>2, <3>2
  <2>2. QED
    BY <1>11, <2>1 DEF failOrRetryArchiveClaim
<1>12. CASE deleteArchiveObjectUnlessPublished(w)
  <2>1. CASE Published(w) /\ Ends(w) /\ Undisturbed /\ UNCHANGED struck
    <3>1. Follows(w, Idle)
      BY <2>1, EndsFollows
    <3>2. StepOf(w, Idle)
      BY <1>12, <1>a, <2>1, <3>1 DEF deleteArchiveObjectUnlessPublished, StepOf,
           RowStep, BucketStep, CountStep, Undisturbed, Disturbed, Keeping, Storing,
           Live, At, Misses, StoredOK
    <3>3. QED
      BY <1>2, <3>2
  <2>2. CASE ~Published(w) /\ Goes(w, "deleting") /\ Undisturbed /\ UNCHANGED struck
    <3>1. PICK x : /\ Follows(w, x)
                   /\ x \in Job /\ x.phase = "deleting" /\ x.stored = job[w].stored /\ x.lost = job[w].lost
      BY <1>1, <1>2, <2>2, GoesFollows DEF Phases
    <3>2. StepOf(w, x)
      BY <1>12, <1>a, <2>2, <3>1 DEF deleteArchiveObjectUnlessPublished, StepOf,
           RowStep, BucketStep, CountStep, Undisturbed, Disturbed, Keeping, Storing,
           Live, At, Misses, StoredOK
    <3>3. QED
      BY <1>2, <3>2
  <2>3. CASE Ends(w) /\ Disturbed /\ struck' = struck \cup {Archive(w)}
    <3>1. Follows(w, Idle)
      BY <2>3, EndsFollows
    <3>2. StepOf(w, Idle)
      BY <1>12, <1>a, <2>3, <3>1 DEF deleteArchiveObjectUnlessPublished, StepOf,
           RowStep, BucketStep, CountStep, Undisturbed, Disturbed, Keeping, Storing,
           Live, At, Misses, StoredOK
    <3>3. QED
      BY <1>2, <3>2
  <2>4. QED
    BY <1>12, <2>1, <2>2, <2>3 DEF deleteArchiveObjectUnlessPublished
<1>13. CASE deleteObject(w)
  <2>1. CASE Ends(w)
    <3>1. Follows(w, Idle)
      BY <2>1, EndsFollows
    <3>2. StepOf(w, Idle)
      BY <1>13, <1>a, <2>1, <3>1 DEF deleteObject, StepOf, RowStep, BucketStep,
           CountStep, Undisturbed, Disturbed, Keeping, Storing, Live, At, Misses,
           StoredOK
    <3>3. QED
      BY <1>2, <3>2
  <2>2. QED
    BY <1>13, <2>1 DEF deleteObject
<1>14. CASE workerDies(w)
  <2>1. CASE Ends(w)
    <3>1. Follows(w, Idle)
      BY <2>1, EndsFollows
    <3>2. StepOf(w, Idle)
      BY <1>14, <1>a, <2>1, <3>1 DEF workerDies, StepOf, RowStep, BucketStep, CountStep,
           Undisturbed, Disturbed, Keeping, Storing, Live, At, Misses, StoredOK
    <3>3. QED
      BY <1>2, <3>2
  <2>2. QED
    BY <1>14, <2>1 DEF workerDies
<1>15. QED
  BY <1>3, <1>4, <1>5, <1>6, <1>7, <1>8, <1>9, <1>10, <1>11, <1>12, <1>13, <1>14 DEF
       ClaimStep, Process

----------------------------------------------------------------------------
(* What a step does, read off its summary *)

\* The row of a task becomes r.
RowTo(t, r) == /\ task' = [task EXCEPT ![t] = r]
               /\ r \in Row
               /\ r.attempt = task[t].attempt

LEMMA RenewedRow ==
    ASSUME RowsOK, NEW w \in Workers, job[w] \in Job, Renewed(w)
    PROVE  \E r : /\ RowTo(job[w].task, r)
                  /\ r.lease = "live" /\ r.status = task[job[w].task].status
<1> DEFINE t == job[w].task
           r == [task[t] EXCEPT !.lease = "live"]
<1>1. t \in Tasks /\ task[t] \in Row
  BY JobFields DEF RowsOK
<1>2. r \in Row /\ r.lease = "live" /\ r.status = task[t].status /\ r.attempt = task[t].attempt
  BY <1>1, RowRenewed
<1>3. task' = [task EXCEPT ![t] = r]
  BY DEF Renewed, RowsOK
<1> HIDE DEF r
<1>4. QED
  BY <1>2, <1>3 DEF RowTo

LEMMA ReleasedRow ==
    ASSUME RowsOK, NEW w \in Workers, job[w] \in Job,
           NEW s \in {"queued", "completed", "failed"}, NEW a \in Nat, Released(w, s, a)
    PROVE  \E r : /\ RowTo(job[w].task, r)
                  /\ r.lease = "none" /\ r.status = s /\ r.archive = a
<1> DEFINE t == job[w].task
           r == [task[t] EXCEPT !.status = s, !.lease = "none", !.archive = a]
<1>1. t \in Tasks /\ task[t] \in Row
  BY JobFields DEF RowsOK
<1>2. r \in Row /\ r.lease = "none" /\ r.status = s /\ r.archive = a /\ r.attempt = task[t].attempt
  BY <1>1 DEF Row
<1>3. task' = [task EXCEPT ![t] = r]
  BY DEF Released, RowsOK
<1> HIDE DEF r
<1>4. QED
  BY <1>2, <1>3 DEF RowTo

\* The outcomes of RowStep, for the row the claim's task has afterwards.
LEMMA RowAfter ==
    ASSUME RowsOK, NEW w \in Workers, job[w] \in Job, NEW x, RowStep(w, x)
    PROVE  \/ UNCHANGED task
           \/ /\ Matches(w)
              /\ \E r : /\ RowTo(job[w].task, r)
                        /\ \/ r.lease = "live" /\ r.status = "processing"
                           \/ /\ r.lease = "none" /\ r.status = "completed"
                              /\ r.archive = job[w].attempt /\ At(w, "completing")
                           \/ /\ r.lease = "none" /\ r.status = "failed"
                              /\ job[w].attempt >= MaxAttempts
                           \/ /\ r.lease = "none" /\ r.status = "queued"
                              /\ job[w].attempt < MaxAttempts
<1>1. job[w].attempt \in Nat
  BY JobFields
<1>2. CASE UNCHANGED task
  BY <1>2
<1>3. CASE Matches(w) /\ Renewed(w)
  <2>1. PICK r : RowTo(job[w].task, r) /\ r.lease = "live" /\ r.status = task[job[w].task].status
    BY <1>3, RenewedRow
  <2>2. r.status = "processing"
    BY <1>3, <2>1 DEF Matches, Holds
  <2>3. QED
    BY <1>3, <2>1, <2>2
<1>4. CASE Matches(w) /\ At(w, "completing") /\ Released(w, "completed", job[w].attempt)
  <2>1. PICK r : /\ RowTo(job[w].task, r)
                 /\ r.lease = "none" /\ r.status = "completed" /\ r.archive = job[w].attempt
    BY <1>1, <1>4, ReleasedRow
  <2>2. QED
    BY <1>4, <2>1
<1>5. ASSUME Matches(w), NEW s \in {"queued", "failed"}, Released(w, s, 0),
             s = "queued" <=> job[w].attempt < MaxAttempts
      PROVE  \E r : /\ RowTo(job[w].task, r)
                    /\ \/ /\ r.lease = "none" /\ r.status = "failed"
                          /\ job[w].attempt >= MaxAttempts
                       \/ /\ r.lease = "none" /\ r.status = "queued"
                          /\ job[w].attempt < MaxAttempts
  <2>1. PICK r : RowTo(job[w].task, r) /\ r.lease = "none" /\ r.status = s /\ r.archive = 0
    BY <1>5, ReleasedRow
  <2>2. QED
    BY <1>1, <1>5, <2>1, ArchiveAssumption
<1>6. QED
  BY <1>2, <1>3, <1>4, <1>5 DEF RowStep

\* What the claim of a task does.
LEMMA ClaimTo ==
    ASSUME TypeOK, NEW w \in Workers, NEW t \in Tasks, claimPendingArchiveTasks(w, t)
    PROVE  /\ \E r \in Row : /\ task' = [task EXCEPT ![t] = r]
                             /\ r.status = "processing" /\ r.lease = "live"
                             /\ r.attempt = task[t].attempt + 1
           /\ \/ /\ UNCHANGED disturbances
                 /\ \E j \in Job : /\ job' = [job EXCEPT ![w] = j]
                                   /\ j.task = t /\ j.attempt = task[t].attempt + 1
                                   /\ j.phase = "claimed" /\ ~j.stored /\ ~j.lost
              \/ disturbances' = disturbances + 1 /\ UNCHANGED job
<1>1. task[t] \in Row /\ task[t].attempt \in Nat
  BY RowFields DEF TypeOK
<1> DEFINE r == [status  |-> "processing", lease   |-> "live",
                 attempt |-> task[t].attempt + 1, archive |-> 0]
           j == [task   |-> t, attempt |-> task[t].attempt + 1, phase  |-> "claimed",
                 stored |-> FALSE, lost |-> FALSE]
<1>2. r \in Row /\ r.status = "processing" /\ r.lease = "live" /\ r.attempt = task[t].attempt + 1
  BY <1>1 DEF Row
<1>3. /\ j \in Job /\ j.task = t /\ j.attempt = task[t].attempt + 1 /\ j.phase = "claimed"
      /\ ~j.stored /\ ~j.lost
  BY <1>1 DEF Job
<1>4. task' = [task EXCEPT ![t] = r]
  BY DEF claimPendingArchiveTasks, TypeOK
<1>5. \/ UNCHANGED disturbances /\ job' = [job EXCEPT ![w] = j]
      \/ disturbances' = disturbances + 1 /\ UNCHANGED job
  BY DEF claimPendingArchiveTasks, Undisturbed, Disturbed
<1> HIDE DEF r, j
<1>6. QED
  BY <1>2, <1>3, <1>4, <1>5

\* What the other steps about a task do to its row.
LEMMA CreateTo ==
    ASSUME RowsOK, NEW t \in Tasks, createArchiveTask(t)
    PROVE  \E r : RowTo(t, r) /\ r.status = "queued" /\ r.lease = task[t].lease
<1> DEFINE r == [task[t] EXCEPT !.status = "queued"]
<1>1. r \in Row /\ r.attempt = task[t].attempt /\ r.status = "queued" /\ r.lease = task[t].lease
  BY DEF RowsOK, Row
<1>2. task' = [task EXCEPT ![t] = r]
  BY DEF createArchiveTask, RowsOK
<1> HIDE DEF r
<1>3. QED
  BY <1>1, <1>2 DEF RowTo

LEMMA ExpireTo ==
    ASSUME RowsOK, NEW t \in Tasks, leaseExpires(t)
    PROVE  \E r : /\ RowTo(t, r)
                  /\ r.status = "processing" /\ task[t].status = "processing"
                  /\ r.lease = "expired"
<1> DEFINE r == [task[t] EXCEPT !.lease = "expired"]
<1>1. task[t] \in Row /\ task[t].status = "processing"
  BY DEF RowsOK, leaseExpires, Leased
<1>2. r \in Row /\ r.lease = "expired" /\ r.status = task[t].status /\ r.attempt = task[t].attempt
  BY <1>1, RowRenewed
<1>3. task' = [task EXCEPT ![t] = r]
  BY DEF leaseExpires, RowsOK
<1> HIDE DEF r
<1>4. QED
  BY <1>1, <1>2, <1>3 DEF RowTo

LEMMA NextCases ==
    ASSUME Next
    PROVE  \/ \E w \in Workers : ClaimStep(w)
           \/ \E w \in Workers, t \in Tasks : claimPendingArchiveTasks(w, t)
           \/ \E t \in Tasks : createArchiveTask(t)
           \/ \E t \in Tasks : leaseExpires(t)
BY DEF Next, poll, ClaimStep

----------------------------------------------------------------------------
(* Types *)

Typed == TypeOK /\ StoredOK

LEMMA FollowsJobs ==
    ASSUME JobsOK, NEW w \in Workers, job[w] \in Job, NEW x, Follows(w, x)
    PROVE  /\ job' \in [Workers -> Job \cup {Idle}]
           /\ job'[w] = x
           /\ \A v \in Workers : v # w => job'[v] = job[v]
BY DEF JobsOK, Follows

LEMMA ArchiveTyped ==
    ASSUME NEW w \in Workers, job[w] \in Job
    PROVE  Archive(w) \in Tasks \X Nat
BY JobFields DEF Archive

LEMMA NextTyped ==
    ASSUME Typed, Next
    PROVE  Typed'
<1>1. JobsOK /\ RowsOK /\ TypeOK /\ StoredOK
  BY DEF Typed, TypeOK, JobsOK, RowsOK
<1>2. ASSUME NEW w \in Workers, ClaimStep(w) PROVE Typed'
  <2>1. job[w] \in Job
    BY <1>1, <1>2, ClaimSteps
  <2>2. PICK x : StepOf(w, x)
    BY <1>1, <1>2, ClaimSteps
  <2>3. /\ job' \in [Workers -> Job \cup {Idle}]
        /\ job'[w] = x
        /\ \A v \in Workers : v # w => job'[v] = job[v]
    BY <1>1, <2>1, <2>2, FollowsJobs DEF StepOf
  <2>4. task' \in [Tasks -> Row]
    BY <1>1, <2>1, <2>2, RowAfter DEF StepOf, RowTo, RowsOK
  <2>5. bucket' \subseteq Tasks \X Nat /\ struck' \subseteq Tasks \X Nat
    BY <1>1, <2>1, <2>2, ArchiveTyped DEF StepOf, BucketStep, TypeOK
  <2>6. disturbances' \in Nat
    BY <1>1, <2>2 DEF StepOf, CountStep, TypeOK
  <2>7. StoredOK'
    BY <1>1, <2>2, <2>3 DEF StepOf, BucketStep, StoredOK
  <2>8. QED
    BY <2>3, <2>4, <2>5, <2>6, <2>7 DEF Typed, TypeOK
<1>3. ASSUME NEW w \in Workers, NEW t \in Tasks, claimPendingArchiveTasks(w, t) PROVE Typed'
  <2>1. UNCHANGED <<bucket, struck>>
    BY <1>3 DEF claimPendingArchiveTasks
  <2>2. task' \in [Tasks -> Row]
    BY <1>1, <1>3, ClaimTo DEF RowsOK
  <2>3. disturbances' \in Nat
    BY <1>1, <1>3, ClaimTo DEF TypeOK
  <2>4. job' \in [Workers -> Job \cup {Idle}] /\ StoredOK'
    <3>1. CASE UNCHANGED job
      BY <1>1, <3>1 DEF StoredOK, JobsOK
    <3>2. ASSUME NEW j \in Job, job' = [job EXCEPT ![w] = j], j.phase = "claimed", ~j.stored
          PROVE  job' \in [Workers -> Job \cup {Idle}] /\ StoredOK'
      BY <1>1, <3>2 DEF StoredOK, JobsOK, Storing
    <3>3. QED
      BY <1>1, <1>3, <3>1, <3>2, ClaimTo
  <2>5. QED
    BY <1>1, <2>1, <2>2, <2>3, <2>4 DEF Typed, TypeOK
<1>4. ASSUME NEW t \in Tasks, createArchiveTask(t) PROVE Typed'
  <2>1. UNCHANGED <<job, bucket, struck, disturbances>>
    BY <1>4 DEF createArchiveTask
  <2>2. task' \in [Tasks -> Row]
    BY <1>1, <1>4, CreateTo DEF RowsOK, RowTo
  <2>3. QED
    BY <1>1, <2>1, <2>2 DEF Typed, TypeOK, StoredOK
<1>5. ASSUME NEW t \in Tasks, leaseExpires(t) PROVE Typed'
  <2>1. UNCHANGED <<job, bucket, struck>>
    BY <1>5 DEF leaseExpires
  <2>2. disturbances' \in Nat
    BY <1>1, <1>5 DEF leaseExpires, Disturbed, Undisturbed, TypeOK
  <2>3. task' \in [Tasks -> Row]
    BY <1>1, <1>5, ExpireTo DEF RowsOK, RowTo
  <2>4. QED
    BY <1>1, <2>1, <2>2, <2>3 DEF Typed, TypeOK, StoredOK
<1>6. QED
  BY <1>2, <1>3, <1>4, <1>5, NextCases

LEMMA TypedInvariant == Spec => []Typed
<1>1. Init => Typed
  <2> SUFFICES ASSUME Init PROVE Typed
    OBVIOUS
  <2>1. Absent \in Row
    BY DEF Absent, Row
  <2>2. QED
    BY <2>1 DEF Init, Typed, TypeOK, StoredOK, Idle, Storing
<1>2. Typed /\ [Next]_vars => Typed'
  <2> SUFFICES ASSUME Typed, [Next]_vars PROVE Typed'
    OBVIOUS
  <2>1. CASE UNCHANGED vars
    BY <2>1 DEF vars, Typed, TypeOK, StoredOK
  <2>2. QED
    BY <2>1, NextTyped
<1>3. QED
  BY <1>1, <1>2, PTL DEF Spec

\* The variables keep their types: a claim is about one attempt of one task, and an
\* archive is named by both.
THEOREM TypeCorrect == Spec => []TypeOK
BY TypedInvariant, PTL DEF Typed

----------------------------------------------------------------------------
(* A published archive stands *)

\* A claim is not ahead of its task, and no two claims are about one archive.
Ahead == \A w \in Workers : Busy(w) => job[w].attempt <= task[job[w].task].attempt
Apart == \A w, v \in Workers : Busy(w) /\ Busy(v) /\ w # v => Archive(w) # Archive(v)

\* What is about to be published is in the bucket, and what is about to be deleted
\* is not published.
UploadedIsThere == \A w \in Workers :
                      job[w].phase \in {"uploaded", "completing"} => Archive(w) \in bucket
DeletedIsNot    == \A w \in Workers : At(w, "deleting") => ~Published(w)

Standing == Ahead /\ Apart /\ UploadedIsThere /\ DeletedIsNot /\ ArchiveStands

\* The claims after a step of one of them: the same, about the same archives.
LEMMA SameClaims ==
    ASSUME Typed, NEW w \in Workers, job[w] \in Job, NEW x, Follows(w, x),
           NEW v \in Workers
    PROVE  /\ Busy(v)' => Busy(v) /\ Archive(v)' = Archive(v)
           /\ v # w => job'[v] = job[v]
           /\ job'[w] = x
           /\ job'[v].phase # "idle" => Busy(v)'
<1>1. JobsOK
  BY DEF Typed, TypeOK, JobsOK
<1>2. /\ job' \in [Workers -> Job \cup {Idle}]
      /\ job'[w] = x
      /\ \A u \in Workers : u # w => job'[u] = job[u]
  BY <1>1, FollowsJobs
<1>3. Busy(v)' => Busy(v) /\ Archive(v)' = Archive(v)
  BY <1>1, <1>2, BusyJob, IdleIsNoJob DEF Follows, Busy, Archive
<1>4. job'[v].phase # "idle" => Busy(v)'
  BY <1>2, IdleIsNoJob DEF Busy
<1>5. QED
  BY <1>2, <1>3, <1>4

LEMMA ClaimStanding ==
    ASSUME Typed, Standing, NEW w \in Workers, ClaimStep(w)
    PROVE  Standing'
<1>1. JobsOK /\ RowsOK /\ TypeOK /\ StoredOK
  BY DEF Typed, TypeOK, JobsOK, RowsOK
<1>2. job[w] \in Job /\ Busy(w)
  BY <1>1, ClaimSteps, IdleIsNoJob DEF Busy
<1>3. PICK x : StepOf(w, x)
  BY <1>1, ClaimSteps
<1>4. Follows(w, x) /\ RowStep(w, x) /\ BucketStep(w, x)
  BY <1>3 DEF StepOf
<1>5. \A v \in Workers : /\ Busy(v)' => Busy(v) /\ Archive(v)' = Archive(v)
                         /\ v # w => job'[v] = job[v]
                         /\ job'[v].phase # "idle" => Busy(v)'
  BY <1>2, <1>4, SameClaims
<1>6. job'[w] = x
  BY <1>2, <1>4, SameClaims
<1>7. \A t \in Tasks : task'[t].attempt = task[t].attempt
  BY <1>1, <1>2, <1>4, RowAfter DEF RowTo, RowsOK
<1>8. Ahead'
  <2> SUFFICES ASSUME NEW v \in Workers, Busy(v)'
               PROVE  (job[v].attempt <= task[job[v].task].attempt)'
    BY DEF Ahead
  <2>1. Busy(v) /\ job'[v].task = job[v].task /\ job'[v].attempt = job[v].attempt
    BY <1>5 DEF Archive
  <2>2. job[v].task \in Tasks
    BY <1>1, <2>1, BusyJob, JobFields
  <2>3. QED
    BY <1>7, <2>1, <2>2 DEF Standing, Ahead
<1>9. Apart'
  BY <1>5 DEF Standing, Apart
<1>10. UploadedIsThere'
  <2> SUFFICES ASSUME NEW v \in Workers, job'[v].phase \in {"uploaded", "completing"}
               PROVE  Archive(v)' \in bucket'
    BY DEF UploadedIsThere
  <2>1. Busy(v) /\ Archive(v)' = Archive(v)
    BY <1>5
  <2>2. CASE v = w
    BY <1>4, <1>6, <2>1, <2>2 DEF BucketStep, Standing, UploadedIsThere
  <2>3. CASE v # w
    <3>1. Archive(v) \in bucket
      BY <1>5, <2>3 DEF Standing, UploadedIsThere
    <3>2. Archive(v) # Archive(w)
      BY <1>2, <2>1, <2>3 DEF Standing, Apart
    <3>3. QED
      BY <1>4, <2>1, <3>1, <3>2 DEF BucketStep
  <2>4. QED
    BY <2>2, <2>3
<1>11. DeletedIsNot'
  <2> SUFFICES ASSUME NEW v \in Workers, job'[v].phase = "deleting"
               PROVE  ~(/\ task'[job'[v].task].status = "completed"
                        /\ task'[job'[v].task].archive = job'[v].attempt)
    BY DEF DeletedIsNot, At, Published
  <2>1. Busy(v) /\ Archive(v)' = Archive(v)
    BY <1>5
  <2>2. job'[v].task = job[v].task /\ job'[v].attempt = job[v].attempt
    BY <2>1 DEF Archive
  <2>3. CASE v = w
    BY <1>4, <1>6, <2>2, <2>3 DEF BucketStep, Published
  <2>4. CASE v # w
    <3>1. ~Published(v)
      BY <1>5, <2>4 DEF Standing, DeletedIsNot, At
    <3>2. job[v].task # job[w].task \/ job[v].attempt # job[w].attempt
      BY <1>2, <2>1, <2>4 DEF Standing, Apart, Archive
    <3>3. job[v].task \in Tasks
      BY <1>1, <2>1, BusyJob, JobFields
    <3>4. CASE UNCHANGED task
      BY <2>2, <3>1, <3>4 DEF Published
    <3>5. ASSUME NEW r, RowTo(job[w].task, r),
                 r.status = "completed" => r.archive = job[w].attempt
          PROVE  ~(/\ task'[job'[v].task].status = "completed"
                   /\ task'[job'[v].task].archive = job'[v].attempt)
      BY <1>1, <2>2, <3>1, <3>2, <3>3, <3>5 DEF RowTo, Published, RowsOK
    <3>6. UNCHANGED task \/ \E r : /\ RowTo(job[w].task, r)
                                   /\ r.status = "completed" => r.archive = job[w].attempt
      BY <1>1, <1>2, <1>4, RowAfter
    <3>7. QED
      BY <3>4, <3>5, <3>6
  <2>5. QED
    BY <2>3, <2>4
<1>12. ArchiveStands'
  <2> SUFFICES ASSUME NEW t \in Tasks, task'[t].status = "completed"
               PROVE  <<t, task'[t].archive>> \in bucket'
    BY DEF ArchiveStands
  <2>1. CASE UNCHANGED task
    <3>1. <<t, task[t].archive>> \in bucket
      BY <2>1 DEF Standing, ArchiveStands
    <3>2. At(w, "deleting") => <<t, task[t].archive>> # Archive(w)
      BY <2>1 DEF Standing, DeletedIsNot, Published, Archive
    <3>3. QED
      BY <1>4, <2>1, <3>1, <3>2 DEF BucketStep
  <2>2. CASE ~UNCHANGED task
    <3>1. bucket \subseteq bucket'
      BY <1>4, <2>2 DEF BucketStep
    <3>2. PICK r : /\ RowTo(job[w].task, r)
                   /\ r.status = "completed" =>
                         r.archive = job[w].attempt /\ At(w, "completing")
      BY <1>1, <1>2, <1>4, <2>2, RowAfter
    <3>3. CASE t = job[w].task
      <4>1. task'[t] = r
        BY <1>1, <3>2, <3>3 DEF RowTo, RowsOK
      <4>2. Archive(w) \in bucket
        BY <3>2, <4>1 DEF Standing, UploadedIsThere, At
      <4>3. QED
        BY <3>1, <3>2, <3>3, <4>1, <4>2 DEF Archive
    <3>4. CASE t # job[w].task
      BY <1>1, <3>1, <3>2, <3>4 DEF RowTo, RowsOK, Standing, ArchiveStands
    <3>5. QED
      BY <3>3, <3>4
  <2>3. QED
    BY <2>1, <2>2
<1>13. QED
  BY <1>8, <1>9, <1>10, <1>11, <1>12 DEF Standing

\* A step that changes one row only, and does not publish.
LEMMA RowStanding ==
    ASSUME Typed, Standing, UNCHANGED <<job, bucket>>, NEW t \in Tasks, NEW r \in Row,
           task' = [task EXCEPT ![t] = r],
           r.attempt >= task[t].attempt, r.status # "completed"
    PROVE  Standing'
<1>1. JobsOK /\ RowsOK
  BY DEF Typed, TypeOK, JobsOK, RowsOK
<1>2. task'[t] = r /\ \A s \in Tasks : s # t => task'[s] = task[s]
  BY <1>1 DEF RowsOK
<1>3. Ahead'
  <2> SUFFICES ASSUME NEW w \in Workers, Busy(w)'
               PROVE  (job[w].attempt <= task[job[w].task].attempt)'
    BY DEF Ahead
  <2>1. Busy(w)
    BY DEF Busy
  <2>2. job[w] \in Job
    BY <1>1, <2>1, BusyJob
  <2>3. job[w].task \in Tasks /\ job[w].attempt \in Nat
    BY <2>2, JobFields
  <2>4. task[t].attempt \in Nat /\ r.attempt \in Nat
    BY <1>1, RowFields DEF RowsOK
  <2>5. job[w].attempt <= task[job[w].task].attempt
    BY <2>1 DEF Standing, Ahead
  <2>6. QED
    BY <1>2, <2>3, <2>4, <2>5
<1>4. Apart' /\ UploadedIsThere'
  BY DEF Standing, Apart, UploadedIsThere, Busy, Archive
<1>5. DeletedIsNot'
  <2> SUFFICES ASSUME NEW w \in Workers, At(w, "deleting")
               PROVE  ~Published(w)'
    BY DEF DeletedIsNot, At
  <2>1. ~Published(w)
    BY DEF Standing, DeletedIsNot
  <2>2. job[w].task \in Tasks
    BY <1>1, BusyJob, JobFields DEF At
  <2>3. QED
    BY <1>2, <2>1, <2>2 DEF Published
<1>6. ArchiveStands'
  BY <1>2 DEF Standing, ArchiveStands
<1>7. QED
  BY <1>3, <1>4, <1>5, <1>6 DEF Standing

LEMMA NextStanding ==
    ASSUME Typed, Standing, Next
    PROVE  Standing'
<1>1. JobsOK /\ RowsOK /\ TypeOK
  BY DEF Typed, TypeOK, JobsOK, RowsOK
<1>2. ASSUME NEW w \in Workers, ClaimStep(w) PROVE Standing'
  BY <1>2, ClaimStanding
<1>3. ASSUME NEW w \in Workers, NEW t \in Tasks, claimPendingArchiveTasks(w, t)
      PROVE  Standing'
  <2>1. UNCHANGED bucket /\ ~Busy(w)
    BY <1>3 DEF claimPendingArchiveTasks, Busy
  <2>2. PICK r \in Row : /\ task' = [task EXCEPT ![t] = r]
                         /\ r.status = "processing" /\ r.attempt = task[t].attempt + 1
    BY <1>1, <1>3, ClaimTo
  <2>3. task[t].attempt \in Nat
    BY <1>1, RowFields DEF RowsOK
  <2>4. CASE UNCHANGED job
    <3>1. UNCHANGED <<job, bucket>> /\ r.status # "completed" /\ r.attempt >= task[t].attempt
      BY <2>1, <2>2, <2>3, <2>4
    <3>2. QED
      BY <2>2, <3>1, RowStanding
  <2>5. ASSUME NEW j \in Job, job' = [job EXCEPT ![w] = j],
               j.task = t, j.attempt = task[t].attempt + 1, j.phase = "claimed"
        PROVE  Standing'
    <3>1. job'[w] = j /\ \A v \in Workers : v # w => job'[v] = job[v]
      BY <1>1, <2>5 DEF JobsOK
    <3>2. task'[t] = r /\ \A s \in Tasks : s # t => task'[s] = task[s]
      BY <1>1, <2>2 DEF RowsOK
    <3>3. ASSUME NEW v \in Workers, v # w, Busy(v)'
          PROVE  /\ Busy(v) /\ Archive(v)' = Archive(v)
                 /\ job[v].task \in Tasks /\ job[v].attempt \in Nat
                 /\ job[v].task = t => job[v].attempt <= task[t].attempt
                 /\ job[v].attempt <= task[job[v].task].attempt
      <4>1. Busy(v) /\ Archive(v)' = Archive(v)
        BY <3>1, <3>3 DEF Busy, Archive
      <4>2. QED
        BY <1>1, <4>1, BusyJob, JobFields DEF Standing, Ahead
    <3>4. Ahead'
      <4> SUFFICES ASSUME NEW v \in Workers, Busy(v)'
                   PROVE  job'[v].attempt <= task'[job'[v].task].attempt
        BY DEF Ahead
      <4>1. CASE v = w
        BY <2>2, <2>3, <2>5, <3>1, <3>2, <4>1
      <4>2. CASE v # w
        BY <2>2, <2>3, <3>1, <3>2, <3>3, <4>2
      <4>3. QED
        BY <4>1, <4>2
    <3>5. Apart'
      <4>1. ASSUME NEW v \in Workers, v # w, Busy(v)' PROVE Archive(v)' # Archive(w)'
        <5>1. Archive(w)' = <<t, task[t].attempt + 1>>
          BY <2>5, <3>1 DEF Archive
        <5>2. Archive(v)' = <<job[v].task, job[v].attempt>>
          BY <3>3, <4>1 DEF Archive
        <5>3. QED
          BY <2>3, <3>3, <4>1, <5>1, <5>2
      <4>2. ASSUME NEW u \in Workers, NEW v \in Workers, u # v, u # w, v # w, Busy(u)', Busy(v)'
            PROVE  Archive(u)' # Archive(v)'
        BY <3>3, <4>2 DEF Standing, Apart
      <4>3. QED
        BY <4>1, <4>2 DEF Apart
    <3>6. UploadedIsThere'
      <4> SUFFICES ASSUME NEW v \in Workers, job'[v].phase \in {"uploaded", "completing"}
                   PROVE  Archive(v)' \in bucket'
        BY DEF UploadedIsThere
      <4>1. v # w
        BY <2>5, <3>1
      <4>2. job'[v] = job[v]
        BY <3>1, <4>1
      <4>3. QED
        BY <2>1, <4>2 DEF Standing, UploadedIsThere, Archive
    <3>7. DeletedIsNot'
      <4> SUFFICES ASSUME NEW v \in Workers, job'[v].phase = "deleting"
                   PROVE  ~(/\ task'[job'[v].task].status = "completed"
                            /\ task'[job'[v].task].archive = job'[v].attempt)
        BY DEF DeletedIsNot, At, Published
      <4>1. v # w
        BY <2>5, <3>1
      <4>2. job'[v] = job[v]
        BY <3>1, <4>1
      <4>3. ~Published(v) /\ job[v].task \in Tasks
        BY <1>1, <4>2, BusyJob, JobFields DEF Standing, DeletedIsNot, At
      <4>4. QED
        BY <2>2, <3>2, <4>2, <4>3 DEF Published
    <3>8. ArchiveStands'
      BY <2>1, <2>2, <3>2 DEF Standing, ArchiveStands
    <3>9. QED
      BY <3>4, <3>5, <3>6, <3>7, <3>8 DEF Standing
  <2>6. QED
    BY <1>1, <1>3, <2>4, <2>5, ClaimTo
<1>4. ASSUME NEW t \in Tasks, createArchiveTask(t) PROVE Standing'
  <2>1. UNCHANGED <<job, bucket>>
    BY <1>4 DEF createArchiveTask
  <2>2. PICK r : RowTo(t, r) /\ r.status = "queued"
    BY <1>1, <1>4, CreateTo
  <2>3. r \in Row /\ task' = [task EXCEPT ![t] = r] /\ r.attempt = task[t].attempt
    BY <2>2 DEF RowTo
  <2>4. r.attempt >= task[t].attempt
    BY <2>3, RowFields
  <2>5. QED
    BY <2>1, <2>2, <2>3, <2>4, RowStanding
<1>5. ASSUME NEW t \in Tasks, leaseExpires(t) PROVE Standing'
  <2>1. UNCHANGED <<job, bucket>>
    BY <1>5 DEF leaseExpires
  <2>2. PICK r : RowTo(t, r) /\ r.status = "processing"
    BY <1>1, <1>5, ExpireTo
  <2>3. r \in Row /\ task' = [task EXCEPT ![t] = r] /\ r.attempt = task[t].attempt
    BY <2>2 DEF RowTo
  <2>4. r.attempt >= task[t].attempt
    BY <2>3, RowFields
  <2>5. QED
    BY <2>1, <2>2, <2>3, <2>4, RowStanding
<1>6. QED
  BY <1>2, <1>3, <1>4, <1>5, NextCases

LEMMA StandingInvariant == Spec => []Standing
<1>1. Init => Standing
  <2> SUFFICES ASSUME Init PROVE Standing
    OBVIOUS
  <2>1. \A w \in Workers : ~Busy(w) /\ job[w].phase = "idle"
    BY IdleIsNoJob DEF Init, Busy
  <2>2. \A t \in Tasks : task[t].status = "absent"
    BY DEF Init, Absent
  <2>3. QED
    BY <2>1, <2>2 DEF Standing, Ahead, Apart, UploadedIsThere, DeletedIsNot, At, ArchiveStands
<1>2. Typed /\ Standing /\ [Next]_vars => Standing'
  <2> SUFFICES ASSUME Typed, Standing, [Next]_vars PROVE Standing'
    OBVIOUS
  <2>1. CASE UNCHANGED vars
    BY <2>1 DEF vars, Standing, Ahead, Apart, UploadedIsThere, DeletedIsNot, At, ArchiveStands,
       Busy, Archive, Published
  <2>2. QED
    BY <2>1, NextStanding
<1>3. QED
  BY <1>1, <1>2, TypedInvariant, PTL DEF Spec

\* The archive a completed task names is in the bucket: not even a worker that lost
\* the answer of the transaction that published it, or comes back after its lease ran
\* out, removes it.
THEOREM ArchivesStand == Spec => []ArchiveStands
BY StandingInvariant, PTL DEF Standing

----------------------------------------------------------------------------
(* Nothing is left behind *)

\* What accounts for an archive in the bucket.
Accounted(o) == \/ task[o[1]].status = "completed" /\ task[o[1]].archive = o[2]
                \/ \E w \in Workers : Busy(w) /\ Archive(w) = o /\ job[w].stored
                \/ o \in struck

LEMMA ClaimLeaves ==
    ASSUME Typed, NothingLeftBehind, NEW w \in Workers, ClaimStep(w)
    PROVE  NothingLeftBehind'
<1>1. JobsOK /\ RowsOK /\ TypeOK /\ StoredOK
  BY DEF Typed, TypeOK, JobsOK, RowsOK
<1>2. job[w] \in Job /\ job[w].task \in Tasks
  BY <1>1, ClaimSteps, JobFields
<1>3. PICK x : StepOf(w, x)
  BY <1>1, ClaimSteps
<1>4. Follows(w, x) /\ RowStep(w, x) /\ BucketStep(w, x)
  BY <1>3 DEF StepOf
<1>5. \A v \in Workers : v # w => job'[v] = job[v]
  BY <1>2, <1>4, SameClaims
<1>6. job'[w] = x
  BY <1>2, <1>4, SameClaims
<1>7. struck \subseteq struck'
  BY <1>4 DEF BucketStep
<1>8. \A t \in Tasks : task[t].status = "completed" => task'[t] = task[t]
  <2>1. Matches(w) => task[job[w].task].status # "completed"
    BY DEF Matches, Holds
  <2>2. QED
    BY <1>1, <1>2, <1>4, <2>1, RowAfter DEF RowTo, RowsOK
<1>9. x \in Job => Busy(w)' /\ Archive(w)' = Archive(w) /\ (job[w].stored => x.stored)
  BY <1>4, <1>6, IdleIsNoJob DEF Busy, Archive, Follows
<1>10. ASSUME NEW o \in bucket', o = Archive(w), x = Idle, job[w].stored
       PROVE  Accounted(o)'
  <2>1. o[1] = job[w].task /\ o[2] = job[w].attempt
    BY <1>10 DEF Archive
  <2>2. CASE At(w, "completing") /\ Released(w, "completed", job[w].attempt)
    <3>1. job[w].attempt \in Nat
      BY <1>2, JobFields
    <3>2. PICK r : RowTo(job[w].task, r) /\ r.status = "completed" /\ r.archive = job[w].attempt
      BY <1>1, <1>2, <2>2, <3>1, ReleasedRow
    <3>3. task'[o[1]] = r
      BY <1>1, <1>2, <2>1, <3>2 DEF RowTo, RowsOK
    <3>4. QED
      BY <2>1, <3>2, <3>3 DEF Accounted
  <2>3. CASE Published(w) /\ UNCHANGED task
    BY <2>1, <2>3 DEF Accounted, Published
  <2>4. CASE o \in struck'
    BY <2>4 DEF Accounted
  <2>5. QED
    BY <1>4, <1>10, <2>2, <2>3, <2>4 DEF BucketStep
<1>11. SUFFICES ASSUME NEW o \in bucket' PROVE Accounted(o)'
  BY <1>11 DEF NothingLeftBehind, Accounted
<1>12. ASSUME x \in Job, x.stored, o = Archive(w) PROVE Accounted(o)'
  BY <1>6, <1>9, <1>12 DEF Accounted
<1>13. CASE o \notin bucket
  <2>1. bucket' = bucket \cup {Archive(w)} /\ x \in Job /\ x.stored
    BY <1>4, <1>13 DEF BucketStep
  <2>2. QED
    BY <1>12, <1>13, <2>1
<1>14. CASE o \in bucket
  <2>1. Accounted(o) /\ o[1] \in Tasks
    BY <1>1, <1>14 DEF NothingLeftBehind, Accounted, TypeOK
  <2>2. CASE task[o[1]].status = "completed" /\ task[o[1]].archive = o[2]
    BY <1>8, <2>1, <2>2 DEF Accounted
  <2>3. CASE o \in struck
    BY <1>7, <2>3 DEF Accounted
  <2>4. ASSUME NEW v \in Workers, v # w, Busy(v), Archive(v) = o, job[v].stored
        PROVE  Accounted(o)'
    BY <1>5, <2>4 DEF Accounted, Busy, Archive
  <2>5. CASE Archive(w) = o /\ job[w].stored
    <3>1. CASE x \in Job
      BY <1>9, <1>12, <2>5, <3>1
    <3>2. CASE x = Idle
      BY <1>10, <2>5, <3>2
    <3>3. QED
      BY <1>4, <3>1, <3>2 DEF Follows
  <2>6. QED
    BY <2>1, <2>2, <2>3, <2>4, <2>5 DEF Accounted
<1>15. QED
  BY <1>13, <1>14

\* An archive in the bucket is published, in the hands of its worker, or one whose
\* worker was struck: a worker without a lease cleans up what it uploads.
THEOREM NothingLeft == Spec => []NothingLeftBehind
<1>1. Init => NothingLeftBehind
  BY DEF Init, NothingLeftBehind
<1>2. Typed /\ NothingLeftBehind /\ [Next]_vars => NothingLeftBehind'
  <2> SUFFICES ASSUME Typed, NothingLeftBehind, [Next]_vars PROVE NothingLeftBehind'
    OBVIOUS
  <2>1. JobsOK /\ RowsOK /\ TypeOK
    BY DEF Typed, TypeOK, JobsOK, RowsOK
  <2>2. CASE UNCHANGED vars
    BY <2>2 DEF vars, NothingLeftBehind, Busy, Archive
  <2>3. ASSUME UNCHANGED <<bucket, struck>>,
               \A w \in Workers : Busy(w) => job'[w] = job[w],
               \A t \in Tasks : task[t].status = "completed" => task'[t] = task[t]
        PROVE  NothingLeftBehind'
    <3> SUFFICES ASSUME NEW o \in bucket PROVE Accounted(o)'
      BY <2>3 DEF NothingLeftBehind, Accounted
    <3>1. Accounted(o) /\ o[1] \in Tasks
      BY <2>1 DEF NothingLeftBehind, Accounted, TypeOK
    <3>2. QED
      BY <2>3, <3>1 DEF Accounted, Busy, Archive
  <2>4. ASSUME NEW w \in Workers, ClaimStep(w) PROVE NothingLeftBehind'
    BY <2>4, ClaimLeaves
  <2>5. ASSUME NEW w \in Workers, NEW t \in Tasks, claimPendingArchiveTasks(w, t)
        PROVE  NothingLeftBehind'
    <3>1. UNCHANGED <<bucket, struck>> /\ ~Busy(w) /\ task[t].status # "completed"
      BY <2>5 DEF claimPendingArchiveTasks, Busy, Claimable
    <3>2. \A v \in Workers : Busy(v) => job'[v] = job[v]
      <4>1. UNCHANGED job \/ \E j \in Job : job' = [job EXCEPT ![w] = j]
        BY <2>1, <2>5, ClaimTo
      <4>2. QED
        BY <2>1, <3>1, <4>1 DEF JobsOK
    <3>3. \A s \in Tasks : task[s].status = "completed" => task'[s] = task[s]
      <4>1. \E r \in Row : task' = [task EXCEPT ![t] = r]
        BY <2>1, <2>5, ClaimTo
      <4>2. QED
        BY <2>1, <3>1, <4>1 DEF RowsOK
    <3>4. QED
      BY <2>3, <3>1, <3>2, <3>3
  <2>6. ASSUME NEW t \in Tasks, createArchiveTask(t) PROVE NothingLeftBehind'
    <3>1. UNCHANGED <<job, bucket, struck>> /\ task[t].status # "completed"
      BY <2>6 DEF createArchiveTask
    <3>2. PICK r : RowTo(t, r)
      BY <2>1, <2>6, CreateTo
    <3>3. QED
      BY <2>1, <2>3, <3>1, <3>2 DEF RowTo, RowsOK
  <2>7. ASSUME NEW t \in Tasks, leaseExpires(t) PROVE NothingLeftBehind'
    <3>1. UNCHANGED <<job, bucket, struck>>
      BY <2>7 DEF leaseExpires
    <3>2. PICK r : RowTo(t, r) /\ task[t].status = "processing"
      BY <2>1, <2>7, ExpireTo
    <3>3. QED
      BY <2>1, <2>3, <3>1, <3>2 DEF RowTo, RowsOK
  <2>8. QED
    BY <2>2, <2>4, <2>5, <2>6, <2>7, NextCases
<1>3. QED
  BY <1>1, <1>2, TypedInvariant, PTL DEF Spec

----------------------------------------------------------------------------
(* The leases *)

LEMMA LeasedFinite == IsFiniteSet(Leased) /\ Cardinality(Leased) \in Nat
<1>1. Leased \subseteq Tasks
  BY DEF Leased
<1>2. QED
  BY <1>1, ArchiveAssumption, FS_Subset, FS_CardinalityType

LEMMA NextCapacity ==
    ASSUME Typed, Typed', CapacityKept, Next
    PROVE  CapacityKept'
<1>1. JobsOK /\ RowsOK /\ TypeOK /\ StoredOK
  BY DEF Typed, TypeOK, JobsOK, RowsOK
<1>2. SUFFICES ASSUME ~SlowDatabase, Cardinality(Leased) <= GlobalConcurrency
               PROVE  Cardinality(Leased') <= GlobalConcurrency
  BY DEF CapacityKept
<1>3. Leased' = {t \in Tasks : task'[t].status = "processing" /\ task'[t].lease = "live"}
  BY DEF Leased
<1>4. ASSUME Leased' \subseteq Leased PROVE Cardinality(Leased') <= GlobalConcurrency
  <2>1. Cardinality(Leased') <= Cardinality(Leased)
    BY <1>4, LeasedFinite, FS_Subset
  <2>2. Cardinality(Leased') \in Nat
    BY <1>4, LeasedFinite, FS_Subset, FS_CardinalityType
  <2>3. QED
    BY <1>2, <2>1, <2>2, LeasedFinite, ArchiveAssumption
<1>5. ASSUME NEW w \in Workers, ClaimStep(w) PROVE Leased' \subseteq Leased
  <2>1. job[w] \in Job /\ job[w].task \in Tasks
    BY <1>1, <1>5, ClaimSteps, JobFields
  <2>2. PICK x : StepOf(w, x)
    BY <1>1, <1>5, ClaimSteps
  <2>3. CASE UNCHANGED task
    BY <1>3, <2>3 DEF Leased
  <2>4. ASSUME NEW r, RowTo(job[w].task, r), Matches(w) PROVE Leased' \subseteq Leased
    <3>1. job[w].task \in Leased
      BY <1>2, <2>1, <2>4 DEF Matches, Holds, Leased
    <3>2. \A t \in Tasks : t # job[w].task => task'[t] = task[t]
      BY <1>1, <2>4 DEF RowTo, RowsOK
    <3>3. QED
      BY <1>3, <3>1, <3>2 DEF Leased
  <2>5. QED
    BY <1>1, <2>1, <2>2, <2>3, <2>4, RowAfter DEF StepOf
<1>6. ASSUME NEW w \in Workers, NEW t \in Tasks, claimPendingArchiveTasks(w, t)
      PROVE  Cardinality(Leased') <= GlobalConcurrency
  <2>1. Cardinality(Leased) < GlobalConcurrency
    BY <1>6 DEF claimPendingArchiveTasks
  <2>2. \E r \in Row : task' = [task EXCEPT ![t] = r]
    BY <1>1, <1>6, ClaimTo
  <2>3. Leased' \subseteq Leased \cup {t}
    BY <1>1, <1>3, <2>2 DEF RowsOK, Leased
  <2>4. /\ IsFiniteSet(Leased \cup {t})
        /\ Cardinality(Leased \cup {t}) \in Nat
        /\ Cardinality(Leased \cup {t}) <= Cardinality(Leased) + 1
    <3>1. /\ IsFiniteSet(Leased \cup {t})
          /\ \/ Cardinality(Leased \cup {t}) = Cardinality(Leased)
             \/ Cardinality(Leased \cup {t}) = Cardinality(Leased) + 1
      BY LeasedFinite, FS_AddElement
    <3>2. Cardinality(Leased) \in Nat
      BY LeasedFinite
    <3>3. QED
      BY ONLY <3>1, <3>2
  <2>5. Cardinality(Leased') <= Cardinality(Leased \cup {t}) /\ Cardinality(Leased') \in Nat
    BY <2>3, <2>4, FS_Subset, FS_CardinalityType
  <2>6. QED
    BY <2>1, <2>4, <2>5, LeasedFinite, ArchiveAssumption
<1>7. ASSUME NEW t \in Tasks, createArchiveTask(t) PROVE Leased' \subseteq Leased
  <2>1. PICK r : RowTo(t, r) /\ r.status = "queued"
    BY <1>1, <1>7, CreateTo
  <2>2. QED
    BY <1>1, <1>3, <2>1 DEF RowTo, RowsOK, Leased
<1>8. ASSUME NEW t \in Tasks, leaseExpires(t) PROVE Leased' \subseteq Leased
  <2>1. PICK r : RowTo(t, r) /\ r.lease = "expired"
    BY <1>1, <1>8, ExpireTo
  <2>2. QED
    BY <1>1, <1>3, <2>1 DEF RowTo, RowsOK, Leased
<1>9. QED
  BY <1>4, <1>5, <1>6, <1>7, <1>8, NextCases

\* When no statement is so late that it renews a lease that has expired, the archives
\* under way are never more than all processes may build together.
THEOREM CapacityBounded == Spec => []CapacityKept
<1>1. Init => CapacityKept
  <2> SUFFICES ASSUME Init PROVE CapacityKept
    OBVIOUS
  <2>1. Leased = {}
    BY DEF Init, Leased, Absent
  <2>2. QED
    BY <2>1, FS_EmptySet, ArchiveAssumption DEF CapacityKept
<1>2. Typed /\ Typed' /\ CapacityKept /\ [Next]_vars => CapacityKept'
  <2> SUFFICES ASSUME Typed, Typed', CapacityKept, [Next]_vars PROVE CapacityKept'
    OBVIOUS
  <2>1. CASE UNCHANGED vars
    BY <2>1 DEF vars, CapacityKept, Leased
  <2>2. QED
    BY <2>1, NextCapacity
<1>3. QED
  BY <1>1, <1>2, TypedInvariant, PTL DEF Spec

----------------------------------------------------------------------------
(* The attempts *)

\* Nobody who may be at work holds a live lease of the task.
Spare(t) == task[t].lease # "live" \/ ~Kept(t)

Tries == \A t \in Tasks :
            /\ task[t].attempt <= MaxAttempts + disturbances
            /\ task[t].status = "absent" => task[t].attempt = 0
            /\ task[t].status = "queued" => task[t].attempt < MaxAttempts
            /\ task[t].status = "processing" /\ Spare(t) =>
                  task[t].attempt < MaxAttempts + disturbances

LEMMA Keeper ==
    ASSUME JobsOK, NEW t \in Tasks
    PROVE  Kept(t) <=> \E w \in Workers : /\ job[w] \in Job
                                          /\ job[w].task = t
                                          /\ job[w].attempt = task[t].attempt
                                          /\ Keeping(job[w])
BY BusyJob, IdleIsNoJob DEF Kept, Keeping, Busy

\* A step that is no disturbance leaves a claim that keeps its task alone, or lets the
\* task go.
LEMMA StaysKept ==
    ASSUME Typed, Typed', NEW w \in Workers, ClaimStep(w), UNCHANGED disturbances,
           NEW t \in Tasks, task'[t].status = "processing", Spare(t)'
    PROVE  task[t].status = "processing" /\ Spare(t)
<1>1. JobsOK /\ RowsOK /\ TypeOK /\ StoredOK /\ JobsOK'
  BY DEF Typed, TypeOK, JobsOK, RowsOK
<1>2. job[w] \in Job /\ job[w].task \in Tasks
  BY <1>1, ClaimSteps, JobFields
<1>3. PICK x : StepOf(w, x)
  BY <1>1, ClaimSteps
<1>4. Follows(w, x) /\ RowStep(w, x) /\ CountStep(w, x)
  BY <1>3 DEF StepOf
<1>5. \A v \in Workers : v # w => job'[v] = job[v]
  BY <1>2, <1>4, SameClaims
<1>6. job'[w] = x
  BY <1>2, <1>4, SameClaims
<1>7. task'[t].attempt = task[t].attempt
  BY <1>1, <1>2, <1>4, RowAfter DEF RowTo, RowsOK
<1>8. task[t].status = "processing"
  BY <1>1, <1>2, <1>4, RowAfter DEF RowTo, RowsOK, Matches, Holds
<1>9. SUFFICES ASSUME task[t].lease = "live", Kept(t) PROVE FALSE
  BY <1>8 DEF Spare
<1>10. PICK v \in Workers : /\ job[v] \in Job /\ job[v].task = t
                            /\ job[v].attempt = task[t].attempt /\ Keeping(job[v])
  BY <1>1, <1>9, Keeper
<1>11. task'[t].lease = "live"
  BY <1>1, <1>2, <1>4, <1>9, RowAfter DEF RowTo, RowsOK
<1>12. ~Kept(t)'
  BY <1>11 DEF Spare
<1>13. ASSUME NEW u \in Workers, job'[u] \in Job, job'[u].task = t,
              job'[u].attempt = task'[t].attempt, Keeping(job'[u])
       PROVE  FALSE
  <2>1. Busy(u)'
    BY <1>13, IdleIsNoJob DEF Busy
  <2>2. QED
    BY <1>12, <1>13, <2>1 DEF Kept, Keeping
<1>14. CASE v # w
  BY <1>5, <1>7, <1>10, <1>13, <1>14
<1>15. CASE v = w
  <2>1. CASE x \in Job /\ Keeping(x)
    <3>1. x.task = t /\ x.attempt = task'[t].attempt
      BY <1>4, <1>7, <1>10, <1>15, <2>1, IdleIsNoJob DEF Follows
    <3>2. QED
      BY <1>6, <1>13, <2>1, <3>1
  <2>2. ASSUME NEW s \in {"queued", "completed", "failed"}, NEW a \in Nat, Released(w, s, a)
        PROVE  FALSE
    <3>1. PICK r : RowTo(job[w].task, r) /\ r.status = s
      BY <1>1, <1>2, <2>2, ReleasedRow
    <3>2. task'[t].status = s
      BY <1>1, <1>10, <1>15, <3>1 DEF RowTo, RowsOK
    <3>3. QED
      BY <3>2
  <2>3. Keeping(job[w])
    BY <1>10, <1>15
  <2>4. Live(w)
    BY <1>8, <1>9, <1>10, <1>15 DEF Live, Holds
  <2>5. disturbances' # disturbances + 1
    BY <1>1 DEF TypeOK
  <2>6. QED
    BY <1>4, <2>1, <2>2, <2>3, <2>4, <2>5 DEF CountStep
<1>16. QED
  BY <1>14, <1>15

LEMMA NextTries ==
    ASSUME Typed, Typed', Tries, Next
    PROVE  Tries'
<1>1. JobsOK /\ RowsOK /\ TypeOK /\ StoredOK /\ JobsOK' /\ RowsOK'
  BY DEF Typed, TypeOK, JobsOK, RowsOK
<1>2. MaxAttempts \in Nat \ {0} /\ disturbances \in Nat /\ disturbances' \in Nat
  BY ArchiveAssumption DEF Typed, TypeOK
<1>3. \A t \in Tasks : task[t].attempt \in Nat /\ task'[t].attempt \in Nat
  BY <1>1, RowFields DEF RowsOK
<1>4. ASSUME NEW w \in Workers, ClaimStep(w) PROVE Tries'
  <2>1. job[w] \in Job /\ job[w].task \in Tasks /\ job[w].attempt \in Nat
    BY <1>1, <1>4, ClaimSteps, JobFields
  <2>2. PICK x : StepOf(w, x)
    BY <1>1, <1>4, ClaimSteps
  <2>3. disturbances' \in {disturbances, disturbances + 1}
    BY <2>2 DEF StepOf, CountStep
  <2> SUFFICES ASSUME NEW t \in Tasks
               PROVE  /\ task'[t].attempt <= MaxAttempts + disturbances'
                      /\ task'[t].status = "absent" => task'[t].attempt = 0
                      /\ task'[t].status = "queued" => task'[t].attempt < MaxAttempts
                      /\ task'[t].status = "processing" /\ Spare(t)' =>
                            task'[t].attempt < MaxAttempts + disturbances'
    BY DEF Tries
  <2>4. task'[t].attempt = task[t].attempt
    BY <1>1, <2>1, <2>2, RowAfter DEF StepOf, RowTo, RowsOK
  <2>5. \/ task'[t].status = task[t].status
        \/ task'[t].status = "queued" /\ task[t].attempt < MaxAttempts
        \/ task'[t].status \in {"processing", "completed", "failed"}
    BY <1>1, <2>1, <2>2, RowAfter DEF StepOf, RowTo, RowsOK, Matches, Holds
  <2>6. task'[t].attempt <= MaxAttempts + disturbances'
    BY <1>2, <1>3, <2>3, <2>4 DEF Tries
  <2>7. /\ task'[t].status = "absent" => task'[t].attempt = 0
        /\ task'[t].status = "queued" => task'[t].attempt < MaxAttempts
    BY <2>4, <2>5 DEF Tries
  <2>8. ASSUME task'[t].status = "processing", Spare(t)'
        PROVE  task'[t].attempt < MaxAttempts + disturbances'
    <3>1. CASE disturbances' = disturbances + 1
      BY <1>2, <1>3, <2>4, <3>1 DEF Tries
    <3>2. CASE UNCHANGED disturbances
      <4>1. task[t].status = "processing" /\ Spare(t)
        BY <1>4, <2>8, <3>2, StaysKept
      <4>2. QED
        BY <2>4, <3>2, <4>1 DEF Tries
    <3>3. QED
      BY <2>3, <3>1, <3>2
  <2>9. QED
    BY <2>6, <2>7, <2>8
<1>5. ASSUME NEW w \in Workers, NEW t \in Tasks, claimPendingArchiveTasks(w, t)
      PROVE  Tries'
  <2>1. PICK r \in Row : /\ task' = [task EXCEPT ![t] = r]
                         /\ r.status = "processing" /\ r.lease = "live"
                         /\ r.attempt = task[t].attempt + 1
    BY <1>1, <1>5, ClaimTo
  <2>2. task'[t] = r /\ \A s \in Tasks : s # t => task'[s] = task[s]
    BY <1>1, <2>1 DEF RowsOK
  <2>3. task[t].attempt < MaxAttempts + disturbances
    <3>1. CASE task[t].status = "queued"
      BY <1>2, <1>3, <3>1 DEF Tries
    <3>2. CASE task[t].status = "processing" /\ task[t].lease = "expired"
      BY <3>2 DEF Tries, Spare
    <3>3. QED
      BY <1>5, <3>1, <3>2 DEF claimPendingArchiveTasks, Claimable
  <2>4. CASE disturbances' = disturbances + 1
    BY <1>2, <1>3, <2>1, <2>2, <2>3, <2>4 DEF Tries
  <2>5. ASSUME UNCHANGED disturbances, NEW j \in Job, job' = [job EXCEPT ![w] = j],
               j.task = t, j.attempt = task[t].attempt + 1, j.phase = "claimed", ~j.lost
        PROVE  Tries'
    <3>1. job'[w] = j /\ \A v \in Workers : v # w => job'[v] = job[v]
      BY <1>1, <2>5 DEF JobsOK
    <3>2. Kept(t)'
      BY <2>1, <2>2, <2>5, <3>1, IdleIsNoJob DEF Kept, Busy
    <3>3. ASSUME NEW s \in Tasks, s # t, Kept(s) PROVE Kept(s)'
      <4>1. PICK v \in Workers : /\ Busy(v) /\ job[v].task = s
                                 /\ job[v].attempt = task[s].attempt
                                 /\ job[v].phase \notin {"cleaning", "deleting"}
                                 /\ ~job[v].lost
        BY <3>3 DEF Kept
      <4>2. v # w
        BY <1>5, <4>1 DEF claimPendingArchiveTasks, Busy
      <4>3. QED
        BY <2>2, <3>1, <3>3, <4>1, <4>2 DEF Kept, Busy
    <3>4. ASSUME NEW s \in Tasks
          PROVE  /\ task'[s].attempt <= MaxAttempts + disturbances'
                 /\ task'[s].status = "absent" => task'[s].attempt = 0
                 /\ task'[s].status = "queued" => task'[s].attempt < MaxAttempts
                 /\ task'[s].status = "processing" /\ Spare(s)' =>
                       task'[s].attempt < MaxAttempts + disturbances'
      <4>1. CASE s = t
        <5>1. ~Spare(t)'
          BY <2>1, <2>2, <3>2 DEF Spare
        <5>2. QED
          BY <1>2, <1>3, <2>1, <2>2, <2>3, <2>5, <4>1, <5>1
      <4>2. CASE s # t
        <5>1. task'[s] = task[s]
          BY <2>2, <4>2
        <5>2. Spare(s)' => Spare(s)
          BY <3>3, <4>2, <5>1 DEF Spare
        <5>3. QED
          BY <2>5, <5>1, <5>2 DEF Tries
      <4>3. QED
        BY <4>1, <4>2
    <3>5. QED
      BY <3>4 DEF Tries
  <2>6. QED
    BY <1>1, <1>5, <2>4, <2>5, ClaimTo
<1>6. ASSUME NEW t \in Tasks, createArchiveTask(t) PROVE Tries'
  <2>1. UNCHANGED <<job, disturbances>> /\ task[t].status = "absent"
    BY <1>6 DEF createArchiveTask
  <2>2. PICK r : RowTo(t, r) /\ r.status = "queued"
    BY <1>1, <1>6, CreateTo
  <2>3. task'[t] = r /\ r.attempt = 0 /\ \A s \in Tasks : s # t => task'[s] = task[s]
    BY <1>1, <2>1, <2>2 DEF RowTo, RowsOK, Tries
  <2>4. \A s \in Tasks : s # t => (Spare(s)' <=> Spare(s))
    BY <2>1, <2>3 DEF Spare, Kept, Busy
  <2>5. QED
    BY <1>2, <2>1, <2>2, <2>3, <2>4 DEF Tries
<1>7. ASSUME NEW t \in Tasks, leaseExpires(t) PROVE Tries'
  <2>1. UNCHANGED job
    BY <1>7 DEF leaseExpires
  <2>2. PICK r : RowTo(t, r) /\ r.status = "processing" /\ task[t].status = "processing"
    BY <1>1, <1>7, ExpireTo
  <2>3. /\ task'[t].status = "processing" /\ task'[t].attempt = task[t].attempt
        /\ \A s \in Tasks : s # t => task'[s] = task[s]
    BY <1>1, <2>2 DEF RowTo, RowsOK
  <2>4. \A s \in Tasks : Kept(s)' <=> Kept(s)
    BY <2>1, <2>3 DEF Kept, Busy
  <2>5. CASE Kept(t)
    <3>1. disturbances' = disturbances + 1
      BY <1>7, <2>5 DEF leaseExpires, Disturbed
    <3>2. \A s \in Tasks : s # t => (Spare(s)' <=> Spare(s))
      BY <2>3, <2>4 DEF Spare
    <3>3. QED
      BY <1>2, <1>3, <2>3, <3>1, <3>2 DEF Tries
  <2>6. CASE ~Kept(t)
    <3>1. UNCHANGED disturbances
      BY <1>7, <2>6 DEF leaseExpires, Undisturbed
    <3>2. Spare(t) /\ \A s \in Tasks : s # t => (Spare(s)' <=> Spare(s))
      BY <2>3, <2>4, <2>6 DEF Spare
    <3>3. QED
      BY <2>2, <2>3, <3>1, <3>2 DEF Tries
  <2>7. QED
    BY <2>5, <2>6
<1>8. QED
  BY <1>4, <1>5, <1>6, <1>7, NextCases

\* A task is claimed as often as the cap allows, and once more for each time a worker
\* died, was too late or was refused: the claim itself has no bound.
THEOREM TriesAreBounded == Spec => []TriesBounded
<1>1. Init => Tries
  <2> SUFFICES ASSUME Init PROVE Tries
    OBVIOUS
  <2>1. \A t \in Tasks : task[t].status = "absent" /\ task[t].attempt = 0
    BY DEF Init, Absent
  <2>2. disturbances = 0
    BY DEF Init
  <2>3. QED
    BY <2>1, <2>2, ArchiveAssumption DEF Tries
<1>2. Typed /\ Typed' /\ Tries /\ [Next]_vars => Tries'
  <2> SUFFICES ASSUME Typed, Typed', Tries, [Next]_vars PROVE Tries'
    OBVIOUS
  <2>1. CASE UNCHANGED vars
    BY <2>1 DEF vars, Tries, Spare, Kept, Busy
  <2>2. QED
    BY <2>1, NextTries
<1>3. Tries => TriesBounded
  BY DEF Tries, TriesBounded
<1>4. QED
  BY <1>1, <1>2, <1>3, TypedInvariant, PTL DEF Spec

----------------------------------------------------------------------------
(* The archives as ArchiveRegister tells them *)

Numbered == \A w \in Workers : Busy(w) => job[w].attempt >= 1

LEMMA NextNumbered ==
    ASSUME Typed, Numbered, Next
    PROVE  Numbered'
<1>1. JobsOK /\ RowsOK /\ TypeOK /\ StoredOK
  BY DEF Typed, TypeOK, JobsOK, RowsOK
<1>2. ASSUME NEW w \in Workers, ClaimStep(w) PROVE Numbered'
  <2>1. job[w] \in Job
    BY <1>1, <1>2, ClaimSteps
  <2>2. PICK x : Follows(w, x)
    BY <1>1, <1>2, ClaimSteps DEF StepOf
  <2>3. \A v \in Workers : Busy(v)' => Busy(v) /\ Archive(v)' = Archive(v)
    BY <2>1, <2>2, SameClaims
  <2>4. QED
    BY <2>3 DEF Numbered, Archive
<1>3. ASSUME NEW w \in Workers, NEW t \in Tasks, claimPendingArchiveTasks(w, t)
      PROVE  Numbered'
  <2>1. task[t].attempt \in Nat
    BY <1>1, RowFields DEF RowsOK
  <2>2. CASE UNCHANGED job
    BY <2>2 DEF Numbered, Busy
  <2>3. ASSUME NEW j \in Job, job' = [job EXCEPT ![w] = j], j.attempt = task[t].attempt + 1
        PROVE  Numbered'
    BY <1>1, <2>1, <2>3 DEF Numbered, Busy, JobsOK
  <2>4. QED
    BY <1>1, <1>3, <2>2, <2>3, ClaimTo
<1>4. ASSUME NEW t \in Tasks, createArchiveTask(t) \/ leaseExpires(t) PROVE Numbered'
  BY <1>4 DEF createArchiveTask, leaseExpires, Numbered, Busy
<1>5. QED
  BY <1>2, <1>3, <1>4, NextCases

LEMMA NumberedInvariant == Spec => []Numbered
<1>1. Init => Numbered
  BY DEF Init, Numbered, Busy
<1>2. Typed /\ Numbered /\ [Next]_vars => Numbered'
  <2> SUFFICES ASSUME Typed, Numbered, [Next]_vars PROVE Numbered'
    OBVIOUS
  <2>1. CASE UNCHANGED vars
    BY <2>1 DEF vars, Numbered, Busy
  <2>2. QED
    BY <2>1, NextNumbered
<1>3. QED
  BY <1>1, <1>2, TypedInvariant, PTL DEF Spec

\* What a row tells of its task.
LEMMA Stages ==
    ASSUME NEW r \in Row
    PROVE  /\ r.status \in {"queued", "processing"} => Stage(r) = "asked"
           /\ r.status = "completed" => Stage(r) = "made" /\ Named(r) = r.archive
           /\ r.status \in {"absent", "failed"} => Stage(r) = r.status
           /\ r.status # "completed" => Named(r) = 0
BY DEF Stage, Named, Row

\* A step that leaves every task and every archive what it was.
LEMMA RegisterStutters ==
    ASSUME RowsOK, UNCHANGED bucket, NEW t \in Tasks, NEW r, RowTo(t, r),
           Stage(r) = Stage(task[t]), Named(r) = Named(task[t])
    PROVE  UNCHANGED Register!vars
<1>1. task' = [task EXCEPT ![t] = r] /\ r.attempt = task[t].attempt
  BY DEF RowTo
<1>2. \A s \in Tasks : /\ task'[s].attempt = task[s].attempt
                       /\ Stage(task'[s]) = Stage(task[s])
                       /\ Named(task'[s]) = Named(task[s])
  BY <1>1 DEF RowsOK
<1>3. QED
  BY <1>2 DEF Register!vars

LEMMA RegisterTries ==
    ASSUME Typed, NEW w \in Workers, NEW t \in Tasks, claimPendingArchiveTasks(w, t)
    PROVE  Register!Try(t)
<1>1. RowsOK /\ TypeOK
  BY DEF Typed, TypeOK, RowsOK
<1>2. UNCHANGED bucket /\ task[t].status \in {"queued", "processing"}
  BY DEF claimPendingArchiveTasks, Claimable
<1>3. PICK r \in Row : /\ task' = [task EXCEPT ![t] = r]
                       /\ r.status = "processing" /\ r.attempt = task[t].attempt + 1
  BY <1>1, ClaimTo
<1>4. task[t] \in Row /\ task'[t] = r /\ \A s \in Tasks : s # t => task'[s] = task[s]
  BY <1>1, <1>3 DEF RowsOK
<1>5. /\ Stage(task[t]) = "asked" /\ Stage(r) = "asked"
      /\ Named(task[t]) = 0 /\ Named(r) = 0
  BY <1>2, <1>3, <1>4, Stages
<1>6. \A s \in Tasks : /\ Stage(task'[s]) = Stage(task[s])
                       /\ Named(task'[s]) = Named(task[s])
                       /\ task'[s].attempt = IF s = t THEN task[t].attempt + 1 ELSE task[s].attempt
  BY <1>3, <1>4, <1>5
<1>7. [s \in Tasks |-> task'[s].attempt]
        = [[s \in Tasks |-> task[s].attempt] EXCEPT ![t] = @ + 1]
  BY <1>6
<1>8. QED
  BY <1>2, <1>5, <1>6, <1>7 DEF Register!Try

LEMMA RegisterAsks ==
    ASSUME Typed, NEW t \in Tasks, createArchiveTask(t)
    PROVE  Register!Ask(t)
<1>1. RowsOK
  BY DEF Typed, TypeOK, RowsOK
<1>2. UNCHANGED bucket /\ task[t].status = "absent"
  BY DEF createArchiveTask
<1>3. PICK r : RowTo(t, r) /\ r.status = "queued"
  BY <1>1, CreateTo
<1>4. /\ task[t] \in Row /\ r \in Row /\ r.attempt = task[t].attempt
      /\ task'[t] = r /\ \A s \in Tasks : s # t => task'[s] = task[s]
  BY <1>1, <1>3 DEF RowsOK, RowTo
<1>5. /\ Stage(task[t]) = "absent" /\ Stage(r) = "asked"
      /\ Named(task[t]) = 0 /\ Named(r) = 0
  BY <1>2, <1>3, <1>4, Stages
<1>6. \A s \in Tasks : /\ Stage(task'[s]) = IF s = t THEN "asked" ELSE Stage(task[s])
                       /\ Named(task'[s]) = Named(task[s])
                       /\ task'[s].attempt = task[s].attempt
  BY <1>4, <1>5
<1>7. [s \in Tasks |-> Stage(task'[s])]
        = [[s \in Tasks |-> Stage(task[s])] EXCEPT ![t] = "asked"]
  BY <1>6
<1>8. QED
  BY <1>2, <1>5, <1>6, <1>7 DEF Register!Ask

\* The claim that has the task makes its archive, or gives the task up.
LEMMA RegisterMakes ==
    ASSUME Typed, UNCHANGED bucket, NEW w \in Workers, job[w] \in Job, Holds(w),
           Archive(w) \in bucket,
           NEW r, RowTo(job[w].task, r), r.status = "completed", r.archive = job[w].attempt
    PROVE  Register!Make(job[w].task)
<1>1. RowsOK
  BY DEF Typed, TypeOK, RowsOK
<1>2. PICK t \in Tasks : t = job[w].task
  BY JobFields
<1>3. /\ task[t].status = "processing" /\ task[t].attempt = job[w].attempt
      /\ <<t, task[t].attempt>> \in bucket
  BY <1>2 DEF Holds, Archive
<1>4. /\ task[t] \in Row /\ r \in Row /\ r.attempt = task[t].attempt
      /\ task'[t] = r /\ \A s \in Tasks : s # t => task'[s] = task[s]
  BY <1>1, <1>2 DEF RowsOK, RowTo
<1>5. Stage(task[t]) = "asked" /\ Stage(r) = "made" /\ Named(r) = task[t].attempt
  BY <1>3, <1>4, Stages
<1>6. \A s \in Tasks : /\ Stage(task'[s]) = IF s = t THEN "made" ELSE Stage(task[s])
                       /\ Named(task'[s]) = IF s = t THEN task[t].attempt ELSE Named(task[s])
                       /\ task'[s].attempt = task[s].attempt
  BY <1>4, <1>5
<1>7. [s \in Tasks |-> Stage(task'[s])]
        = [[s \in Tasks |-> Stage(task[s])] EXCEPT ![t] = "made"]
  BY <1>6
<1>8. [s \in Tasks |-> Named(task'[s])]
        = [[s \in Tasks |-> Named(task[s])] EXCEPT ![t] = [s \in Tasks |-> task[s].attempt][t]]
  BY <1>6
<1>9. Register!Make(t)
  BY <1>3, <1>5, <1>6, <1>7, <1>8 DEF Register!Make
<1>10. QED
  BY <1>2, <1>9

LEMMA RegisterGivesUp ==
    ASSUME Typed, UNCHANGED bucket, NEW w \in Workers, job[w] \in Job, Holds(w),
           NEW r, RowTo(job[w].task, r), r.status = "failed", job[w].attempt >= MaxAttempts
    PROVE  Register!GiveUp(job[w].task)
<1>1. RowsOK
  BY DEF Typed, TypeOK, RowsOK
<1>2. PICK t \in Tasks : t = job[w].task
  BY JobFields
<1>3. task[t].status = "processing" /\ task[t].attempt >= MaxAttempts
  BY <1>2 DEF Holds
<1>4. /\ task[t] \in Row /\ r \in Row /\ r.attempt = task[t].attempt
      /\ task'[t] = r /\ \A s \in Tasks : s # t => task'[s] = task[s]
  BY <1>1, <1>2 DEF RowsOK, RowTo
<1>5. /\ Stage(task[t]) = "asked" /\ Stage(r) = "failed"
      /\ Named(task[t]) = 0 /\ Named(r) = 0
  BY <1>3, <1>4, Stages
<1>6. \A s \in Tasks : /\ Stage(task'[s]) = IF s = t THEN "failed" ELSE Stage(task[s])
                       /\ Named(task'[s]) = Named(task[s])
                       /\ task'[s].attempt = task[s].attempt
  BY <1>4, <1>5
<1>7. [s \in Tasks |-> Stage(task'[s])]
        = [[s \in Tasks |-> Stage(task[s])] EXCEPT ![t] = "failed"]
  BY <1>6
<1>8. Register!GiveUp(t)
  BY <1>3, <1>5, <1>6, <1>7 DEF Register!GiveUp
<1>9. QED
  BY <1>2, <1>8

LEMMA ClaimRegisters ==
    ASSUME Typed, Standing, Numbered, NEW w \in Workers, ClaimStep(w)
    PROVE  [Register!Next]_(Register!vars)
<1>1. JobsOK /\ RowsOK /\ TypeOK /\ StoredOK
  BY DEF Typed, TypeOK, JobsOK, RowsOK
<1>2. job[w] \in Job /\ Busy(w)
  BY <1>1, ClaimSteps, IdleIsNoJob DEF Busy
<1>3. PICK x : RowStep(w, x) /\ BucketStep(w, x)
  BY <1>1, ClaimSteps DEF StepOf
<1>4. PICK t \in Tasks : t = job[w].task
  BY <1>2, JobFields
<1>5. PICK k \in Nat : k = job[w].attempt
  BY <1>2, JobFields
<1>6. task[t] \in Row /\ task[t].attempt \in Nat /\ k >= 1 /\ k <= task[t].attempt
  BY <1>1, <1>2, <1>4, <1>5, RowFields DEF RowsOK, Numbered, Standing, Ahead
<1>7. k \in 1..[s \in Tasks |-> task[s].attempt][t]
  BY <1>6
<1>8. CASE UNCHANGED <<task, bucket>>
  BY <1>8 DEF Register!vars
<1>9. CASE UNCHANGED task /\ bucket' = bucket \cup {Archive(w)}
  <2>1. Register!Store(t, k)
    BY <1>4, <1>5, <1>9 DEF Register!Store, Archive
  <2>2. QED
    BY <1>7, <2>1 DEF Register!Next
<1>10. CASE UNCHANGED task /\ bucket' = bucket \ {Archive(w)} /\ At(w, "deleting")
  <2>1. ~(task[t].status = "completed" /\ task[t].archive = k)
    BY <1>4, <1>5, <1>10 DEF Standing, DeletedIsNot, Published
  <2>2. Named(task[t]) # k
    BY <1>6, <2>1, Stages
  <2>3. Register!Remove(t, k)
    BY <1>4, <1>5, <1>10, <2>2 DEF Register!Remove, Archive
  <2>4. QED
    BY <1>7, <2>3 DEF Register!Next
<1>11. ASSUME UNCHANGED bucket, Holds(w), NEW r, RowTo(t, r), r.status \in {"queued", "processing"}
       PROVE  UNCHANGED Register!vars
  <2>1. task[t].status = "processing" /\ r \in Row
    BY <1>4, <1>11 DEF Holds, RowTo
  <2>2. Stage(r) = Stage(task[t]) /\ Named(r) = Named(task[t])
    BY <1>6, <1>11, <2>1, Stages
  <2>3. QED
    BY <1>1, <1>11, <2>2, RegisterStutters
<1>12. ASSUME UNCHANGED bucket, Holds(w), NEW r, RowTo(t, r), r.status = "completed",
              r.archive = job[w].attempt, At(w, "completing")
       PROVE  Register!Next
  <2>1. Archive(w) \in bucket
    BY <1>12 DEF Standing, UploadedIsThere, At
  <2>2. Register!Make(t)
    BY <1>2, <1>4, <1>12, <2>1, RegisterMakes
  <2>3. QED
    BY <2>2 DEF Register!Next
<1>13. ASSUME UNCHANGED bucket, Holds(w), NEW r, RowTo(t, r), r.status = "failed",
              job[w].attempt >= MaxAttempts
       PROVE  Register!Next
  <2>1. Register!GiveUp(t)
    BY <1>2, <1>4, <1>13, RegisterGivesUp
  <2>2. QED
    BY <2>1 DEF Register!Next
<1>14. CASE ~UNCHANGED task
  <2>1. UNCHANGED bucket
    BY <1>3, <1>14 DEF BucketStep
  <2>2. Holds(w)
    BY <1>1, <1>2, <1>3, <1>14, RowAfter DEF Matches
  <2>3. \E r : /\ RowTo(t, r)
               /\ \/ r.status \in {"queued", "processing"}
                  \/ r.status = "completed" /\ r.archive = job[w].attempt /\ At(w, "completing")
                  \/ r.status = "failed" /\ job[w].attempt >= MaxAttempts
    BY <1>1, <1>2, <1>3, <1>4, <1>14, RowAfter
  <2>4. QED
    BY <1>11, <1>12, <1>13, <2>1, <2>2, <2>3
<1>15. QED
  BY <1>3, <1>8, <1>9, <1>10, <1>14 DEF BucketStep

LEMMA StepRegisters ==
    ASSUME Typed, Standing, Numbered, [Next]_vars
    PROVE  [Register!Next]_(Register!vars)
<1>1. CASE UNCHANGED vars
  BY <1>1 DEF vars, Register!vars
<1>2. ASSUME NEW w \in Workers, ClaimStep(w) PROVE [Register!Next]_(Register!vars)
  BY <1>2, ClaimRegisters
<1>3. ASSUME NEW w \in Workers, NEW t \in Tasks, claimPendingArchiveTasks(w, t)
      PROVE  Register!Next
  BY <1>3, RegisterTries DEF Register!Next
<1>4. ASSUME NEW t \in Tasks, createArchiveTask(t) PROVE Register!Next
  BY <1>4, RegisterAsks DEF Register!Next
<1>5. ASSUME NEW t \in Tasks, leaseExpires(t) PROVE UNCHANGED Register!vars
  <2>1. RowsOK
    BY DEF Typed, TypeOK, RowsOK
  <2>2. PICK r : RowTo(t, r) /\ r.status = "processing" /\ task[t].status = "processing"
    BY <1>5, <2>1, ExpireTo
  <2>3. task[t] \in Row /\ r \in Row
    BY <2>1, <2>2 DEF RowsOK, RowTo
  <2>4. Stage(r) = Stage(task[t]) /\ Named(r) = Named(task[t])
    BY <2>2, <2>3, Stages
  <2>5. UNCHANGED bucket
    BY <1>5 DEF leaseExpires
  <2>6. QED
    BY <2>1, <2>2, <2>4, <2>5, RegisterStutters
<1>6. QED
  BY <1>1, <1>2, <1>3, <1>4, <1>5, NextCases

\* The workers keep the register's promises: whichever of a task's tries are still at
\* work, only the last gives it an archive, and only one that is there; it is given
\* up only after the tries the cap allows, and what has ended stays ended.
THEOREM RegisterKept == Spec => KeepsRegister
<1>1. Init => Register!Init
  <2> SUFFICES ASSUME Init PROVE Register!Init
    OBVIOUS
  <2>1. Absent \in Row /\ Absent.status = "absent" /\ Absent.attempt = 0
    BY DEF Absent, Row
  <2>2. Stage(Absent) = "absent" /\ Named(Absent) = 0
    BY <2>1, Stages
  <2>3. \A t \in Tasks : task[t] = Absent
    BY DEF Init
  <2>4. QED
    BY <2>1, <2>2, <2>3 DEF Init, Register!Init
<1>2. Typed /\ Standing /\ Numbered /\ [Next]_vars => [Register!Next]_(Register!vars)
  BY StepRegisters
<1>3. QED
  BY <1>1, <1>2, TypedInvariant, StandingInvariant, NumberedInvariant, PTL
     DEF Spec, KeepsRegister, Register!Spec

----------------------------------------------------------------------------
\* The register of archives is sound in terms of the rows it is about.
LEMMA RegisterOfRows ==
    /\ Register!TypeOK <=>
         \A t \in Tasks : /\ Stage(task[t]) \in {"absent", "asked", "made", "failed"}
                          /\ task[t].attempt \in Nat /\ Named(task[t]) \in Nat
    /\ Register!Sound <=>
         \A t \in Tasks :
             /\ Stage(task[t]) = "made" => /\ Named(task[t]) = task[t].attempt
                                           /\ <<t, Named(task[t])>> \in bucket
             /\ Stage(task[t]) = "failed" => task[t].attempt >= MaxAttempts
BY DEF Register!TypeOK, Register!Sound

LEMMA RegisterOfRowsNext ==
    /\ Register!TypeOK' <=>
         \A t \in Tasks : /\ Stage(task'[t]) \in {"absent", "asked", "made", "failed"}
                          /\ task'[t].attempt \in Nat /\ Named(task'[t]) \in Nat
    /\ Register!Sound' <=>
         \A t \in Tasks :
             /\ Stage(task'[t]) = "made" => /\ Named(task'[t]) = task'[t].attempt
                                            /\ <<t, Named(task'[t])>> \in bucket'
             /\ Stage(task'[t]) = "failed" => task'[t].attempt >= MaxAttempts
BY DEF Register!TypeOK, Register!Sound

\* What the rows say after a step of the register, task by task.
LEMMA RegisterRows ==
    ASSUME NEW t \in Tasks,
           Register!Ask(t) \/ Register!Try(t) \/ Register!Make(t) \/ Register!GiveUp(t)
    PROVE  /\ UNCHANGED bucket
           /\ \A q \in Tasks \ {t} : /\ Stage(task'[q]) = Stage(task[q])
                                     /\ task'[q].attempt = task[q].attempt
                                     /\ Named(task'[q]) = Named(task[q])
           /\ \/ /\ Stage(task'[t]) = "asked"
                 /\ \/ task'[t].attempt = task[t].attempt
                    \/ task'[t].attempt = task[t].attempt + 1
                 /\ Named(task'[t]) = Named(task[t])
              \/ /\ <<t, task[t].attempt>> \in bucket
                 /\ Stage(task'[t]) = "made" /\ task'[t].attempt = task[t].attempt
                 /\ Named(task'[t]) = task[t].attempt
              \/ /\ Stage(task'[t]) = "failed" /\ task[t].attempt >= MaxAttempts
                 /\ task'[t].attempt = task[t].attempt /\ Named(task'[t]) = Named(task[t])
BY DEF Register!Ask, Register!Try, Register!Make, Register!GiveUp

LEMMA RegisterStep ==
    ASSUME Register!TypeOK, Register!Sound, [Register!Next]_(Register!vars)
    PROVE  Register!TypeOK' /\ Register!Sound'
<1>1. CASE UNCHANGED Register!vars
  BY <1>1 DEF Register!vars, Register!TypeOK, Register!Sound
<1>2. ASSUME NEW t \in Tasks,
             Register!Ask(t) \/ Register!Try(t) \/ Register!Make(t) \/ Register!GiveUp(t)
      PROVE  Register!TypeOK' /\ Register!Sound'
  <2>1. \A q \in Tasks \ {t} : /\ Stage(task'[q]) = Stage(task[q])
                               /\ task'[q].attempt = task[q].attempt
                               /\ Named(task'[q]) = Named(task[q])
    BY <1>2, RegisterRows
  <2>2. UNCHANGED bucket
    BY <1>2, RegisterRows
  <2>3. \/ /\ Stage(task'[t]) = "asked"
           /\ task'[t].attempt \in {task[t].attempt, task[t].attempt + 1}
           /\ Named(task'[t]) = Named(task[t])
        \/ /\ <<t, task[t].attempt>> \in bucket
           /\ Stage(task'[t]) = "made" /\ task'[t].attempt = task[t].attempt
           /\ Named(task'[t]) = task[t].attempt
        \/ /\ Stage(task'[t]) = "failed" /\ task[t].attempt >= MaxAttempts
           /\ task'[t].attempt = task[t].attempt /\ Named(task'[t]) = Named(task[t])
    BY <1>2, RegisterRows
  <2>4. Register!TypeOK'
    <3> SUFFICES ASSUME NEW q \in Tasks
                 PROVE  /\ Stage(task'[q]) \in {"absent", "asked", "made", "failed"}
                        /\ task'[q].attempt \in Nat /\ Named(task'[q]) \in Nat
      BY RegisterOfRowsNext
    <3>1. QED
      BY <2>1, <2>3, RegisterOfRows
  <2>5. Register!Sound'
    <3> SUFFICES ASSUME NEW q \in Tasks
                 PROVE  /\ Stage(task'[q]) = "made" => /\ Named(task'[q]) = task'[q].attempt
                                                      /\ <<q, Named(task'[q])>> \in bucket'
                        /\ Stage(task'[q]) = "failed" => task'[q].attempt >= MaxAttempts
      BY RegisterOfRowsNext
    <3>1. CASE q = t
      BY <2>2, <2>3, <3>1
    <3>2. CASE q # t
      BY <2>1, <2>2, <3>2, RegisterOfRows
    <3>3. QED
      BY <3>1, <3>2
  <2>6. QED
    BY <2>4, <2>5
<1>3. ASSUME NEW t \in Tasks, NEW k, Register!Store(t, k) \/ Register!Remove(t, k)
      PROVE  Register!TypeOK' /\ Register!Sound'
  BY <1>3 DEF Register!Store, Register!Remove, Register!TypeOK, Register!Sound
<1>4. QED
  BY <1>1, <1>2, <1>3 DEF Register!Next

LEMMA RegisterSound == KeepsRegister => [](Register!TypeOK /\ Register!Sound)
<1>1. Register!Init => Register!TypeOK /\ Register!Sound
  BY DEF Register!Init, Register!TypeOK, Register!Sound
<1>2. Register!TypeOK /\ Register!Sound /\ [Register!Next]_(Register!vars) => (Register!TypeOK /\ Register!Sound)'
  BY RegisterStep
<1>3. QED
  BY <1>1, <1>2, PTL DEF KeepsRegister, Register!Spec

\* The archive of a completed task is there and is that of its last attempt, and a task
\* that has failed was attempted as often as the cap says.
THEOREM RegisterIsSound == Spec => []Register!Sound
BY RegisterKept, RegisterSound, PTL
=============================================================================
