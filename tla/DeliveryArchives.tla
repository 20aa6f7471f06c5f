-------------------------- MODULE DeliveryArchives --------------------------
(***************************************************************************)
(* The archives of delivery packages: a task is claimed under a lease, its *)
(* archive is built, uploaded under a key of the claim's own and published *)
(* by the transaction that completes the task; a failed attempt is queued  *)
(* again up to a cap, and a lease that expires hands the task to another   *)
(* worker while the first may still be at work.                            *)
(***************************************************************************)
EXTENDS Naturals, FiniteSets

CONSTANTS
    Tasks,             \* archive tasks an administrator may ask for
    Workers,           \* the places for claims of all processes: DELIVERY_ARCHIVE_CONCURRENCY each
    GlobalConcurrency, \* DELIVERY_ARCHIVE_GLOBAL_CONCURRENCY
    MaxAttempts,       \* DELIVERY_ARCHIVE_MAX_ATTEMPTS
    SlowDatabase,      \* a statement may reach its row after the lease it found live expired
    MaxDisturbances    \* bound on what dies, is refused or comes too late

ASSUME ArchiveAssumption ==
    /\ IsFiniteSet(Tasks)
    /\ GlobalConcurrency \in Nat
    /\ MaxAttempts \in Nat \ {0}
    /\ SlowDatabase \in BOOLEAN
    /\ MaxDisturbances \in Nat

VARIABLES
    task,          \* delivery_archive_tasks
    job,           \* the claim each worker works on (processArchiveClaim)
    bucket,        \* archives in the bucket
    struck,        \* archives whose worker died, or could not remove them
    disturbances   \* deaths, refusals and leases that ran out under a worker, so far

vars == <<task, job, bucket, struck, disturbances>>

----------------------------------------------------------------------------
\* A claim is told from the others of its task by the attempt it is: each has a
\* lease token of its own, which is also the name of its archive. `archive` is the
\* attempt whose archive the row names; 0 is none.
Row == [status  : {"absent", "queued", "processing", "completed", "failed"},
        attempt : Nat,
        lease   : {"none", "live", "expired"},
        archive : Nat]

Absent == [status |-> "absent", attempt |-> 0, lease |-> "none", archive |-> 0]

\* stored: the key of the archive has been given to the storage.
\* lost: a heartbeat found the lease gone.
Job == [task    : Tasks,
        attempt : Nat,
        phase   : {"claimed", "building", "uploading", "uploaded", "completing",
                   "failing", "cleaning", "deleting"},
        stored  : BOOLEAN,
        lost    : BOOLEAN]
Idle == [phase |-> "idle"]

Busy(w)      == job[w] # Idle
At(w, phase) == job[w].phase = phase
Archive(w)   == <<job[w].task, job[w].attempt>>

\* Mutant: the row is told by its status alone, whoever has claimed it since.
HoldsTask(w) == task[job[w].task].status = "processing"

Holds(w) == /\ task[job[w].task].status = "processing"
            /\ task[job[w].task].attempt = job[w].attempt

\* Whether a statement on the claim's row finds it, its lease live at the instant
\* the worker read before it sent the statement.
Matches(w) == Holds(w) /\ (task[job[w].task].lease = "live" \/ SlowDatabase)
Misses(w)  == ~(Holds(w) /\ task[job[w].task].lease = "live")

\* Mutant: what counts is whether the claim still has the task.
PublishedIfHeld(w) == Holds(w)

\* The row names the claim's archive.
Published(w) == /\ task[job[w].task].status = "completed"
                /\ task[job[w].task].archive = job[w].attempt

Leased == {t \in Tasks : task[t].status = "processing" /\ task[t].lease = "live"}

\* Mutant: a task whose lease expired is nobody's.
ClaimableQueued(t) == task[t].status = "queued"

Claimable(t) == \/ task[t].status = "queued"
                \/ task[t].status = "processing" /\ task[t].lease = "expired"

Init ==
    /\ task = [t \in Tasks |-> Absent]
    /\ job = [w \in Workers |-> Idle]
    /\ bucket = {}
    /\ struck = {}
    /\ disturbances = 0

----------------------------------------------------------------------------
\* Steps of a claim.

Disturbed   == disturbances < MaxDisturbances /\ disturbances' = disturbances + 1
Undisturbed == UNCHANGED disturbances

Goes(w, phase) == job' = [job EXCEPT ![w].phase = phase]
Ends(w)        == job' = [job EXCEPT ![w] = Idle]

\* Mutant: a claim that ends does not look after its archive.
LeavesAtOnce(w) == Ends(w)

\* The `finally` of processArchiveClaim.
Leaves(w) == IF job[w].stored THEN Goes(w, "cleaning") ELSE Ends(w)

Renewed(w) == task' = [task EXCEPT ![job[w].task].lease = "live"]

Released(w, status, archive) ==
    task' = [task EXCEPT ![job[w].task] =
                 [@ EXCEPT !.status = status, !.lease = "none", !.archive = archive]]

createArchiveTask(t) ==
    /\ task[t].status = "absent"
    /\ task' = [task EXCEPT ![t].status = "queued"]
    /\ UNCHANGED <<job, bucket, struck, disturbances>>

\* One claim of a batch: the batch is as many of them under one advisory lock. The
\* oldest task is claimed first, but a task whose row is locked is skipped, so that
\* it may be any. The answer of the transaction may be lost. One idle worker is as
\* good as another.
claimPendingArchiveTasks(w, t) ==
    /\ job[w] = Idle
    /\ w = CHOOSE k \in Workers : job[k] = Idle
    /\ Claimable(t)
    /\ Cardinality(Leased) < GlobalConcurrency
    /\ task' = [task EXCEPT ![t] = [status  |-> "processing", lease   |-> "live",
                                    attempt |-> @.attempt + 1, archive |-> 0]]
    /\ \/ /\ job' = [job EXCEPT ![w] = [task   |-> t, attempt |-> task[t].attempt + 1,
                                        phase  |-> "claimed",
                                        stored |-> FALSE, lost |-> FALSE]]
          /\ Undisturbed
       \/ Disturbed /\ UNCHANGED job
    /\ UNCHANGED <<bucket, struck>>

\* The worker reads the row of its claim.
processArchiveClaim(w) ==
    /\ At(w, "claimed")
    /\ \/ Matches(w) /\ Goes(w, "building") /\ Undisturbed
       \/ Misses(w) /\ Ends(w) /\ Undisturbed
       \/ Ends(w) /\ Disturbed
    /\ UNCHANGED <<task, bucket, struck>>

\* The heartbeat runs beside the claim until its `finally`; its errors are ignored.
renewArchiveLease(w) ==
    /\ job[w].phase \in {"building", "uploading", "uploaded", "completing", "failing"}
    /\ \/ Matches(w) /\ Renewed(w) /\ UNCHANGED job
       \/ Misses(w) /\ job' = [job EXCEPT ![w].lost = TRUE] /\ UNCHANGED task
    /\ UNCHANGED <<bucket, struck, disturbances>>

\* After each asset.
updateArchiveProgress(w) ==
    /\ At(w, "building")
    /\ \/ Matches(w) /\ Renewed(w) /\ UNCHANGED job
       \/ Misses(w) /\ Leaves(w) /\ UNCHANGED task
    /\ UNCHANGED <<bucket, struck, disturbances>>

\* An asset that cannot be read, a disk that is full.
buildFails(w) ==
    /\ At(w, "building")
    /\ Goes(w, "failing")
    /\ UNCHANGED <<task, bucket, struck, disturbances>>

\* The lease is renewed before the next step, unless a heartbeat found it lost.
Continues(w) == ~job[w].lost /\ Matches(w) /\ Renewed(w) /\ Undisturbed
GivesUp(w)   == (job[w].lost \/ Misses(w)) /\ Leaves(w) /\ Undisturbed
Refused(w)   == ~job[w].lost /\ Disturbed /\ Goes(w, "failing")

built(w) ==
    /\ At(w, "building")
    /\ \/ /\ Continues(w)
          /\ job' = [job EXCEPT ![w].phase = "uploading", ![w].stored = TRUE]
       \/ GivesUp(w) /\ UNCHANGED task
       \/ Refused(w) /\ UNCHANGED task
    /\ UNCHANGED <<bucket, struck>>

\* An upload that ends in an error may have left the whole object.
uploadObject(w) ==
    /\ At(w, "uploading")
    /\ \/ bucket' = bucket \cup {Archive(w)} /\ Goes(w, "uploaded")
       \/ bucket' \in {bucket, bucket \cup {Archive(w)}} /\ Goes(w, "failing")
    /\ UNCHANGED <<task, struck, disturbances>>

uploadDone(w) ==
    /\ At(w, "uploaded")
    /\ \/ Continues(w) /\ Goes(w, "completing")
       \/ GivesUp(w) /\ UNCHANGED task
       \/ Refused(w) /\ UNCHANGED task
    /\ UNCHANGED <<bucket, struck>>

\* A refused transaction changed nothing, or everything and its answer was lost.
completeArchiveClaim(w) ==
    /\ At(w, "completing")
    /\ \/ /\ Matches(w)
          /\ Released(w, "completed", job[w].attempt)
          /\ \/ Ends(w) /\ Undisturbed
             \/ Goes(w, "failing") /\ Disturbed
       \/ Misses(w) /\ Leaves(w) /\ UNCHANGED task /\ Undisturbed
       \/ Goes(w, "failing") /\ UNCHANGED task /\ Disturbed
    /\ UNCHANGED <<bucket, struck>>

failOrRetryArchiveClaim(w) ==
    /\ At(w, "failing")
    /\ Leaves(w)
    /\ \/ /\ Matches(w)
          /\ Released(w, IF job[w].attempt < MaxAttempts THEN "queued" ELSE "failed", 0)
          /\ Undisturbed
       \/ Misses(w) /\ UNCHANGED task /\ Undisturbed
       \/ UNCHANGED task /\ Disturbed
    /\ UNCHANGED <<bucket, struck>>

\* The row is read, then the archive deleted: either may be refused.
deleteArchiveObjectUnlessPublished(w) ==
    /\ At(w, "cleaning")
    /\ \/ Published(w) /\ Ends(w) /\ Undisturbed /\ UNCHANGED struck
       \/ ~Published(w) /\ Goes(w, "deleting") /\ Undisturbed /\ UNCHANGED struck
       \/ Ends(w) /\ Disturbed /\ struck' = struck \cup {Archive(w)}
    /\ UNCHANGED <<task, bucket>>

deleteObject(w) ==
    /\ At(w, "deleting")
    /\ Ends(w)
    /\ \/ bucket' = bucket \ {Archive(w)} /\ Undisturbed /\ UNCHANGED struck
       \/ Disturbed /\ struck' = struck \cup {Archive(w)} /\ UNCHANGED bucket
    /\ UNCHANGED task

----------------------------------------------------------------------------
\* Deaths, and the passing of time.

workerDies(w) ==
    /\ Busy(w)
    /\ Ends(w)
    /\ struck' = struck \cup {Archive(w)}
    /\ Disturbed
    /\ UNCHANGED <<task, bucket>>

\* A worker that knows of its lease renews it in time, or is late: a disturbance.
Kept(t) == \E w \in Workers : /\ Busy(w)
                              /\ job[w].task = t
                              /\ job[w].attempt = task[t].attempt
                              /\ job[w].phase \notin {"cleaning", "deleting"}
                              /\ ~job[w].lost

leaseExpires(t) ==
    /\ t \in Leased
    /\ task' = [task EXCEPT ![t].lease = "expired"]
    /\ IF Kept(t) THEN Disturbed ELSE Undisturbed
    /\ UNCHANGED <<job, bucket, struck>>

----------------------------------------------------------------------------
Process(w) ==
    \/ processArchiveClaim(w) \/ buildFails(w) \/ built(w)
    \/ uploadObject(w) \/ uploadDone(w) \/ completeArchiveClaim(w)
    \/ failOrRetryArchiveClaim(w) \/ deleteArchiveObjectUnlessPublished(w)
    \/ deleteObject(w)

poll == \E w \in Workers, t \in Tasks : claimPendingArchiveTasks(w, t)

Next ==
    \/ poll
    \/ \E t \in Tasks : createArchiveTask(t) \/ leaseExpires(t)
    \/ \E w \in Workers : \/ Process(w)
                          \/ renewArchiveLease(w) \/ updateArchiveProgress(w)
                          \/ workerDies(w)

\* The poll timer runs on, a worker does not stop in the middle of a claim, and the
\* lease nobody renews expires. Nobody has to ask for an archive, fail or die.
Fairness ==
    /\ WF_vars(poll)
    /\ \A w \in Workers : WF_vars(Process(w))
    /\ \A t \in Tasks : WF_vars(leaseExpires(t) /\ ~Kept(t))

Spec     == Init /\ [][Next]_vars
FairSpec == Spec /\ Fairness

----------------------------------------------------------------------------
\* Properties.

TypeOK ==
    /\ task \in [Tasks -> Row]
    /\ job \in [Workers -> Job \cup {Idle}]
    /\ bucket \subseteq Tasks \X Nat
    /\ struck \subseteq Tasks \X Nat
    /\ disturbances \in Nat

\* The archive of a completed task, which archiveTaskDownloadLink signs a link to, is
\* in the bucket: no worker that believes its attempt failed removes what was published.
ArchiveStands ==
    \A t \in Tasks : task[t].status = "completed" => <<t, task[t].archive>> \in bucket

\* An archive in the bucket is the published one of its task, or in the hands of the
\* worker that uploads it, or of one that died or was refused: what an attempt without
\* a lease uploads late does not stay.
NothingLeftBehind ==
    \A o \in bucket : \/ task[o[1]].status = "completed" /\ task[o[1]].archive = o[2]
                      \/ \E w \in Workers : Busy(w) /\ Archive(w) = o /\ job[w].stored
                      \/ o \in struck

\* No more archives are under a live lease than the processes may build together.
CapacityKept == SlowDatabase \/ Cardinality(Leased) <= GlobalConcurrency

\* Claiming does not look at the attempts: what exceeds the cap was disturbed.
TriesBounded == \A t \in Tasks : task[t].attempt <= MaxAttempts + disturbances

\* What the rows and the bucket say of an archive, as ArchiveRegister tells it.
Stage(row) == CASE row.status \in {"queued", "processing"} -> "asked"
                [] row.status = "completed"                -> "made"
                [] OTHER                                   -> row.status

Named(row) == IF row.status = "completed" THEN row.archive ELSE 0

Register == INSTANCE ArchiveRegister WITH
    stage  <- [t \in Tasks |-> Stage(task[t])],
    tries  <- [t \in Tasks |-> task[t].attempt],
    named  <- [t \in Tasks |-> Named(task[t])],
    stored <- bucket

\* Claims, leases, heartbeats, retries and cleanup amount to one try after the other,
\* of which only the last can give the task its archive, however many of them are
\* still at work; and a task is not given up before it was tried as often as the cap
\* says, nor taken up again once it ended.
KeepsRegister == Register!Spec

\* An archive that was asked for is made, or fails for good.
ArchivesEnd ==
    \A t \in Tasks : task[t].status \in {"queued", "processing"}
                         ~> task[t].status \in {"completed", "failed"}
=============================================================================
