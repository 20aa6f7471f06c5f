------------------------ MODULE TaskSegments_proofs ------------------------
(***************************************************************************)
(* One call of the refinement model for a task, publications of the clip   *)
(* that the row describes (and, until a second mishap, of the one at its   *)
(* key), and an original that goes only when nothing needs it: for any     *)
(* number of runs, tasks, handlers, retries and failures.  All of it is    *)
(* what VideoArchive allows.                                               *)
(***************************************************************************)
EXTENDS TaskSegments, FiniteSetTheorems, SequenceTheorems, TLAPS

----------------------------------------------------------------------------
(* Messages *)

LEMMA SentIsABag ==
    ASSUME NEW Q, IsABag(Q), NEW m
    PROVE  IsABag(Sent(Q, m)) /\ BagToSet(Sent(Q, m)) = BagToSet(Q) \cup {m}
BY DEF IsABag, Sent, SetToBag, (+), BagToSet

LEMMA TakenIsABag ==
    ASSUME NEW Q, IsABag(Q), NEW m
    PROVE  IsABag(Taken(Q, m)) /\ BagToSet(Taken(Q, m)) \subseteq BagToSet(Q)
BY DEF IsABag, Taken, SetToBag, (-), BagToSet

\* A message of one of the three kinds of work is about an asset.
LEMMA EventOfAsset ==
    ASSUME NEW e \in Events, e[1] \in {"refine", "cut", "json"}
    PROVE  e[2] \in Assets /\ e = <<e[1], e[2]>>
BY DEF Events, Retain

LEMMA NextTryIsMessage ==
    ASSUME NEW m \in Messages, m.retry < RetryDelays
    PROVE  NextTry(m) \in Messages /\ NextTry(m).event = m.event
<1>1. m.retry + 1 \in RetryNumbers
  BY TaskAssumption DEF Messages, RetryNumbers
<1>2. QED
  BY <1>1 DEF Messages, NextTry

LEMMA RedeliveredIsMessage ==
    ASSUME NEW m \in Messages
    PROVE  Redelivered(m) \in Messages /\ Redelivered(m).event = m.event
BY DEF Messages, Redelivered

QueueOK == IsABag(queue) /\ BagToSet(queue) \subseteq Messages

LEMMA EmptyQueue == IsABag(EmptyBag) /\ BagToSet(EmptyBag) = {}
BY DEF IsABag, EmptyBag, SetToBag, BagToSet

LEMMA DeliveredOK ==
    ASSUME QueueOK, NEW m, Delivered(m)
    PROVE  QueueOK' /\ m \in Messages /\ BagToSet(queue)' \subseteq BagToSet(queue)
<1>1. IsABag(Taken(queue, m)) /\ BagToSet(Taken(queue, m)) \subseteq BagToSet(queue)
  BY TakenIsABag DEF QueueOK
<1>2. QED
  BY <1>1 DEF QueueOK, Delivered, BagIn

LEMMA DropOK ==
    ASSUME QueueOK, NEW m, Drop(m)
    PROVE  QueueOK' /\ m \in Messages /\ UNCHANGED job
BY DeliveredOK DEF Drop

LEMMA RetryDeliveredOK ==
    ASSUME QueueOK, NEW m, RetryDelivered(m)
    PROVE  QueueOK' /\ m \in Messages /\ UNCHANGED job
<1>1. m \in Messages /\ UNCHANGED job
  BY DEF RetryDelivered, BagIn, QueueOK
<1>2. IsABag(Taken(queue, m)) /\ BagToSet(Taken(queue, m)) \subseteq Messages
  BY TakenIsABag DEF QueueOK
<1>3. CASE m.retry < RetryDelays
  <2>1. queue' = Sent(Taken(queue, m), NextTry(m)) /\ NextTry(m) \in Messages
    BY <1>1, <1>3, NextTryIsMessage DEF RetryDelivered
  <2>2. QED
    BY <1>1, <1>2, <2>1, SentIsABag DEF QueueOK
<1>4. CASE ~(m.retry < RetryDelays)
  BY <1>1, <1>2, <1>4 DEF RetryDelivered, QueueOK
<1>5. QED
  BY <1>3, <1>4

----------------------------------------------------------------------------
(* Handlers *)

Calling == {"calling", "answered"}
Cutting == {"cutting", "uploading", "finalizing", "recovering"}
Writing == {"writing", "publishing"}
HasClip == {"uploading", "finalizing", "recovering"}

\* A handler works on the asset of its message, in a phase of that kind of work,
\* and has a clip where it is to put one.
FitJob ==
    {j \in Job : /\ \/ j.message.event[1] = "refine" /\ j.phase \in Calling
                    \/ j.message.event[1] = "cut" /\ j.phase \in Cutting
                    \/ j.message.event[1] = "json" /\ j.phase \in Writing
                 /\ j.phase \in HasClip => j.made \in Clips}

JobsOK == job \in [Handlers -> FitJob \cup {Idle}]

LEMMA BusyHandler ==
    ASSUME JobsOK, NEW h \in Handlers, job[h] # Idle
    PROVE  /\ job[h] \in FitJob
           /\ Subject(h) \in Assets
           /\ job[h].message \in Messages
           /\ job[h].message.event = <<job[h].message.event[1], Subject(h)>>
<1>1. job[h] \in FitJob
  BY DEF JobsOK
<1>2. job[h].message \in Messages /\ job[h].message.event \in Events
  BY <1>1 DEF FitJob, Job, Messages
<1>3. job[h].message.event[1] \in {"refine", "cut", "json"}
  BY <1>1 DEF FitJob
<1>4. QED
  BY <1>1, <1>2, <1>3, EventOfAsset DEF Subject

LEMMA PhaseIsBusy ==
    ASSUME JobsOK, NEW h \in Handlers, NEW phase, phase # "idle", At(h, phase)
    PROVE  job[h] # Idle /\ job[h] \in FitJob /\ job[h].phase = phase
<1>1. Idle.phase = "idle"
  BY DEF Idle
<1>2. QED
  BY <1>1 DEF At, JobsOK

LEMMA StartOK ==
    ASSUME QueueOK, JobsOK, NEW h \in Handlers, NEW m, NEW phase, NEW i \in Nat,
           Start(h, m, phase, i),
           \/ m.event[1] = "refine" /\ phase = "calling"
           \/ m.event[1] = "cut" /\ phase = "cutting"
           \/ m.event[1] = "json" /\ phase = "writing"
    PROVE  /\ QueueOK' /\ JobsOK'
           /\ m \in Messages /\ m.event[2] \in Assets
           /\ m.event = <<m.event[1], m.event[2]>>
<1>1. QueueOK' /\ m \in Messages
  BY DeliveredOK DEF Start
<1>2. m.event \in Events
  BY <1>1 DEF Messages
<1>3. m.event[2] \in Assets /\ m.event = <<m.event[1], m.event[2]>>
  BY <1>2, EventOfAsset
<1>4. DEFINE new == [message |-> m, phase |-> phase, made |-> NoClip,
                     revision |-> i, connected |-> TRUE]
<1>5. new \in FitJob
  BY <1>1 DEF FitJob, Job, Calling, Cutting, Writing, HasClip
<1>6. job' = [job EXCEPT ![h] = new]
  BY DEF Start
<1>7. QED
  BY <1>1, <1>3, <1>5, <1>6 DEF JobsOK

\* A handler goes on to another phase of its work.
LEMMA StepOK ==
    ASSUME JobsOK, NEW h \in Handlers, NEW phase, Step(h, phase), job[h] # Idle,
           \/ job[h].phase \in Calling /\ phase \in Calling
           \/ job[h].phase \in HasClip /\ phase \in HasClip
           \/ job[h].phase \in Writing /\ phase \in Writing
    PROVE  JobsOK'
<1>1. job[h] \in FitJob
  BY BusyHandler
<1>2. [job[h] EXCEPT !.phase = phase] \in FitJob
  BY <1>1 DEF FitJob, Job, Calling, Cutting, Writing, HasClip
<1>3. QED
  BY <1>2 DEF Step, JobsOK

LEMMA MadeOK ==
    ASSUME JobsOK, NEW h \in Handlers, NEW phase \in HasClip, NEW c \in Clips,
           At(h, "cutting"), Made(h, phase, c)
    PROVE  JobsOK'
<1>1. job[h] \in FitJob /\ job[h].phase = "cutting"
  BY PhaseIsBusy
<1>2. [job[h] EXCEPT !.phase = phase, !.made = c] \in FitJob
  BY <1>1 DEF FitJob, Job, Calling, Cutting, Writing, HasClip
<1>3. QED
  BY <1>2 DEF Made, JobsOK

LEMMA ReleaseOK ==
    ASSUME JobsOK, NEW h \in Handlers, job' = [job EXCEPT ![h] = Idle]
    PROVE  JobsOK'
BY DEF JobsOK

LEMMA RetryOK ==
    ASSUME QueueOK, JobsOK, NEW h \in Handlers, job[h] # Idle, Retry(h)
    PROVE  QueueOK' /\ JobsOK'
<1>1. JobsOK'
  BY ReleaseOK DEF Retry
<1>2. job[h].message \in Messages
  BY BusyHandler
<1>3. CASE job[h].message.retry < RetryDelays /\ queue' = Sent(queue, NextTry(job[h].message))
  BY <1>1, <1>2, <1>3, NextTryIsMessage, SentIsABag DEF QueueOK
<1>4. CASE UNCHANGED queue
  BY <1>1, <1>4 DEF QueueOK
<1>5. QED
  BY <1>1, <1>3, <1>4 DEF Retry

LEMMA AcknowledgeOK ==
    ASSUME QueueOK, JobsOK, NEW h \in Handlers, Acknowledge(h)
    PROVE  QueueOK' /\ JobsOK'
BY ReleaseOK DEF Acknowledge, QueueOK

----------------------------------------------------------------------------
(* Type correctness *)

RowsOK ==
    /\ run \in [Runs -> {"candidate", "formal", "withdrawn"}]
    /\ version \in [Runs -> {0, 1}]
    /\ stored \in {"available", "deleted"}
    /\ settled \in BOOLEAN
    /\ asset \in [Assets -> Asset]
    /\ refinement \in [Assets -> {"none", "queued", "running", "ended"}]
    /\ revisions \in [Assets -> Seq(Revision)]
    /\ outbox \in [Events -> {"none", "pending", "published"}]

OthersOK ==
    /\ calls \in [Assets -> Nat]
    /\ original \in BOOLEAN
    /\ clip \in [Assets -> Clips \cup {NoClip}]
    /\ json \in [Assets -> SUBSET Nat]
    /\ disturbances \in Nat
    /\ outage \in BOOLEAN

Typed == RowsOK /\ OthersOK /\ QueueOK /\ JobsOK

LEMMA TypedIsTypeOK == Typed => TypeOK
BY DEF Typed, RowsOK, OthersOK, QueueOK, JobsOK, FitJob, TypeOK

otherVars == <<calls, original, clip, json, disturbances, outage>>

LEMMA SameRows ==
    ASSUME RowsOK, UNCHANGED <<rowVars, outbox>>
    PROVE  RowsOK'
BY DEF RowsOK, rowVars

LEMMA SameOthers ==
    ASSUME OthersOK, UNCHANGED otherVars
    PROVE  OthersOK'
BY DEF OthersOK, otherVars

LEMMA FaultOK ==
    ASSUME OthersOK, UNCHANGED <<calls, bucketVars>>,
           UNCHANGED faultVars \/ Fault \/ Outage
    PROVE  OthersOK'
<1>1. disturbances' \in Nat
  BY DEF OthersOK, Fault, Outage, Disturbed, faultVars
<1>2. outage' \in BOOLEAN
  BY DEF OthersOK, Fault, Outage, faultVars
<1>3. QED
  BY <1>1, <1>2 DEF OthersOK, bucketVars

LEMMA SameQueue ==
    ASSUME QueueOK, UNCHANGED queue
    PROVE  QueueOK'
BY DEF QueueOK

LEMMA SameJobs ==
    ASSUME JobsOK, UNCHANGED job
    PROVE  JobsOK'
BY DEF JobsOK

LEMMA EnqueueOK ==
    ASSUME RowsOK, NEW E, Enqueue(E)
    PROVE  outbox' \in [Events -> {"none", "pending", "published"}]
BY DEF RowsOK, Enqueue

LEMMA EnqueueRetentionOK ==
    ASSUME RowsOK, EnqueueRetentionIfSettled
    PROVE  outbox' \in [Events -> {"none", "pending", "published"}]
BY EnqueueOK DEF EnqueueRetentionIfSettled, RowsOK

LEMMA NewAssetOK == NewAsset \in Asset
BY DEF NewAsset, Asset, NoClip

Generations  == {"none", "queued", "processing", "ready", "failed", "skipped"}
Publications == {"pending", "publishing", "published", "failed", "not_applicable"}

LEMMA GenerationOK ==
    ASSUME NEW x \in Asset, NEW g \in Generations, NEW c \in {"none", "allowed", "other"}
    PROVE  [x EXCEPT !.generation = g, !.code = c] \in Asset
BY DEF Asset, Generations

LEMMA PublicationOK ==
    ASSUME NEW x \in Asset, NEW p \in Publications
    PROVE  [x EXCEPT !.publication = p] \in Asset
BY DEF Asset, Publications

LEMMA PublishedOK ==
    ASSUME NEW outcome \in Outcomes
    PROVE  Published(outcome) \in Asset
BY NewAssetOK DEF Published, Asset, Outcomes

LEMMA InitTyped == Init => Typed
<1> SUFFICES ASSUME Init PROVE Typed
  OBVIOUS
<1>1. QueueOK
  BY EmptyQueue DEF Init, QueueOK
<1>2. RowsOK
  <2>1. asset \in [Assets -> Asset]
    BY NewAssetOK DEF Init
  <2>2. revisions \in [Assets -> Seq(Revision)]
    BY DEF Init
  <2>3. QED
    BY <2>1, <2>2 DEF Init, RowsOK
<1>3. OthersOK
  BY DEF Init, OthersOK
<1>4. JobsOK
  BY DEF Init, JobsOK
<1>5. QED
  BY <1>1, <1>2, <1>3, <1>4 DEF Typed

\* The steps of the broker and the faults change no row, but for the events
\* published.
LEMMA BrokerTyped ==
    ASSUME Typed,
           \/ \E e \in Events : publish(e)
           \/ \E h \in Handlers : dies(h) \/ losesChannel(h) \/ handlerFails(h)
           \/ \E m \in BagToSet(queue) : diesAtOnce(m) \/ deliveryFails(m) \/ busy(m)
    PROVE  Typed'
<1> USE DEF Typed
<1>1. ASSUME NEW e \in Events, publish(e) PROVE Typed'
  <2>1. [event |-> e, retry |-> 0, redelivered |-> FALSE] \in Messages
    BY TaskAssumption DEF Messages, RetryNumbers
  <2> DEFINE new == [event |-> e, retry |-> 0, redelivered |-> FALSE]
  <2>a. queue' = Sent(queue, new)
    BY <1>1 DEF publish
  <2>b. IsABag(Sent(queue, new)) /\ BagToSet(Sent(queue, new)) = BagToSet(queue) \cup {new}
    BY SentIsABag DEF QueueOK
  <2>2. QueueOK'
    <3> HIDE DEF new
    <3>1. QED
      BY <2>1, <2>a, <2>b DEF QueueOK, new
  <2>3. RowsOK'
    BY <1>1 DEF publish, RowsOK, rowVars
  <2>4. OthersOK'
    BY <1>1, FaultOK DEF publish
  <2>5. QED
    BY <1>1, <2>2, <2>3, <2>4, SameJobs DEF publish
<1>2. ASSUME NEW h \in Handlers, dies(h) PROVE Typed'
  <2>1. job[h].message \in Messages
    BY <1>2, BusyHandler DEF dies
  <2>2. QueueOK'
    BY <1>2, <2>1, RedeliveredIsMessage, SentIsABag DEF dies, QueueOK
  <2>3. JobsOK'
    BY <1>2, ReleaseOK DEF dies
  <2>4. RowsOK' /\ OthersOK'
    BY <1>2, SameRows, FaultOK DEF dies
  <2>5. QED
    BY <2>2, <2>3, <2>4
<1>3. ASSUME NEW h \in Handlers, losesChannel(h) PROVE Typed'
  <2>1. job[h] \in FitJob /\ job[h].message \in Messages
    BY <1>3, BusyHandler DEF losesChannel
  <2>2. QueueOK'
    BY <1>3, <2>1, RedeliveredIsMessage, SentIsABag DEF losesChannel, QueueOK
  <2>3. [job[h] EXCEPT !.connected = FALSE] \in FitJob
    BY <2>1 DEF FitJob, Job
  <2>4. JobsOK'
    BY <1>3, <2>3 DEF losesChannel, JobsOK
  <2>5. RowsOK' /\ OthersOK'
    BY <1>3, SameRows, FaultOK DEF losesChannel
  <2>6. QED
    BY <2>2, <2>4, <2>5
<1>4. ASSUME NEW h \in Handlers, handlerFails(h) PROVE Typed'
  <2>1. RowsOK' /\ OthersOK'
    BY <1>4, SameRows, FaultOK DEF handlerFails
  <2>2. QED
    BY <1>4, <2>1, RetryOK DEF handlerFails
<1>5. ASSUME NEW m \in BagToSet(queue), diesAtOnce(m) PROVE Typed'
  <2>1. m \in Messages
    BY DEF QueueOK
  <2>2. QueueOK'
    BY <1>5, <2>1, RedeliveredIsMessage, SentIsABag, TakenIsABag DEF diesAtOnce, QueueOK
  <2>3. RowsOK' /\ OthersOK'
    BY <1>5, SameRows, FaultOK DEF diesAtOnce
  <2>4. QED
    BY <1>5, <2>2, <2>3, SameJobs DEF diesAtOnce
<1>6. ASSUME NEW m \in BagToSet(queue), deliveryFails(m) PROVE Typed'
  <2>1. QueueOK' /\ JobsOK'
    BY <1>6, DropOK, RetryDeliveredOK, SameJobs DEF deliveryFails
  <2>2. RowsOK' /\ OthersOK'
    BY <1>6, SameRows, FaultOK DEF deliveryFails
  <2>3. QED
    BY <2>1, <2>2
<1>7. ASSUME NEW m \in BagToSet(queue), busy(m) PROVE Typed'
  <2>1. QueueOK' /\ JobsOK'
    BY <1>7, RetryDeliveredOK, SameJobs DEF busy
  <2>2. RowsOK' /\ OthersOK'
    BY <1>7, SameRows, FaultOK DEF busy
  <2>3. QED
    BY <2>1, <2>2
<1>8. QED
  BY <1>1, <1>2, <1>3, <1>4, <1>5, <1>6, <1>7

LEMMA EnqueueForPublishedRunOK ==
    ASSUME RowsOK, NEW r \in Runs, enqueueForPublishedRun(r)
    PROVE  /\ asset' \in [Assets -> Asset]
           /\ refinement' \in [Assets -> {"none", "queued", "running", "ended"}]
           /\ outbox' \in [Events -> {"none", "pending", "published"}]
<1>1. CASE UNCHANGED <<asset, refinement, outbox>>
  BY <1>1 DEF RowsOK
<1>2. CASE \E enabled \in Refinement, outcome \in [AssetsOf(r) -> Outcomes] :
             LET cut == {a \in AssetsOf(r) : outcome[a] = "cut"}
             IN  /\ asset' = [a \in Assets |-> IF RunOf[a] = r THEN Published(outcome[a])
                                                               ELSE asset[a]]
                 /\ refinement' = [a \in Assets |->
                      CASE enabled /\ a \in cut -> "queued"
                        [] enabled /\ RunOf[a] = r /\ outcome[a] = "allowed" -> "ended"
                        [] OTHER -> refinement[a]]
                 /\ Enqueue({IF enabled THEN <<"refine", a>> ELSE <<"cut", a>> : a \in cut})
  <2>1. PICK enabled \in Refinement, outcome \in [AssetsOf(r) -> Outcomes] :
             LET cut == {a \in AssetsOf(r) : outcome[a] = "cut"}
             IN  /\ asset' = [a \in Assets |-> IF RunOf[a] = r THEN Published(outcome[a])
                                                               ELSE asset[a]]
                 /\ refinement' = [a \in Assets |->
                      CASE enabled /\ a \in cut -> "queued"
                        [] enabled /\ RunOf[a] = r /\ outcome[a] = "allowed" -> "ended"
                        [] OTHER -> refinement[a]]
                 /\ Enqueue({IF enabled THEN <<"refine", a>> ELSE <<"cut", a>> : a \in cut})
    BY <1>2
  <2>2. \A a \in Assets : RunOf[a] = r => Published(outcome[a]) \in Asset
    BY PublishedOK DEF AssetsOf
  <2>3. asset' \in [Assets -> Asset]
    BY <2>1, <2>2 DEF RowsOK
  <2>4. refinement' \in [Assets -> {"none", "queued", "running", "ended"}]
    BY <2>1 DEF RowsOK
  <2>5. QED
    BY <2>1, <2>3, <2>4, EnqueueOK
<1>3. QED
  BY <1>1, <1>2 DEF enqueueForPublishedRun

LEMMA PeopleTyped ==
    ASSUME Typed, People
    PROVE  Typed'
<1> USE DEF Typed
<1>1. ASSUME NEW r \in Runs, autoAccept(r) PROVE Typed'
  <2>1. run' \in [Runs -> {"candidate", "formal", "withdrawn"}]
    BY <1>1 DEF autoAccept, BecomesFormal, RowsOK
  <2>2. RowsOK'
    BY <1>1, <2>1, EnqueueForPublishedRunOK DEF autoAccept, RowsOK
  <2>3. QED
    BY <1>1, <2>2, FaultOK, SameQueue, SameJobs DEF autoAccept
<1>2. ASSUME NEW r \in Runs, reviewAccepts(r) PROVE Typed'
  <2>1. run' \in [Runs -> {"candidate", "formal", "withdrawn"}]
    BY <1>2 DEF reviewAccepts, BecomesFormal, RowsOK
  <2>2. RowsOK'
    BY <1>2, <2>1, EnqueueForPublishedRunOK DEF reviewAccepts, RowsOK
  <2>3. QED
    BY <1>2, <2>2, FaultOK, SameQueue, SameJobs DEF reviewAccepts
<1>3. ASSUME NEW r \in Runs, reviewRejects(r) PROVE Typed'
  <2>1. RowsOK'
    BY <1>3 DEF reviewRejects, RowsOK, brokerVars
  <2>2. QED
    BY <1>3, <2>1, FaultOK, SameQueue, SameJobs DEF reviewRejects, brokerVars
<1>4. ASSUME NEW a \in Assets, retryCut(a) PROVE Typed'
  <2>1. [asset[a] EXCEPT !.generation = "queued", !.code = "none", !.retried = TRUE] \in Asset
    <3>1. asset[a] \in Asset
      BY DEF RowsOK
    <3>2. QED
      BY <3>1 DEF Asset
  <2>2. asset' \in [Assets -> Asset]
    BY <1>4, <2>1 DEF retryCut, RowsOK
  <2>3. RowsOK'
    BY <1>4, <2>2, EnqueueOK DEF retryCut, RowsOK
  <2>4. QED
    BY <1>4, <2>3, FaultOK, SameQueue, SameJobs DEF retryCut
<1>5. ASSUME NEW a \in Assets, retryJson(a) PROVE Typed'
  <2>1. [asset[a] EXCEPT !.publication = "pending"] \in Asset
    BY PublicationOK DEF RowsOK, Publications
  <2>2. asset' \in [Assets -> Asset]
    BY <1>5, <2>1 DEF retryJson, RowsOK
  <2>3. RowsOK'
    BY <1>5, <2>2, EnqueueOK DEF retryJson, RowsOK
  <2>4. QED
    BY <1>5, <2>3, FaultOK, SameQueue, SameJobs DEF retryJson
<1>6. ASSUME NEW a \in Assets, backfill(a) PROVE Typed'
  <2>1. RowsOK'
    BY <1>6, EnqueueOK DEF backfill, RowsOK, rowVars
  <2>2. QED
    BY <1>6, <2>1, FaultOK, SameQueue, SameJobs DEF backfill
<1>7. ASSUME settle PROVE Typed'
  <2>1. RowsOK'
    BY <1>7, EnqueueOK DEF settle, RowsOK
  <2>2. QED
    BY <1>7, <2>1, FaultOK, SameQueue, SameJobs DEF settle
<1>8. QED
  BY <1>1, <1>2, <1>3, <1>4, <1>5, <1>6, <1>7 DEF People

LEMMA CompleteOK ==
    ASSUME RowsOK, NEW a \in Assets, Complete(a)
    PROVE  /\ asset' \in [Assets -> Asset]
           /\ refinement' \in [Assets -> {"none", "queued", "running", "ended"}]
           /\ outbox' \in [Events -> {"none", "pending", "published"}]
<1>1. PICK outcome \in {"cut", "allowed", "other"} :
      /\ refinement' = [refinement EXCEPT ![a] = "ended"]
      /\ asset' = [asset EXCEPT ![a].generation = IF outcome = "cut" THEN "queued" ELSE "skipped",
                                ![a].code = IF outcome = "cut" THEN "none" ELSE outcome]
      /\ Enqueue(IF outcome = "cut" THEN {<<"cut", a>>} ELSE {})
  BY DEF Complete
<1>2. [asset[a] EXCEPT !.generation = IF outcome = "cut" THEN "queued" ELSE "skipped",
                       !.code = IF outcome = "cut" THEN "none" ELSE outcome] \in Asset
  BY GenerationOK DEF RowsOK, Generations
<1>3. asset' \in [Assets -> Asset]
  BY <1>1, <1>2 DEF RowsOK
<1>4. QED
  BY <1>1, <1>3, EnqueueOK DEF RowsOK

LEMMA RefinementTyped ==
    ASSUME Typed,
           \/ \E h \in Handlers, m \in BagToSet(queue) : claimRefinement(h, m)
           \/ \E h \in Handlers : callModel(h) \/ completeRefinement(h)
    PROVE  Typed'
<1> USE DEF Typed
<1>1. ASSUME NEW h \in Handlers, NEW m \in BagToSet(queue), claimRefinement(h, m)
      PROVE  Typed'
  <2> DEFINE a == m.event[2]
  <2>1. m \in Messages /\ m.event \in Events
    BY DEF QueueOK, Messages
  <2>2. a \in Assets
    BY <1>1, <2>1, EventOfAsset DEF claimRefinement
  <2>3. CASE ClaimsRefinement(a, m)
    <3>1. /\ Start(h, m, "calling", 0)
          /\ refinement' = [refinement EXCEPT ![a] = "running"]
          /\ UNCHANGED <<asset, outbox>>
      BY <1>1, <2>3 DEF claimRefinement
    <3>2. QueueOK' /\ JobsOK'
      BY <1>1, <3>1, StartOK DEF claimRefinement
    <3>3. RowsOK'
      BY <1>1, <2>2, <3>1 DEF claimRefinement, RowsOK
    <3>4. QED
      BY <1>1, <3>2, <3>3, FaultOK DEF claimRefinement
  <2>4. CASE ~ClaimsRefinement(a, m)
    <3>1. /\ Drop(m)
          /\ IF refinement[a] = "running" /\ Recovering(m)
               THEN Complete(a)
               ELSE UNCHANGED <<refinement, asset, outbox>>
      BY <1>1, <2>4 DEF claimRefinement
    <3>2. RowsOK'
      BY <1>1, <2>2, <3>1, CompleteOK DEF claimRefinement, RowsOK
    <3>3. QED
      BY <1>1, <3>1, <3>2, DropOK, SameJobs, FaultOK DEF claimRefinement
  <2>5. QED
    BY <2>3, <2>4
<1>2. ASSUME NEW h \in Handlers, callModel(h) PROVE Typed'
  <2>1. job[h] # Idle /\ job[h].phase = "calling" /\ Subject(h) \in Assets
    BY <1>2, PhaseIsBusy, BusyHandler DEF callModel
  <2>2. JobsOK'
    BY <1>2, <2>1, StepOK DEF callModel, Calling
  <2>3. OthersOK'
    BY <1>2, <2>1 DEF callModel, OthersOK, bucketVars, faultVars
  <2>4. QED
    BY <1>2, <2>2, <2>3, SameRows, SameQueue DEF callModel
<1>3. ASSUME NEW h \in Handlers, completeRefinement(h) PROVE Typed'
  <2>1. Subject(h) \in Assets
    BY <1>3, PhaseIsBusy, BusyHandler DEF completeRefinement
  <2>2. RowsOK'
    BY <1>3, <2>1, CompleteOK DEF completeRefinement, RowsOK
  <2>3. OthersOK'
    BY <1>3, FaultOK DEF completeRefinement
  <2>4. QED
    BY <1>3, <2>2, <2>3, AcknowledgeOK DEF completeRefinement
<1>4. QED
  BY <1>1, <1>2, <1>3

LEMMA GiveUpOK ==
    ASSUME RowsOK, NEW a \in Assets, NEW status \in {"failed", "skipped"}, GiveUp(a, status)
    PROVE  asset' \in [Assets -> Asset]
<1>1. asset[a] \in Asset
  BY DEF RowsOK
<1>2. [asset[a] EXCEPT !.generation = status, !.code = "other",
                       !.publication = "not_applicable"] \in Asset
  BY <1>1 DEF Asset
<1>3. QED
  BY <1>2 DEF GiveUp, RowsOK

LEMMA CuttingTyped ==
    ASSUME Typed,
           \/ \E h \in Handlers, m \in BagToSet(queue) : claim(h, m)
           \/ \E h \in Handlers : \/ skip(h) \/ recoverCanonical(h) \/ materialize(h)
                                  \/ cutFails(h) \/ upload(h) \/ uploadFails(h) \/ finalize(h)
    PROVE  Typed'
<1> USE DEF Typed
<1>1. ASSUME NEW h \in Handlers, NEW m \in BagToSet(queue), claim(h, m) PROVE Typed'
  <2> DEFINE a == m.event[2]
  <2>1. m \in Messages /\ m.event \in Events
    BY DEF QueueOK, Messages
  <2>2. a \in Assets
    BY <1>1, <2>1, EventOfAsset DEF claim
  <2>3. CASE Claimable(a, m)
    <3>1. /\ Start(h, m, "cutting", 0)
          /\ asset' = [asset EXCEPT ![a].generation = "processing", ![a].code = "none"]
      BY <1>1, <2>3 DEF claim
    <3>2. QueueOK' /\ JobsOK'
      BY <1>1, <3>1, StartOK DEF claim
    <3>3. [asset[a] EXCEPT !.generation = "processing", !.code = "none"] \in Asset
      BY <2>2, GenerationOK DEF RowsOK, Generations
    <3>4. RowsOK'
      BY <1>1, <2>2, <3>1, <3>3 DEF claim, RowsOK
    <3>5. QED
      BY <1>1, <3>2, <3>4, FaultOK DEF claim
  <2>4. CASE ~Claimable(a, m)
    <3>1. Drop(m) /\ UNCHANGED asset
      BY <1>1, <2>4 DEF claim
    <3>2. RowsOK'
      BY <1>1, <3>1 DEF claim, RowsOK
    <3>3. QED
      BY <1>1, <3>1, <3>2, DropOK, SameJobs, FaultOK DEF claim
  <2>5. QED
    BY <2>3, <2>4
<1>2. ASSUME NEW h \in Handlers, skip(h) PROVE Typed'
  <2>1. Subject(h) \in Assets
    BY <1>2, PhaseIsBusy, BusyHandler DEF skip
  <2>2. RowsOK'
    BY <1>2, <2>1, GiveUpOK DEF skip, RowsOK
  <2>3. QED
    BY <1>2, <2>2, AcknowledgeOK, FaultOK DEF skip
<1>3. ASSUME NEW h \in Handlers, recoverCanonical(h) PROVE Typed'
  <2>1. Subject(h) \in Assets
    BY <1>3, PhaseIsBusy, BusyHandler DEF recoverCanonical
  <2>2. clip[Subject(h)] \in Clips
    BY <1>3, <2>1 DEF recoverCanonical, OthersOK
  <2>3. JobsOK'
    BY <1>3, <2>2, MadeOK DEF recoverCanonical, HasClip
  <2>4. QED
    BY <1>3, <2>3, SameRows, FaultOK, SameQueue DEF recoverCanonical
<1>4. ASSUME NEW h \in Handlers, materialize(h) PROVE Typed'
  <2>1. JobsOK'
    BY <1>4, MadeOK DEF materialize, HasClip, Clips
  <2>2. OthersOK'
    BY <1>4, FaultOK DEF materialize
  <2>3. QED
    BY <1>4, <2>1, <2>2, SameRows, SameQueue DEF materialize
<1>5. ASSUME NEW h \in Handlers, cutFails(h) PROVE Typed'
  <2>1. job[h] # Idle /\ Subject(h) \in Assets
    BY <1>5, PhaseIsBusy, BusyHandler DEF cutFails
  <2>2. RowsOK'
    BY <1>5, <2>1, GiveUpOK DEF cutFails, RowsOK
  <2>3. OthersOK'
    BY <1>5, FaultOK DEF cutFails
  <2>4. QueueOK' /\ JobsOK'
    BY <1>5, <2>1, AcknowledgeOK, RetryOK DEF cutFails
  <2>5. QED
    BY <2>2, <2>3, <2>4
<1>6. ASSUME NEW h \in Handlers, upload(h) PROVE Typed'
  <2>1. job[h] \in FitJob /\ job[h] # Idle /\ job[h].phase = "uploading"
    BY <1>6, PhaseIsBusy DEF upload
  <2>2. job[h].made \in Clips
    BY <2>1 DEF FitJob, HasClip
  <2>3. OthersOK'
    BY <1>6, <2>2 DEF upload, Uploaded, OthersOK, faultVars
  <2>4. JobsOK'
    BY <1>6, <2>1, StepOK DEF upload, HasClip
  <2>5. QED
    BY <1>6, <2>3, <2>4, SameRows, SameQueue DEF upload
<1>7. ASSUME NEW h \in Handlers, uploadFails(h) PROVE Typed'
  <2>1. job[h] \in FitJob /\ job[h] # Idle /\ job[h].phase = "uploading" /\ Subject(h) \in Assets
    BY <1>7, PhaseIsBusy, BusyHandler DEF uploadFails
  <2>2. job[h].made \in Clips
    BY <2>1 DEF FitJob, HasClip
  <2>3. clip' \in [Assets -> Clips \cup {NoClip}]
    BY <1>7, <2>2 DEF uploadFails, Uploaded, OthersOK
  <2>4. disturbances' \in Nat /\ UNCHANGED outage
    BY <1>7 DEF uploadFails, Fault, Disturbed, OthersOK
  <2>5. OthersOK'
    BY <1>7, <2>3, <2>4 DEF uploadFails, OthersOK
  <2>6. RowsOK'
    BY <1>7, <2>1, GiveUpOK DEF uploadFails, RowsOK
  <2>7. QED
    BY <1>7, <2>1, <2>5, <2>6, RetryOK DEF uploadFails
<1>8. ASSUME NEW h \in Handlers, finalize(h) PROVE Typed'
  <2> DEFINE a == Subject(h)
  <2>1. job[h] \in FitJob /\ job[h] # Idle /\ job[h].phase \in HasClip /\ a \in Assets
    BY <1>8, PhaseIsBusy, BusyHandler DEF finalize, HasClip
  <2>2. job[h].made \in Clips
    BY <2>1 DEF FitJob
  <2>3. asset[a] \in Asset
    BY <2>1 DEF RowsOK
  <2>4. [asset[a] EXCEPT !.generation = "ready", !.sha = job[h].made,
                         !.publication = "pending", !.code = "none"] \in Asset
    BY <2>2, <2>3 DEF Asset
  <2>a. asset' \in [Assets -> Asset]
    BY <1>8, <2>1, <2>4 DEF finalize, RowsOK
  <2>b. outbox' \in [Events -> {"none", "pending", "published"}]
    BY <1>8, EnqueueOK DEF finalize, RowsOK
  <2>5. RowsOK'
    BY <1>8, <2>a, <2>b DEF finalize, RowsOK
  <2>6. QueueOK' /\ JobsOK'
    BY <1>8, <2>1, AcknowledgeOK, RetryOK DEF finalize
  <2>7. QED
    BY <1>8, <2>5, <2>6, FaultOK DEF finalize
<1>9. QED
  BY <1>1, <1>2, <1>3, <1>4, <1>5, <1>6, <1>7, <1>8

\* A revision is marked in its place, or a new one follows the others.
Statuses == {"publishing", "published", "failed"}

LEMMA MarkRevision ==
    ASSUME NEW s \in Seq(Revision), NEW i, NEW status \in Statuses,
           NEW t, t = [s EXCEPT ![i].status = status]
    PROVE  /\ t \in Seq(Revision)
           /\ DOMAIN t = DOMAIN s
           /\ \A k \in DOMAIN s : /\ t[k] \in Revision
                                  /\ t[k].version = s[k].version /\ t[k].sha = s[k].sha
                                  /\ t[k].status = IF k = i THEN status ELSE s[k].status
                                  /\ k # i \/ s[k].status = status => t[k] = s[k]
<1>1. /\ Len(s) \in Nat /\ DOMAIN s = 1..Len(s)
      /\ \A k \in DOMAIN s : s[k] \in Revision
  BY LenProperties, ElementOfSeq
<1>2. CASE i \in DOMAIN s
  <2>1. [s[i] EXCEPT !.status = status] \in Revision
    BY <1>1, <1>2 DEF Revision, Statuses
  <2>2. t = [s EXCEPT ![i] = [s[i] EXCEPT !.status = status]]
    OBVIOUS
  <2>3. t \in Seq(Revision)
    BY <1>1, <1>2, <2>1, <2>2, ExceptSeq
  <2>4. DOMAIN t = DOMAIN s /\ \A k \in DOMAIN s : k # i => t[k] = s[k]
    BY <2>2
  <2>5. t[i] = [s[i] EXCEPT !.status = status]
    BY <1>2, <2>2
  <2>6. /\ t[i] \in Revision /\ t[i].status = status
        /\ t[i].version = s[i].version /\ t[i].sha = s[i].sha
    BY <1>1, <1>2, <2>1, <2>5 DEF Revision
  <2>7. s[i].status = status => t[i] = s[i]
    BY <1>1, <1>2, <2>5 DEF Revision
  <2>8. QED
    BY <1>1, <1>2, <2>3, <2>4, <2>6, <2>7
<1>3. CASE i \notin DOMAIN s
  <2>1. t = s
    BY <1>1, <1>3, LenProperties
  <2>2. QED
    BY <1>1, <1>3, <2>1
<1>4. QED
  BY <1>2, <1>3

LEMMA AppendRevision ==
    ASSUME NEW s \in Seq(Revision), NEW v \in Revision
    PROVE  /\ Append(s, v) \in Seq(Revision)
           /\ DOMAIN Append(s, v) = DOMAIN s \cup {Len(s) + 1}
           /\ Len(Append(s, v)) = Len(s) + 1 /\ Len(s) + 1 \in Nat \ {0}
           /\ Append(s, v)[Len(s) + 1] = v
           /\ \A k \in DOMAIN s : Append(s, v)[k] = s[k]
<1>1. Len(s) \in Nat /\ DOMAIN s = 1..Len(s)
  BY LenProperties
<1>2. /\ Append(s, v) \in Seq(Revision) /\ Len(Append(s, v)) = Len(s) + 1
      /\ Append(s, v)[Len(s) + 1] = v
      /\ \A k \in 1..Len(s) : Append(s, v)[k] = s[k]
  BY <1>1
<1>3. DOMAIN Append(s, v) = 1..(Len(s) + 1)
  BY <1>2, LenProperties
<1>4. QED
  BY <1>1, <1>2, <1>3

LEMMA MarkedOK ==
    ASSUME RowsOK, NEW a \in Assets, NEW i, NEW status \in Statuses,
           revisions' = [revisions EXCEPT ![a][i].status = status]
    PROVE  revisions' \in [Assets -> Seq(Revision)]
<1>1. DEFINE t == [revisions[a] EXCEPT ![i].status = status]
<1>2. t \in Seq(Revision)
  BY MarkRevision DEF RowsOK
<1>3. revisions' = [revisions EXCEPT ![a] = t]
  OBVIOUS
<1>4. QED
  BY <1>2, <1>3 DEF RowsOK

LEMMA RecordFailureOK ==
    ASSUME RowsOK, NEW h \in Handlers, Subject(h) \in Assets, recordFailure(h)
    PROVE  asset' \in [Assets -> Asset] /\ revisions' \in [Assets -> Seq(Revision)]
<1>1. [asset[Subject(h)] EXCEPT !.publication = "failed"] \in Asset
  BY PublicationOK DEF RowsOK, Publications
<1>2. asset' \in [Assets -> Asset]
  BY <1>1 DEF recordFailure, RowsOK
<1>3. revisions' \in [Assets -> Seq(Revision)]
  BY MarkedOK DEF recordFailure, FailRevision, Statuses, RowsOK
<1>4. QED
  BY <1>2, <1>3

LEMMA NewRevisionOK ==
    ASSUME RowsOK, NEW a \in Assets, asset[a].sha \in Clips
    PROVE  NewRevision(a) \in Revision
BY TaskAssumption DEF RowsOK, NewRevision, Revision

\* A ready asset has a clip.
ReadyHasClip == \A a \in Assets : Ready(a) => asset[a].sha \in Clips

LEMMA PublicationTyped ==
    ASSUME Typed, ReadyHasClip,
           \/ \E h \in Handlers, m \in BagToSet(queue) : reserve(h, m)
           \/ \E m \in BagToSet(queue) : rejectPublication(m) \/ alreadyPublished(m)
           \/ \E h \in Handlers : write(h) \/ writeFails(h) \/ publishJson(h)
    PROVE  Typed'
<1> USE DEF Typed
<1>1. ASSUME NEW h \in Handlers, NEW m \in BagToSet(queue), reserve(h, m) PROVE Typed'
  <2> DEFINE a == m.event[2]
  <2>1. m \in Messages /\ m.event \in Events
    BY DEF QueueOK, Messages
  <2>2. a \in Assets
    BY <1>1, <2>1, EventOfAsset DEF reserve
  <2>3. [asset[a] EXCEPT !.publication = "publishing"] \in Asset
    BY <2>2, PublicationOK DEF RowsOK, Publications
  <2>4. revisions[a] \in Seq(Revision) /\ NewRevision(a) \in Revision
    BY <1>1, <2>2, NewRevisionOK DEF reserve, RowsOK, ReadyHasClip
  <2>5. DOMAIN revisions[a] \subseteq Nat
    BY <2>4, LenProperties
  <2>6. CASE \E i \in Current(a) :
            /\ Start(h, m, "writing", i)
            /\ UNCHANGED <<asset, revisions>>
    <3>1. PICK i \in Current(a) : Start(h, m, "writing", i) /\ UNCHANGED <<asset, revisions>>
      BY <2>6
    <3>2. i \in Nat
      BY <2>5 DEF Current
    <3>3. QED
      BY <1>1, <3>1, <3>2, StartOK, FaultOK DEF reserve, RowsOK
  <2>7. CASE \E i \in Current(a) :
            /\ Start(h, m, "writing", i)
            /\ revisions' = [revisions EXCEPT ![a][i].status = "publishing"]
            /\ asset' = [asset EXCEPT ![a].publication = "publishing"]
    <3>1. PICK i \in Current(a) :
            /\ Start(h, m, "writing", i)
            /\ revisions' = [revisions EXCEPT ![a][i].status = "publishing"]
            /\ asset' = [asset EXCEPT ![a].publication = "publishing"]
      BY <2>7
    <3>2. i \in Nat
      BY <2>5 DEF Current
    <3>3. QueueOK' /\ JobsOK'
      BY <1>1, <3>1, <3>2, StartOK DEF reserve
    <3>4. revisions' \in [Assets -> Seq(Revision)]
      BY <2>2, <3>1, MarkedOK DEF Statuses
    <3>5. asset' \in [Assets -> Asset]
      BY <2>2, <2>3, <3>1 DEF RowsOK
    <3>6. QED
      BY <1>1, <3>3, <3>4, <3>5, FaultOK DEF reserve, RowsOK
  <2>8. CASE /\ Start(h, m, "writing", Len(WithNext(a)))
             /\ revisions' = [revisions EXCEPT ![a] = WithNext(a)]
             /\ asset' = [asset EXCEPT ![a].publication = "publishing"]
    <3>1. WithNext(a) \in Seq(Revision) /\ Len(WithNext(a)) \in Nat
      BY <2>4, AppendRevision DEF WithNext
    <3>2. QueueOK' /\ JobsOK'
      BY <1>1, <2>8, <3>1, StartOK DEF reserve
    <3>3. revisions' \in [Assets -> Seq(Revision)]
      BY <2>8, <3>1 DEF RowsOK
    <3>4. asset' \in [Assets -> Asset]
      BY <2>2, <2>3, <2>8 DEF RowsOK
    <3>5. QED
      BY <1>1, <3>2, <3>3, <3>4, FaultOK DEF reserve, RowsOK
  <2>9. QED
    BY <1>1, <2>6, <2>7, <2>8 DEF reserve
<1>2. ASSUME NEW m \in BagToSet(queue), rejectPublication(m) PROVE Typed'
  <2>1. m.event \in Events
    BY DEF QueueOK, Messages
  <2>2. m.event[2] \in Assets
    BY <1>2, <2>1, EventOfAsset DEF rejectPublication
  <2>3. [asset[m.event[2]] EXCEPT !.publication = "failed"] \in Asset
    BY <2>2, PublicationOK DEF RowsOK, Publications
  <2>4. RowsOK'
    BY <1>2, <2>3 DEF rejectPublication, RowsOK
  <2>5. OthersOK'
    BY <1>2, FaultOK DEF rejectPublication
  <2>6. QED
    BY <1>2, <2>4, <2>5, DropOK, SameJobs DEF rejectPublication
<1>3. ASSUME NEW m \in BagToSet(queue), alreadyPublished(m) PROVE Typed'
  <2>1. RowsOK'
    BY <1>3, EnqueueRetentionOK DEF alreadyPublished, RowsOK, rowVars
  <2>2. QED
    BY <1>3, <2>1, DropOK, SameJobs, FaultOK DEF alreadyPublished
<1>4. ASSUME NEW h \in Handlers, write(h) PROVE Typed'
  <2>1. job[h] # Idle /\ job[h] \in FitJob /\ job[h].phase = "writing" /\ Subject(h) \in Assets
    BY <1>4, PhaseIsBusy, BusyHandler DEF write
  <2>2. job[h].revision \in Nat
    BY <2>1 DEF FitJob, Job
  <2>3. OthersOK'
    BY <1>4, <2>2 DEF write, OthersOK, faultVars
  <2>4. JobsOK'
    BY <1>4, <2>1, StepOK DEF write, Writing
  <2>5. QED
    BY <1>4, <2>3, <2>4, SameRows, SameQueue DEF write
<1>5. ASSUME NEW h \in Handlers, writeFails(h) PROVE Typed'
  <2>1. job[h] # Idle /\ job[h] \in FitJob /\ Subject(h) \in Assets
    BY <1>5, PhaseIsBusy, BusyHandler DEF writeFails
  <2>2. job[h].revision \in Nat
    BY <2>1 DEF FitJob, Job
  <2>3. json' \in [Assets -> SUBSET Nat]
    BY <1>5, <2>2 DEF writeFails, OthersOK
  <2>4. disturbances' \in Nat /\ UNCHANGED outage
    BY <1>5 DEF writeFails, Fault, Disturbed, faultVars, OthersOK
  <2>5. OthersOK'
    BY <1>5, <2>3, <2>4 DEF writeFails, OthersOK
  <2>6. RowsOK'
    BY <1>5, <2>1, RecordFailureOK DEF writeFails, RowsOK
  <2>7. QED
    BY <1>5, <2>1, <2>5, <2>6, RetryOK DEF writeFails
<1>6. ASSUME NEW h \in Handlers, publishJson(h) PROVE Typed'
  <2> DEFINE a == Subject(h)
             i == job[h].revision
  <2>1. job[h] # Idle /\ job[h] \in FitJob /\ a \in Assets
    BY <1>6, PhaseIsBusy, BusyHandler DEF publishJson
  <2>2. i \in Nat
    BY <2>1 DEF FitJob, Job
  <2>3. ASSUME revisions' = [revisions EXCEPT ![a][i].status = "published"],
               asset' = [asset EXCEPT ![a].publication = "published", ![a].current = i],
               EnqueueRetentionIfSettled
        PROVE  RowsOK'
    <3>1. revisions' \in [Assets -> Seq(Revision)]
      BY <2>1, <2>3, MarkedOK DEF Statuses
    <3>2. asset[a] \in Asset
      BY <2>1 DEF RowsOK
    <3>3. [asset[a] EXCEPT !.publication = "published", !.current = i] \in Asset
      BY <2>2, <3>2 DEF Asset
    <3>4. asset' \in [Assets -> Asset]
      BY <2>3, <3>3 DEF RowsOK
    <3>5. QED
      BY <1>6, <2>3, <3>1, <3>4, EnqueueRetentionOK DEF publishJson, RowsOK
  <2>4. ASSUME recordFailure(h), UNCHANGED outbox PROVE RowsOK'
    BY <1>6, <2>1, <2>4, RecordFailureOK DEF publishJson, RowsOK
  <2>5. RowsOK'
    BY <1>6, <2>3, <2>4 DEF publishJson
  <2>6. QED
    BY <1>6, <2>5, AcknowledgeOK, FaultOK DEF publishJson
<1>7. QED
  BY <1>1, <1>2, <1>3, <1>4, <1>5, <1>6

LEMMA RetainTyped ==
    ASSUME Typed, NEW m \in BagToSet(queue), retain(m)
    PROVE  Typed'
<1> USE DEF Typed
<1>1. RowsOK'
  BY DEF retain, RowsOK
<1>2. OthersOK'
  <2>1. UNCHANGED faultVars \/ Fault \/ Outage
    BY DEF retain, deletionFails, archivingFails
  <2>2. disturbances' \in Nat
    BY <2>1 DEF OthersOK, Fault, Outage, Disturbed, faultVars
  <2>3. outage' \in BOOLEAN
    BY <2>1 DEF OthersOK, Fault, Outage, faultVars
  <2>4. original' \in BOOLEAN
    BY DEF retain, deletionFails, archivingFails, OthersOK
  <2>5. QED
    BY <2>2, <2>3, <2>4 DEF retain, OthersOK
<1>3. QueueOK' /\ JobsOK'
  BY DropOK, RetryDeliveredOK, SameJobs DEF retain, deletionFails, archivingFails
<1>4. QED
  BY <1>1, <1>2, <1>3

\* What a step does to an asset: nothing, or one of these.
MadeOfTask(a) == /\ asset[a].generation = "none"
                 /\ \E o \in Outcomes : asset'[a] = Published(o)
Bounded(a)    == /\ refinement[a] = "running" /\ refinement'[a] = "ended"
                 /\ \/ asset'[a] = [asset[a] EXCEPT !.generation = "queued", !.code = "none"]
                    \/ \E code \in {"allowed", "other"} :
                         asset'[a] = [asset[a] EXCEPT !.generation = "skipped", !.code = code]
Claimed(a)    == /\ asset[a].generation \in {"queued", "failed", "processing"}
                 /\ asset'[a] = [asset[a] EXCEPT !.generation = "processing", !.code = "none"]
                 /\ \E h \in Handlers, m \in BagToSet(queue) : claim(h, m) /\ m.event[2] = a
GivenUp(a)    == /\ asset[a].generation = "processing"
                 /\ \E h \in Handlers : (skip(h) \/ cutFails(h) \/ uploadFails(h)) /\ Subject(h) = a
                 /\ \E status \in {"failed", "skipped"} :
                      asset'[a] = [asset[a] EXCEPT !.generation = status, !.code = "other",
                                                   !.publication = "not_applicable"]
Finalized(a)  == /\ asset[a].generation = "processing"
                 /\ \E h \in Handlers :
                      /\ finalize(h) /\ Subject(h) = a
                      /\ asset'[a] = [asset[a] EXCEPT !.generation = "ready",
                                        !.sha = job[h].made, !.publication = "pending",
                                        !.code = "none"]
Reported(a)   == \E p \in Publications \ {"published"} :
                   asset'[a] = [asset[a] EXCEPT !.publication = p]
MadeCurrent(a) == \E h \in Handlers :
                   /\ publishJson(h) /\ Subject(h) = a
                   /\ Accepted(a) /\ Ready(a) /\ SameFingerprint(a, job[h].revision)
                   /\ asset'[a] = [asset[a] EXCEPT !.publication = "published",
                                                   !.current = job[h].revision]
Retried(a)    == /\ asset[a].generation \in {"failed", "skipped"}
                 /\ asset'[a] = [asset[a] EXCEPT !.generation = "queued", !.code = "none",
                                                 !.retried = TRUE]

AssetStep(a) == \/ asset'[a] = asset[a]
                \/ MadeOfTask(a) \/ Bounded(a) \/ Claimed(a) \/ GivenUp(a) \/ Finalized(a)
                \/ Reported(a) \/ MadeCurrent(a) \/ Retried(a)

LEMMA AssetSteps ==
    ASSUME Typed, Next, NEW a \in Assets
    PROVE  AssetStep(a)
<1> asset \in [Assets -> Asset] /\ asset[a] \in Asset
  BY DEF Typed, RowsOK
<1>1. ASSUME asset' = asset PROVE AssetStep(a)
  BY <1>1 DEF AssetStep
<1>2. ASSUME NEW r \in Runs, enqueueForPublishedRun(r) PROVE AssetStep(a)
  <2>1. CASE asset' = asset
    BY <1>1, <2>1
  <2>2. CASE asset' # asset
    <3>1. PICK outcome \in [AssetsOf(r) -> Outcomes] :
            asset' = [b \in Assets |-> IF RunOf[b] = r THEN Published(outcome[b]) ELSE asset[b]]
      BY <1>2, <2>2 DEF enqueueForPublishedRun
    <3>2. \A b \in AssetsOf(r) : asset[b].generation = "none"
      BY <1>2, <2>2 DEF enqueueForPublishedRun
    <3>3. QED
      BY <3>1, <3>2 DEF AssetStep, MadeOfTask, AssetsOf
  <2>3. QED
    BY <2>1, <2>2
<1>3. ASSUME NEW b \in Assets, refinement[b] = "running", Complete(b) PROVE AssetStep(a)
  <2>1. refinement'[b] = "ended"
    BY <1>3 DEF Complete, Typed, RowsOK
  <2>2. a # b => asset'[a] = asset[a]
    BY <1>3 DEF Complete
  <2>3. \/ asset'[b] = [asset[b] EXCEPT !.generation = "queued", !.code = "none"]
        \/ \E code \in {"allowed", "other"} :
             asset'[b] = [asset[b] EXCEPT !.generation = "skipped", !.code = code]
    <3>1. PICK outcome \in {"cut", "allowed", "other"} :
            asset' = [asset EXCEPT
                        ![b].generation = IF outcome = "cut" THEN "queued" ELSE "skipped",
                        ![b].code = IF outcome = "cut" THEN "none" ELSE outcome]
      BY <1>3 DEF Complete
    <3>2. QED
      BY <3>1
  <2>4. QED
    BY <1>3, <2>1, <2>2, <2>3 DEF AssetStep, Bounded
<1>4. ASSUME NEW h \in Handlers, skip(h) \/ cutFails(h) \/ uploadFails(h)
      PROVE  AssetStep(a)
  <2>1. PICK status \in {"failed", "skipped"} : GiveUp(Subject(h), status)
    BY <1>4 DEF skip, cutFails, uploadFails
  <2>2. QED
    BY <1>4, <2>1 DEF GiveUp, AssetStep, GivenUp
<1>5. ASSUME NEW h \in Handlers, NEW m \in BagToSet(queue), claim(h, m)
      PROVE  AssetStep(a)
  <2> DEFINE b == m.event[2]
  <2>1. \/ Claimable(b, m) /\ asset' = [asset EXCEPT ![b].generation = "processing",
                                                     ![b].code = "none"]
        \/ asset' = asset
    BY <1>5 DEF claim
  <2>2. Claimable(b, m) => asset[b].generation \in {"queued", "failed", "processing"}
    BY DEF Claimable
  <2> HIDE DEF b
  <2>3. QED
    BY <1>5, <2>1, <2>2 DEF AssetStep, Claimed, b
<1>6. ASSUME NEW h \in Handlers, finalize(h) PROVE AssetStep(a)
  <2>1. CASE asset' = asset
    BY <1>1, <2>1
  <2>2. CASE asset' # asset
    <3>1. /\ asset[Subject(h)].generation = "processing"
          /\ asset' = [asset EXCEPT ![Subject(h)].generation = "ready",
                                    ![Subject(h)].sha = job[h].made,
                                    ![Subject(h)].publication = "pending",
                                    ![Subject(h)].code = "none"]
      BY <1>6, <2>2 DEF finalize
    <3>2. QED
      BY <1>6, <3>1 DEF AssetStep, Finalized
  <2>3. QED
    BY <2>1, <2>2
<1>7. ASSUME NEW b, NEW p \in Publications \ {"published"},
             asset' = [asset EXCEPT ![b].publication = p]
      PROVE  AssetStep(a)
  BY <1>7 DEF AssetStep, Reported
<1>8. ASSUME NEW h \in Handlers, publishJson(h) PROVE AssetStep(a)
  <2>1. CASE recordFailure(h)
    BY <1>7, <2>1 DEF recordFailure, Publications
  <2>2. CASE ~recordFailure(h)
    <3>1. /\ Accepted(Subject(h)) /\ Ready(Subject(h))
          /\ SameFingerprint(Subject(h), job[h].revision)
          /\ asset' = [asset EXCEPT ![Subject(h)].publication = "published",
                                    ![Subject(h)].current = job[h].revision]
      BY <1>8, <2>2 DEF publishJson
    <3>2. QED
      BY <1>8, <3>1 DEF AssetStep, MadeCurrent
  <2>3. QED
    BY <2>1, <2>2
<1>9. ASSUME NEW b \in Assets, retryCut(b) PROVE AssetStep(a)
  BY <1>9 DEF retryCut, AssetStep, Retried
<1> HIDE DEF AssetStep
<1>10. ASSUME People PROVE AssetStep(a)
  BY <1>1, <1>2, <1>7, <1>9, <1>10
     DEF People, autoAccept, reviewAccepts, reviewRejects, retryJson, backfill, settle, rowVars,
         Publications
<1>11. ASSUME Faults PROVE AssetStep(a)
  BY <1>1, <1>11 DEF Faults, dies, losesChannel, handlerFails, diesAtOnce, deliveryFails, rowVars
<1>12. ASSUME NEW m \in BagToSet(queue), Delivery(m) PROVE AssetStep(a)
  <2>1. CASE rejectPublication(m)
    <3>1. asset' = [asset EXCEPT ![m.event[2]].publication = "failed"]
      BY <2>1 DEF rejectPublication
    <3>2. "failed" \in Publications \ {"published"}
      BY DEF Publications
    <3>3. QED
      BY <1>7, <3>1, <3>2
  <2>2. CASE ~rejectPublication(m)
    BY <1>1, <1>12, <2>2 DEF Delivery, busy, alreadyPublished, retain, rowVars
  <2>3. QED
    BY <2>1, <2>2
<1>13. ASSUME NEW h \in Handlers, NEW m \in BagToSet(queue), claimRefinement(h, m)
       PROVE  AssetStep(a)
  <2>1. m.event[2] \in Assets
    BY <1>13, EventOfAsset DEF claimRefinement, Typed, QueueOK, Messages
  <2>2. QED
    BY <1>1, <1>3, <1>13, <2>1 DEF claimRefinement
<1>14. ASSUME NEW h \in Handlers, completeRefinement(h) PROVE AssetStep(a)
  <2>1. Subject(h) \in Assets
    BY <1>14, PhaseIsBusy, BusyHandler DEF completeRefinement, Typed
  <2>2. QED
    BY <1>1, <1>3, <1>14, <2>1 DEF completeRefinement, Open
<1>15. ASSUME NEW h \in Handlers, NEW m \in BagToSet(queue), reserve(h, m)
       PROVE  AssetStep(a)
  <2>1. \/ asset' = asset
        \/ asset' = [asset EXCEPT ![m.event[2]].publication = "publishing"]
    BY <1>15 DEF reserve
  <2>2. QED
    BY <1>1, <1>7, <2>1 DEF Publications
<1>16. ASSUME NEW h \in Handlers,
              callModel(h) \/ recoverCanonical(h) \/ materialize(h) \/ upload(h) \/ write(h)
       PROVE  AssetStep(a)
  BY <1>1, <1>16 DEF callModel, recoverCanonical, materialize, upload, write, rowVars
<1>17. ASSUME NEW h \in Handlers, writeFails(h) PROVE AssetStep(a)
  BY <1>7, <1>17 DEF writeFails, recordFailure, Publications
<1>18. ASSUME NEW e \in Events, publish(e) PROVE AssetStep(a)
  BY <1>1, <1>18 DEF publish, rowVars
<1>19. QED
  BY <1>4, <1>5, <1>6, <1>8, <1>10, <1>11, <1>12, <1>13, <1>14, <1>15, <1>16, <1>17, <1>18
     DEF Next, System, Handler

\* An asset becomes ready only by being finalized, and keeps its clip then.
LEMMA ReadySteps ==
    ASSUME Typed, Next, NEW a \in Assets, Ready(a)'
    PROVE  \/ Ready(a) /\ asset'[a].sha = asset[a].sha
           \/ Finalized(a)
<1>1. asset[a] \in Asset
  BY DEF Typed, RowsOK
<1>2. AssetStep(a)
  BY AssetSteps
<1>3. CASE MadeOfTask(a)
  BY <1>3 DEF MadeOfTask, Published, NewAsset, Ready
<1>4. QED
  BY <1>1, <1>2, <1>3 DEF AssetStep, Bounded, Claimed, GivenUp, Reported, MadeCurrent, Retried,
                          Ready, Asset

LEMMA NoneNeverAgain ==
    ASSUME Typed, Next, NEW a \in Assets, asset'[a].generation = "none"
    PROVE  asset'[a] = asset[a] \/ Reported(a) \/ MadeCurrent(a)
<1>1. asset[a] \in Asset
  BY DEF Typed, RowsOK
<1>2. AssetStep(a)
  BY AssetSteps
<1>3. CASE MadeOfTask(a)
  BY <1>3 DEF MadeOfTask, Published, NewAsset
<1>4. QED
  BY <1>1, <1>2, <1>3 DEF AssetStep, Bounded, Claimed, GivenUp, Finalized, Retried, Asset

LEMMA NextTyped ==
    ASSUME Typed, ReadyHasClip, Next
    PROVE  Typed' /\ ReadyHasClip'
<1>1. Typed'
  BY BrokerTyped, PeopleTyped, RefinementTyped, CuttingTyped, PublicationTyped, RetainTyped
     DEF Next, System, Faults, Handler, Delivery
<1>2. ASSUME NEW a \in Assets, Ready(a)' PROVE asset'[a].sha \in Clips
  <2>1. CASE Ready(a) /\ asset'[a].sha = asset[a].sha
    BY <2>1 DEF ReadyHasClip
  <2>2. CASE Finalized(a)
    <3>1. PICK h \in Handlers : finalize(h) /\ asset'[a].sha = job[h].made
      BY <2>2 DEF Finalized, Typed, RowsOK, Asset
    <3>2. job[h].made \in Clips
      BY <3>1, PhaseIsBusy DEF finalize, Typed, FitJob, HasClip
    <3>3. QED
      BY <3>1, <3>2
  <2>3. QED
    BY <1>2, <2>1, <2>2, ReadySteps
<1>3. QED
  BY <1>1, <1>2 DEF ReadyHasClip

\* Every variable keeps its shape, for any number of runs, tasks, handlers, retries
\* and failures.
THEOREM TypedForEver == Spec => [](Typed /\ ReadyHasClip)
<1>1. Init => Typed /\ ReadyHasClip
  BY InitTyped DEF Init, ReadyHasClip, Ready, NewAsset
<1>2. Typed /\ ReadyHasClip /\ [Next]_vars => (Typed /\ ReadyHasClip)'
  <2> SUFFICES ASSUME Typed, ReadyHasClip, [Next]_vars PROVE (Typed /\ ReadyHasClip)'
    OBVIOUS
  <2>1. CASE Next
    BY <2>1, NextTyped
  <2>2. CASE UNCHANGED vars
    BY <2>2, SameRows, SameOthers, SameQueue, SameJobs
       DEF Typed, vars, otherVars, bucketVars, brokerVars, faultVars, rowVars, ReadyHasClip, Ready
  <2>3. QED
    BY <2>1, <2>2
<1>3. QED
  BY <1>1, <1>2, PTL DEF Spec

THEOREM TypeCorrect == Spec => []TypeOK
BY TypedForEver, TypedIsTypeOK, PTL

----------------------------------------------------------------------------
(* One call of the refinement model *)

AtModel(h) == job[h].phase \in Calling

\* A refinement is started once: before that nobody calls for its task, after it
\* one handler may, which has not done so while it is about to.
StartsOnce ==
    /\ \A a \in Assets : asset[a].generation = "none" => refinement[a] = "none"
    /\ \A a \in Assets : refinement[a] \in {"none", "queued"} =>
         calls[a] = 0 /\ \A h \in Handlers : ~(AtModel(h) /\ Subject(h) = a)
    /\ \A h \in Handlers : At(h, "calling") => calls[Subject(h)] = 0
    /\ \A h, k \in Handlers : AtModel(h) /\ AtModel(k) /\ Subject(h) = Subject(k) => h = k

\* Steps that leave the refinements, the calls and those about to call alone.
CallsFrame ==
    /\ UNCHANGED calls
    /\ \A a \in Assets : refinement'[a] \in {"none", "queued"} =>
                           refinement[a] = refinement'[a]
    /\ \A h \in Handlers : AtModel(h)' => /\ AtModel(h) /\ job'[h].phase = job[h].phase
                                          /\ Subject(h)' = Subject(h)

LEMMA CallsFramed ==
    ASSUME Typed, StartsOnce, OneModelCall, Next, CallsFrame,
           \A a \in Assets : refinement'[a] # refinement[a] => asset'[a].generation # "none"
    PROVE  StartsOnce' /\ OneModelCall'
<1>1. OneModelCall'
  BY DEF OneModelCall, CallsFrame
<1>2. ASSUME NEW a \in Assets, asset'[a].generation = "none" PROVE refinement'[a] = "none"
  <2>1. asset[a] \in Asset
    BY DEF Typed, RowsOK
  <2>2. asset[a].generation = "none"
    BY <1>2, <2>1, NoneNeverAgain DEF Reported, MadeCurrent, Asset
  <2>3. QED
    BY <1>2, <2>2 DEF StartsOnce
<1>3. ASSUME NEW a \in Assets, refinement'[a] \in {"none", "queued"}
      PROVE  calls'[a] = 0 /\ \A h \in Handlers : ~(AtModel(h) /\ Subject(h) = a)'
  <2>1. refinement[a] \in {"none", "queued"}
    BY <1>3 DEF CallsFrame
  <2>2. QED
    BY <2>1 DEF StartsOnce, CallsFrame
<1>4. ASSUME NEW h \in Handlers, At(h, "calling")' PROVE calls'[Subject(h)'] = 0
  <2>1. AtModel(h)'
    BY <1>4 DEF At, AtModel, Calling
  <2>2. At(h, "calling") /\ Subject(h)' = Subject(h)
    BY <1>4, <2>1 DEF CallsFrame, At
  <2>3. QED
    BY <2>2 DEF StartsOnce, CallsFrame
<1>5. ASSUME NEW h \in Handlers, NEW k \in Handlers,
             AtModel(h)', AtModel(k)', Subject(h)' = Subject(k)'
      PROVE  h = k
  BY <1>5 DEF CallsFrame, StartsOnce
<1>6. QED
  BY <1>1, <1>2, <1>3, <1>4, <1>5 DEF StartsOnce

NobodyElseCalls ==
    \A k \in Handlers : AtModel(k)' => /\ AtModel(k) /\ job'[k].phase = job[k].phase
                                       /\ Subject(k)' = Subject(k)

\* A handler that is let go of, or goes on with work of another kind, calls no
\* model.
LEMMA OtherJob ==
    ASSUME JobsOK, NEW h \in Handlers, NEW new,
           new.phase \notin Calling, job' = [job EXCEPT ![h] = new]
    PROVE  NobodyElseCalls
BY DEF NobodyElseCalls, AtModel, Subject, JobsOK

LEMMA SameJob == UNCHANGED job => NobodyElseCalls
BY DEF NobodyElseCalls, AtModel, Subject

LEMMA LetGo ==
    ASSUME JobsOK, NEW h \in Handlers, Acknowledge(h) \/ Retry(h) \/ dies(h)
    PROVE  NobodyElseCalls
<1>1. Idle.phase \notin Calling
  BY DEF Idle, Calling
<1>2. job' = [job EXCEPT ![h] = Idle]
  BY DEF Acknowledge, Retry, dies
<1>3. QED
  BY <1>1, <1>2, OtherJob

LEMMA GoesOn ==
    ASSUME JobsOK, NEW h \in Handlers, job[h] # Idle, NEW phase, phase \notin Calling,
           Step(h, phase) \/ \E c : Made(h, phase, c)
    PROVE  NobodyElseCalls
<1>1. job[h] \in Job
  BY DEF JobsOK, FitJob
<1>2. PICK new : job' = [job EXCEPT ![h] = new] /\ new.phase = phase
  <2>1. CASE Step(h, phase)
    <3>1. [job[h] EXCEPT !.phase = phase].phase = phase
      BY <1>1 DEF Job
    <3>2. QED
      BY <2>1, <3>1 DEF Step
  <2>2. ASSUME NEW c, Made(h, phase, c)
        PROVE  \E new : job' = [job EXCEPT ![h] = new] /\ new.phase = phase
    <3>1. [job[h] EXCEPT !.phase = phase, !.made = c].phase = phase
      BY <1>1 DEF Job
    <3>2. QED
      BY <2>2, <3>1 DEF Made
  <2>3. QED
    BY <2>1, <2>2
<1>3. QED
  BY <1>2, OtherJob

LEMMA StartsOther ==
    ASSUME JobsOK, NEW h \in Handlers, NEW m, NEW phase, phase \notin Calling, NEW i,
           Start(h, m, phase, i)
    PROVE  NobodyElseCalls
<1> DEFINE new == [message |-> m, phase |-> phase, made |-> NoClip,
                   revision |-> i, connected |-> TRUE]
<1>1. new.phase = phase /\ job' = [job EXCEPT ![h] = new]
  BY DEF Start
<1>2. QED
  BY <1>1, OtherJob

\* The steps that neither start, make nor end the call of a refinement.
LEMMA RestFrame ==
    ASSUME Typed, Next,
           ~\E r \in Runs : autoAccept(r) \/ reviewAccepts(r),
           ~\E h \in Handlers, m \in BagToSet(queue) : claimRefinement(h, m),
           ~\E h \in Handlers : callModel(h) \/ completeRefinement(h)
    PROVE  UNCHANGED <<refinement, calls>> /\ NobodyElseCalls
<1> JobsOK
  BY DEF Typed
<1>1. ASSUME NEW e \in Events, publish(e)
      PROVE  UNCHANGED <<refinement, calls>> /\ NobodyElseCalls
  BY <1>1, SameJob DEF publish, rowVars
<1>2. ASSUME NEW m \in BagToSet(queue), Delivery(m)
      PROVE  UNCHANGED <<refinement, calls>> /\ NobodyElseCalls
  BY <1>2, SameJob DEF Delivery, busy, rejectPublication, alreadyPublished, retain, deletionFails,
                       archivingFails, rowVars, Drop, RetryDelivered
<1>3. ASSUME NEW m \in BagToSet(queue), diesAtOnce(m) \/ deliveryFails(m)
      PROVE  UNCHANGED <<refinement, calls>> /\ NobodyElseCalls
  BY <1>3, SameJob DEF diesAtOnce, deliveryFails, rowVars, Drop, RetryDelivered
<1>4. ASSUME NEW h \in Handlers, dies(h) \/ handlerFails(h)
      PROVE  UNCHANGED <<refinement, calls>> /\ NobodyElseCalls
  <2>1. NobodyElseCalls
    BY <1>4, LetGo DEF handlerFails
  <2>2. QED
    BY <1>4, <2>1 DEF dies, handlerFails, rowVars
<1>5. ASSUME NEW h \in Handlers, losesChannel(h)
      PROVE  UNCHANGED <<refinement, calls>> /\ NobodyElseCalls
  <2>1. job[h] \in Job
    BY <1>5 DEF losesChannel, JobsOK, FitJob
  <2>2. job' = [job EXCEPT ![h] = [job[h] EXCEPT !.connected = FALSE]]
    BY <1>5 DEF losesChannel
  <2>3. /\ [job[h] EXCEPT !.connected = FALSE].phase = job[h].phase
        /\ [job[h] EXCEPT !.connected = FALSE].message = job[h].message
    BY <2>1 DEF Job
  <2>4. NobodyElseCalls
    BY <2>2, <2>3 DEF NobodyElseCalls, AtModel, Subject, JobsOK
  <2>5. QED
    BY <1>5, <2>4 DEF losesChannel, rowVars
<1>6. ASSUME \/ \E r \in Runs : reviewRejects(r)
             \/ \E a \in Assets : retryCut(a) \/ retryJson(a) \/ backfill(a)
             \/ settle
      PROVE  UNCHANGED <<refinement, calls>> /\ NobodyElseCalls
  BY <1>6, SameJob DEF reviewRejects, retryCut, retryJson, backfill, settle, rowVars, brokerVars
<1>7. ASSUME NEW h \in Handlers, NEW m \in BagToSet(queue), claim(h, m) \/ reserve(h, m)
      PROVE  UNCHANGED <<refinement, calls>> /\ NobodyElseCalls
  <2>1. \/ UNCHANGED job
        \/ \E i : Start(h, m, "cutting", i)
        \/ \E i : Start(h, m, "writing", i)
    BY <1>7 DEF claim, reserve, Drop
  <2>2. NobodyElseCalls
    BY <2>1, SameJob, StartsOther DEF Calling
  <2>3. QED
    BY <1>7, <2>2 DEF claim, reserve
<1>8. ASSUME NEW h \in Handlers, recoverCanonical(h) \/ materialize(h) \/ upload(h) \/ write(h)
      PROVE  UNCHANGED <<refinement, calls>> /\ NobodyElseCalls
  <2>1. job[h] # Idle
    BY <1>8, PhaseIsBusy DEF recoverCanonical, materialize, upload, write
  <2>2. NobodyElseCalls
    BY <1>8, <2>1, GoesOn DEF recoverCanonical, materialize, upload, write, Calling
  <2>3. QED
    BY <1>8, <2>2 DEF recoverCanonical, materialize, upload, write, rowVars
<1>9. ASSUME NEW h \in Handlers,
             skip(h) \/ cutFails(h) \/ uploadFails(h) \/ finalize(h) \/ writeFails(h)
               \/ publishJson(h)
      PROVE  UNCHANGED <<refinement, calls>> /\ NobodyElseCalls
  <2>1. NobodyElseCalls
    BY <1>9, LetGo DEF skip, cutFails, uploadFails, finalize, writeFails, publishJson
  <2>2. QED
    BY <1>9, <2>1 DEF skip, cutFails, uploadFails, finalize, writeFails, publishJson
<1>10. QED
  BY <1>1, <1>2, <1>3, <1>4, <1>5, <1>6, <1>7, <1>8, <1>9
     DEF Next, System, Faults, People, Handler

\* The publication of a run queues refinements where there was none.
LEMMA PublishedStartsOnce ==
    ASSUME Typed, StartsOnce, OneModelCall, Next,
           NEW r \in Runs, enqueueForPublishedRun(r), UNCHANGED <<calls, job>>
    PROVE  StartsOnce' /\ OneModelCall'
<1>1. ASSUME NEW a \in Assets, refinement'[a] # refinement[a]
      PROVE  refinement[a] = "none" /\ asset'[a].generation # "none"
  <2>1. PICK enabled \in Refinement, outcome \in [AssetsOf(r) -> Outcomes] :
          /\ asset' = [b \in Assets |-> IF RunOf[b] = r THEN Published(outcome[b])
                                                        ELSE asset[b]]
          /\ refinement' = [b \in Assets |->
               CASE enabled /\ b \in {c \in AssetsOf(r) : outcome[c] = "cut"} -> "queued"
                 [] enabled /\ RunOf[b] = r /\ outcome[b] = "allowed" -> "ended"
                 [] OTHER -> refinement[b]]
    BY <1>1 DEF enqueueForPublishedRun
  <2>2. a \in AssetsOf(r) /\ RunOf[a] = r
    BY <1>1, <2>1 DEF AssetsOf
  <2>3. asset[a].generation = "none"
    BY <1>1, <2>2 DEF enqueueForPublishedRun
  <2>4. outcome[a] \in Outcomes /\ asset'[a] = Published(outcome[a])
    BY <2>1, <2>2
  <2>5. Published(outcome[a]).generation # "none"
    BY DEF Published, NewAsset
  <2>6. QED
    BY <2>3, <2>4, <2>5 DEF StartsOnce
<1>2. OneModelCall'
  BY DEF OneModelCall
<1>3. ASSUME NEW a \in Assets, asset'[a].generation = "none" PROVE refinement'[a] = "none"
  <2>1. asset[a] \in Asset
    BY DEF Typed, RowsOK
  <2>2. asset[a].generation = "none"
    BY <1>3, <2>1, NoneNeverAgain DEF Reported, MadeCurrent, Asset
  <2>3. QED
    BY <1>1, <1>3, <2>2 DEF StartsOnce
<1>4. ASSUME NEW a \in Assets, refinement'[a] \in {"none", "queued"}
      PROVE  calls'[a] = 0 /\ \A h \in Handlers : ~(AtModel(h) /\ Subject(h) = a)'
  BY <1>1, <1>4 DEF StartsOnce, AtModel, Subject
<1>5. \A h \in Handlers : At(h, "calling")' => calls'[Subject(h)'] = 0
  BY DEF StartsOnce, At, Subject
<1>6. \A h, k \in Handlers : AtModel(h)' /\ AtModel(k)' /\ Subject(h)' = Subject(k)' => h = k
  BY DEF StartsOnce, AtModel, Subject
<1>7. QED
  BY <1>2, <1>3, <1>4, <1>5, <1>6 DEF StartsOnce

\* What is applied to the boundary ends a refinement that is running.
LEMMA CompletedStartsOnce ==
    ASSUME Typed, StartsOnce, OneModelCall, Next, UNCHANGED calls, NobodyElseCalls,
           \/ UNCHANGED <<refinement, asset>>
           \/ \E a \in Assets : Complete(a)
    PROVE  StartsOnce' /\ OneModelCall'
<1>1. CASE UNCHANGED <<refinement, asset>>
  BY <1>1, CallsFramed DEF CallsFrame, NobodyElseCalls
<1>2. ASSUME NEW b \in Assets, Complete(b) PROVE StartsOnce' /\ OneModelCall'
  <2>1. \A a \in Assets : refinement'[a] = IF a = b THEN "ended" ELSE refinement[a]
    BY <1>2 DEF Complete, Typed, RowsOK
  <2>2. asset'[b].generation \in {"skipped", "queued"}
    BY <1>2 DEF Complete, Typed, RowsOK, Asset
  <2>3. QED
    BY <2>1, <2>2, CallsFramed DEF CallsFrame, NobodyElseCalls
<1>3. QED
  BY <1>1, <1>2

LEMMA ClaimedStartsOnce ==
    ASSUME Typed, StartsOnce, OneModelCall, Next,
           NEW h \in Handlers, NEW m \in BagToSet(queue), claimRefinement(h, m)
    PROVE  StartsOnce' /\ OneModelCall'
<1> DEFINE a == m.event[2]
<1>1. a \in Assets
  BY EventOfAsset DEF claimRefinement, Typed, QueueOK, Messages
<1>2. CASE ClaimsRefinement(a, m)
  <2>1. /\ refinement[a] = "queued" /\ refinement' = [refinement EXCEPT ![a] = "running"]
        /\ Start(h, m, "calling", 0) /\ UNCHANGED <<asset, calls>>
    BY <1>2 DEF claimRefinement, ClaimsRefinement
  <2>2. job'[h].phase = "calling" /\ Subject(h)' = a
    BY <2>1 DEF Start, Subject, Typed, JobsOK
  <2>3. \A k \in Handlers : k # h => job'[k] = job[k]
    BY <2>1 DEF Start
  <2>4. \A k \in Handlers : k # h => (/\ AtModel(k)' = AtModel(k) /\ Subject(k)' = Subject(k)
                                      /\ At(k, "calling")' = At(k, "calling"))
    BY <2>3 DEF AtModel, Subject, At
  <2>5. calls[a] = 0 /\ \A k \in Handlers : ~(AtModel(k) /\ Subject(k) = a)
    BY <1>1, <2>1 DEF StartsOnce
  <2>6. \A b \in Assets : refinement'[b] = IF b = a THEN "running" ELSE refinement[b]
    BY <2>1 DEF Typed, RowsOK
  <2>7. \A b \in Assets : asset'[b].generation = "none" => refinement'[b] = "none"
    BY <2>1, <2>6 DEF StartsOnce
  <2>8. \A b \in Assets : refinement'[b] \in {"none", "queued"} =>
          calls'[b] = 0 /\ \A k \in Handlers : ~(AtModel(k)' /\ Subject(k)' = b)
    BY <2>1, <2>2, <2>4, <2>6 DEF StartsOnce
  <2>9. \A k \in Handlers : At(k, "calling")' => calls'[Subject(k)'] = 0
    BY <2>1, <2>2, <2>4, <2>5 DEF StartsOnce
  <2>10. \A k, l \in Handlers :
           AtModel(k)' /\ AtModel(l)' /\ Subject(k)' = Subject(l)' => k = l
    BY <2>2, <2>4, <2>5 DEF StartsOnce
  <2>11. OneModelCall'
    BY <2>1 DEF OneModelCall
  <2>12. QED
    BY <2>7, <2>8, <2>9, <2>10, <2>11 DEF StartsOnce
<1>3. CASE ~ClaimsRefinement(a, m)
  <2>1. /\ UNCHANGED <<calls, job>>
        /\ Complete(a) \/ UNCHANGED <<refinement, asset>>
    BY <1>3 DEF claimRefinement, Drop
  <2>2. QED
    BY <1>1, <2>1, SameJob, CompletedStartsOnce
<1>4. QED
  BY <1>2, <1>3

LEMMA CalledStartsOnce ==
    ASSUME Typed, StartsOnce, OneModelCall, Next, NEW h \in Handlers, callModel(h)
    PROVE  StartsOnce' /\ OneModelCall'
<1> DEFINE a == Subject(h)
<1>1. /\ job[h] \in Job /\ job[h].phase = "calling" /\ a \in Assets
      /\ job' = [job EXCEPT ![h] = [job[h] EXCEPT !.phase = "answered"]]
      /\ calls' = [calls EXCEPT ![a] = calls[a] + 1]
      /\ UNCHANGED <<refinement, asset>>
  BY PhaseIsBusy, BusyHandler DEF callModel, Step, Typed, FitJob, rowVars
<1>2. /\ [job[h] EXCEPT !.phase = "answered"].phase = "answered"
      /\ [job[h] EXCEPT !.phase = "answered"].message = job[h].message
  BY <1>1 DEF Job
<1>3. /\ \A k \in Handlers : AtModel(k)' = AtModel(k) /\ Subject(k)' = Subject(k)
      /\ \A k \in Handlers : At(k, "calling")' => k # h /\ At(k, "calling")
  BY <1>1, <1>2 DEF AtModel, Subject, At, Calling, Typed, JobsOK
<1>4. AtModel(h) /\ calls[a] = 0
  BY <1>1 DEF AtModel, Calling, StartsOnce, At
<1>5. refinement[a] \notin {"none", "queued"}
  BY <1>1, <1>4 DEF StartsOnce
<1>6. \A b \in Assets : calls'[b] = IF b = a THEN 1 ELSE calls[b]
  BY <1>1, <1>4 DEF Typed, OthersOK
<1>7. OneModelCall'
  BY <1>6 DEF OneModelCall
<1>8. ASSUME NEW k \in Handlers, At(k, "calling")' PROVE calls'[Subject(k)'] = 0
  <2>1. AtModel(k) /\ k # h /\ At(k, "calling")
    BY <1>3, <1>8 DEF AtModel, At, Calling
  <2>2. Subject(k) # a
    BY <1>4, <2>1 DEF StartsOnce
  <2>3. Subject(k) \in Assets
    BY <2>1, PhaseIsBusy, BusyHandler DEF Typed
  <2>4. QED
    BY <1>3, <1>6, <2>1, <2>2, <2>3 DEF StartsOnce
<1>9. \A b \in Assets : refinement'[b] \in {"none", "queued"} =>
        calls'[b] = 0 /\ \A k \in Handlers : ~(AtModel(k)' /\ Subject(k)' = b)
  BY <1>1, <1>3, <1>5, <1>6 DEF StartsOnce
<1>10. QED
  BY <1>1, <1>3, <1>7, <1>8, <1>9 DEF StartsOnce

LEMMA NextStartsOnce ==
    ASSUME Typed, StartsOnce, OneModelCall, Next
    PROVE  StartsOnce' /\ OneModelCall'
<1>1. ASSUME NEW r \in Runs, autoAccept(r) \/ reviewAccepts(r)
      PROVE  StartsOnce' /\ OneModelCall'
  BY <1>1, PublishedStartsOnce DEF autoAccept, reviewAccepts
<1>2. ASSUME NEW h \in Handlers, completeRefinement(h)
      PROVE  StartsOnce' /\ OneModelCall'
  <2>1. Subject(h) \in Assets
    BY <1>2, PhaseIsBusy, BusyHandler DEF completeRefinement, Typed
  <2>2. /\ UNCHANGED calls /\ NobodyElseCalls
        /\ UNCHANGED <<refinement, asset>> \/ Complete(Subject(h))
    BY <1>2, LetGo DEF completeRefinement, Typed
  <2>3. QED
    BY <2>1, <2>2, CompletedStartsOnce
<1>3. CASE UNCHANGED <<refinement, calls>> /\ NobodyElseCalls
  BY <1>3, CallsFramed DEF CallsFrame, NobodyElseCalls
<1>4. QED
  BY <1>1, <1>2, <1>3, RestFrame, ClaimedStartsOnce, CalledStartsOnce

\* The refinement model is called once for a task, whatever is redelivered, dies or
\* is tried again.
THEOREM ModelCalledOnce == Spec => []OneModelCall
<1> DEFINE Inv == Typed /\ ReadyHasClip /\ StartsOnce /\ OneModelCall
<1>1. Init => Inv
  <2> SUFFICES ASSUME Init PROVE Inv
    OBVIOUS
  <2>1. Typed /\ ReadyHasClip
    BY InitTyped DEF Init, ReadyHasClip, Ready, NewAsset
  <2>2. StartsOnce /\ OneModelCall
    BY DEF Init, StartsOnce, OneModelCall, AtModel, At, Calling, Idle
  <2>3. QED
    BY <2>1, <2>2
<1>2. Inv /\ [Next]_vars => Inv'
  <2> SUFFICES ASSUME Inv, [Next]_vars PROVE Inv'
    OBVIOUS
  <2>1. CASE Next
    BY <2>1, NextTyped, NextStartsOnce
  <2>2. CASE UNCHANGED vars
    <3>1. Typed' /\ ReadyHasClip'
      BY <2>2, SameRows, SameOthers, SameQueue, SameJobs
         DEF Typed, vars, otherVars, bucketVars, brokerVars, faultVars, rowVars, ReadyHasClip, Ready
    <3>2. StartsOnce' /\ OneModelCall'
      BY <2>2 DEF StartsOnce, OneModelCall, AtModel, At, Subject, vars, rowVars, brokerVars
    <3>3. QED
      BY <3>1, <3>2
  <2>3. QED
    BY <2>1, <2>2
<1>3. QED
  BY <1>1, <1>2, PTL DEF Spec

----------------------------------------------------------------------------
(* Publications *)

\* What a step does to a handler: nothing, or it lets go, loses its channel, goes
\* on, has a clip, or starts.
Moved(k) == /\ job[k] # Idle
            /\ \E phase : /\ job'[k] = [job[k] EXCEPT !.phase = phase]
                          /\ \/ callModel(k) /\ phase = "answered"
                             \/ upload(k) /\ phase = "finalizing"
                             \/ write(k) /\ phase = "publishing"
HasMade(k) == /\ job[k] # Idle
              /\ \E phase, c :
                   /\ job'[k] = [job[k] EXCEPT !.phase = phase, !.made = c]
                   /\ \/ recoverCanonical(k) /\ phase = "recovering"
                      \/ materialize(k) /\ phase = "uploading"
StartedOn(k, m, phase, i) ==
    /\ job'[k] = [message |-> m, phase |-> phase, made |-> NoClip,
                  revision |-> i, connected |-> TRUE]
    /\ m.event[2] \in Assets
    /\ \/ claimRefinement(k, m) /\ phase = "calling"
       \/ claim(k, m) /\ Claimable(m.event[2], m) /\ phase = "cutting"
       \/ reserve(k, m) /\ i \in DOMAIN revisions'[m.event[2]] /\ phase = "writing"
Started(k) == \E m \in BagToSet(queue), i \in Nat :
                \E phase : StartedOn(k, m, phase, i)

JobStep(k) == \/ job'[k] \in {job[k], Idle}
              \/ job[k] # Idle /\ job'[k] = [job[k] EXCEPT !.connected = FALSE]
              \/ Moved(k) \/ HasMade(k) \/ Started(k)

LEMMA ReserveStarts ==
    ASSUME Typed, ReadyHasClip, NEW h \in Handlers, NEW m \in BagToSet(queue), reserve(h, m)
    PROVE  \E i \in Nat : /\ Start(h, m, "writing", i)
                          /\ i \in DOMAIN revisions'[m.event[2]]
<1> DEFINE a == m.event[2]
<1>1. a \in Assets
  BY EventOfAsset DEF reserve, Typed, QueueOK, Messages
<1>2. revisions[a] \in Seq(Revision) /\ NewRevision(a) \in Revision
  BY <1>1, NewRevisionOK DEF reserve, Typed, RowsOK, ReadyHasClip
<1>3. DOMAIN revisions[a] \subseteq Nat
  BY <1>2, LenProperties
<1>4. ASSUME NEW i \in Current(a), Start(h, m, "writing", i), UNCHANGED revisions
      PROVE  i \in Nat /\ i \in DOMAIN revisions'[a]
  BY <1>3, <1>4 DEF Current
<1>5. ASSUME NEW i \in Current(a), Start(h, m, "writing", i),
             revisions' = [revisions EXCEPT ![a][i].status = "publishing"]
      PROVE  i \in Nat /\ i \in DOMAIN revisions'[a]
  <2>1. DOMAIN revisions'[a] = DOMAIN revisions[a]
    BY <1>1, <1>2, <1>5, MarkRevision DEF Statuses, Typed, RowsOK
  <2>2. QED
    BY <1>3, <2>1 DEF Current
<1>6. ASSUME Start(h, m, "writing", Len(WithNext(a))),
             revisions' = [revisions EXCEPT ![a] = WithNext(a)]
      PROVE  Len(WithNext(a)) \in Nat /\ Len(WithNext(a)) \in DOMAIN revisions'[a]
  BY <1>1, <1>2, <1>6, AppendRevision DEF WithNext, Typed, RowsOK
<1>7. QED
  BY <1>4, <1>5, <1>6 DEF reserve

LEMMA JobSteps ==
    ASSUME Typed, ReadyHasClip, Next, NEW k \in Handlers
    PROVE  JobStep(k)
<1> JobsOK
  BY DEF Typed
<1>1. ASSUME UNCHANGED job PROVE JobStep(k)
  BY <1>1 DEF JobStep
<1>2. ASSUME NEW h \in Handlers, job' = [job EXCEPT ![h] = Idle] PROVE JobStep(k)
  BY <1>2 DEF JobStep, JobsOK
<1>3. ASSUME NEW h \in Handlers, losesChannel(h) PROVE JobStep(k)
  BY <1>3 DEF losesChannel, JobStep, JobsOK
<1>4. ASSUME NEW h \in Handlers, callModel(h) \/ upload(h) \/ write(h) PROVE JobStep(k)
  <2>1. job[h] # Idle
    BY <1>4, PhaseIsBusy DEF callModel, upload, write
  <2>2. PICK phase : /\ job' = [job EXCEPT ![h].phase = phase]
                     /\ \/ callModel(h) /\ phase = "answered"
                        \/ upload(h) /\ phase = "finalizing"
                        \/ write(h) /\ phase = "publishing"
    BY <1>4 DEF callModel, upload, write, Step
  <2>3. k # h => job'[k] = job[k]
    BY <2>2
  <2>4. job'[h] = [job[h] EXCEPT !.phase = phase]
    BY <2>2 DEF JobsOK
  <2>5. QED
    BY <2>1, <2>2, <2>3, <2>4 DEF JobStep, Moved
<1>5. ASSUME NEW h \in Handlers, recoverCanonical(h) \/ materialize(h) PROVE JobStep(k)
  <2>1. job[h] # Idle
    BY <1>5, PhaseIsBusy DEF recoverCanonical, materialize
  <2>2. PICK phase, c : /\ job' = [job EXCEPT ![h].phase = phase, ![h].made = c]
                        /\ \/ recoverCanonical(h) /\ phase = "recovering"
                           \/ materialize(h) /\ phase = "uploading"
    BY <1>5 DEF recoverCanonical, materialize, Made
  <2>a. job' = [job EXCEPT ![h] = [job[h] EXCEPT !.phase = phase, !.made = c]]
    BY <2>2
  <2> DEFINE new == [job[h] EXCEPT !.phase = phase, !.made = c]
  <2> HIDE DEF new
  <2>3. k # h => job'[k] = job[k]
    BY <2>a DEF new
  <2>4. job'[h] = [job[h] EXCEPT !.phase = phase, !.made = c]
    BY <2>a DEF JobsOK
  <2>5. QED
    BY <2>1, <2>2, <2>3, <2>4 DEF JobStep, HasMade
<1>6. ASSUME NEW h \in Handlers, NEW m \in BagToSet(queue), NEW phase, NEW i \in Nat,
             Start(h, m, phase, i), m.event[1] \in {"refine", "cut", "json"},
             \/ claimRefinement(h, m) /\ phase = "calling"
             \/ claim(h, m) /\ Claimable(m.event[2], m) /\ phase = "cutting"
             \/ reserve(h, m) /\ i \in DOMAIN revisions'[m.event[2]] /\ phase = "writing"
      PROVE  JobStep(k)
  <2>1. m.event[2] \in Assets
    BY <1>6, EventOfAsset DEF Typed, QueueOK, Messages
  <2>2. job'[h] = [message |-> m, phase |-> phase, made |-> NoClip,
                   revision |-> i, connected |-> TRUE]
    BY <1>6 DEF Start, JobsOK
  <2>3. k # h => job'[k] = job[k]
    BY <1>6 DEF Start
  <2>a. StartedOn(h, m, phase, i)
    BY <1>6, <2>1, <2>2 DEF StartedOn
  <2>4. Started(h)
    BY <2>a DEF Started
  <2>5. QED
    BY <2>3, <2>4 DEF JobStep
<1> HIDE DEF JobStep
<1>7. ASSUME NEW h \in Handlers, NEW m \in BagToSet(queue), claimRefinement(h, m)
      PROVE  JobStep(k)
  <2>1. UNCHANGED job \/ Start(h, m, "calling", 0)
    BY <1>7 DEF claimRefinement, Drop
  <2>2. m.event[1] = "refine" /\ 0 \in Nat
    BY <1>7 DEF claimRefinement
  <2>3. QED
    BY <1>1, <1>6, <1>7, <2>1, <2>2
<1>8. ASSUME NEW h \in Handlers, NEW m \in BagToSet(queue), claim(h, m)
      PROVE  JobStep(k)
  <2>1. UNCHANGED job \/ (Start(h, m, "cutting", 0) /\ Claimable(m.event[2], m))
    BY <1>8 DEF claim, Drop
  <2>2. m.event[1] = "cut" /\ 0 \in Nat
    BY <1>8 DEF claim
  <2>3. QED
    BY <1>1, <1>6, <1>8, <2>1, <2>2
<1>9. ASSUME NEW h \in Handlers, NEW m \in BagToSet(queue), reserve(h, m)
      PROVE  JobStep(k)
  <2>1. PICK i \in Nat : Start(h, m, "writing", i) /\ i \in DOMAIN revisions'[m.event[2]]
    BY <1>9, ReserveStarts
  <2>2. m.event[1] = "json"
    BY <1>9 DEF reserve
  <2>3. QED
    BY <1>6, <1>9, <2>1, <2>2
<1>10. ASSUME NEW h \in Handlers,
              \/ dies(h) \/ handlerFails(h) \/ completeRefinement(h) \/ skip(h) \/ cutFails(h)
              \/ uploadFails(h) \/ finalize(h) \/ writeFails(h) \/ publishJson(h)
       PROVE  JobStep(k)
  <2>1. job' = [job EXCEPT ![h] = Idle]
    BY <1>10 DEF dies, handlerFails, completeRefinement, skip, cutFails, uploadFails, finalize,
                 writeFails, publishJson, Acknowledge, Retry
  <2>2. QED
    BY <1>2, <2>1
<1>11. ASSUME \/ \E e \in Events : publish(e)
              \/ \E m \in BagToSet(queue) : Delivery(m) \/ diesAtOnce(m) \/ deliveryFails(m)
              \/ People
       PROVE  JobStep(k)
  <2>1. UNCHANGED job
    BY <1>11 DEF publish, Delivery, busy, rejectPublication, alreadyPublished, retain, diesAtOnce,
                 deletionFails, archivingFails, deliveryFails, Drop, RetryDelivered, People, autoAccept, reviewAccepts,
                 reviewRejects, retryCut, retryJson, backfill, settle, brokerVars
  <2>2. QED
    BY <1>1, <2>1
<1>12. QED
  BY <1>3, <1>4, <1>5, <1>7, <1>8, <1>9, <1>10, <1>11 DEF Next, System, Faults, Handler

\* No step takes a revision away, changes what it was made of, or one published.
Grows(a) ==
    /\ DOMAIN revisions[a] \subseteq DOMAIN revisions'[a]
    /\ \A i \in DOMAIN revisions[a] :
         /\ revisions'[a][i].version = revisions[a][i].version
         /\ revisions'[a][i].sha = revisions[a][i].sha
         /\ IsPublished(a, i) => revisions'[a][i] = revisions[a][i]

LEMMA RevisionsGrow ==
    ASSUME Typed, ReadyHasClip, Next, NEW a \in Assets
    PROVE  Grows(a)
<1> revisions \in [Assets -> Seq(Revision)]
  BY DEF Typed, RowsOK
<1>1. ASSUME UNCHANGED revisions PROVE Grows(a)
  BY <1>1 DEF Grows
<1>2. ASSUME NEW b \in Assets, NEW i, NEW status \in Statuses,
             status = "published" \/ ~IsPublished(b, i),
             revisions' = [revisions EXCEPT ![b][i].status = status]
      PROVE  Grows(a)
  <2>1. CASE a # b
    BY <1>2, <2>1 DEF Grows
  <2>2. CASE a = b
    <3> DEFINE t == [revisions[a] EXCEPT ![i].status = status]
    <3>1. revisions'[a] = t
      BY <1>2, <2>2
    <3>2. /\ DOMAIN t = DOMAIN revisions[a]
          /\ \A k \in DOMAIN revisions[a] :
               /\ t[k].version = revisions[a][k].version /\ t[k].sha = revisions[a][k].sha
               /\ k # i \/ revisions[a][k].status = status => t[k] = revisions[a][k]
      <4>1. revisions[a] \in Seq(Revision)
        OBVIOUS
      <4> HIDE DEF t
      <4>2. t = [revisions[a] EXCEPT ![i].status = status]
        BY DEF t
      <4>3. QED
        BY <4>1, <4>2, MarkRevision
    <3> HIDE DEF t
    <3>3. QED
      BY <1>2, <2>2, <3>1, <3>2 DEF Grows, IsPublished
  <2>3. QED
    BY <2>1, <2>2
<1>3. ASSUME NEW b \in Assets, NEW v \in Revision,
             revisions' = [revisions EXCEPT ![b] = Append(revisions[b], v)]
      PROVE  Grows(a)
  BY <1>3, AppendRevision DEF Grows
<1> HIDE DEF Grows
<1>4. ASSUME NEW h \in Handlers, Subject(h) \in Assets, recordFailure(h) PROVE Grows(a)
  BY <1>1, <1>2, <1>4 DEF recordFailure, FailRevision, Statuses
<1>5. ASSUME NEW h \in Handlers, NEW m \in BagToSet(queue), reserve(h, m) PROVE Grows(a)
  <2> DEFINE b == m.event[2]
  <2>1. b \in Assets
    BY <1>5, EventOfAsset DEF reserve, Typed, QueueOK, Messages
  <2>2. NewRevision(b) \in Revision
    BY <1>5, <2>1, NewRevisionOK DEF reserve, Typed, ReadyHasClip
  <2>3. \/ UNCHANGED revisions
        \/ \E i : ~IsPublished(b, i) /\ revisions' = [revisions EXCEPT ![b][i].status = "publishing"]
        \/ revisions' = [revisions EXCEPT ![b] = Append(revisions[b], NewRevision(b))]
    BY <1>5 DEF reserve, WithNext
  <2>4. "publishing" \in Statuses
    BY DEF Statuses
  <2> HIDE DEF b
  <2>5. QED
    BY <1>1, <1>2, <1>3, <2>1, <2>2, <2>3, <2>4
<1>6. ASSUME NEW h \in Handlers, writeFails(h) \/ publishJson(h) PROVE Grows(a)
  <2>1. Subject(h) \in Assets
    BY <1>6, PhaseIsBusy, BusyHandler DEF writeFails, publishJson, Typed
  <2>2. \/ recordFailure(h)
        \/ revisions' = [revisions EXCEPT ![Subject(h)][job[h].revision].status = "published"]
    BY <1>6 DEF writeFails, publishJson
  <2>3. "published" \in Statuses
    BY DEF Statuses
  <2>4. QED
    BY <1>2, <1>4, <2>1, <2>2, <2>3
<1>7. ASSUME ~\E h \in Handlers : writeFails(h) \/ publishJson(h),
             ~\E h \in Handlers, m \in BagToSet(queue) : reserve(h, m)
      PROVE  Grows(a)
  <2>1. CASE \E h \in Handlers : Handler(h)
    BY <1>1, <1>7, <2>1 DEF Handler, claimRefinement, claim, callModel, completeRefinement, skip,
         recoverCanonical, materialize, cutFails, upload, uploadFails, finalize, write, rowVars
  <2>2. CASE People
    BY <1>1, <2>2 DEF People, autoAccept, reviewAccepts, reviewRejects, retryCut, retryJson,
         backfill, settle, rowVars
  <2>3. CASE Faults
    BY <1>1, <2>3 DEF Faults, dies, losesChannel, handlerFails, diesAtOnce, deliveryFails, rowVars
  <2>4. CASE \/ \E e \in Events : publish(e)
             \/ \E m \in BagToSet(queue) : Delivery(m)
    BY <1>1, <2>4 DEF publish, Delivery, busy, rejectPublication, alreadyPublished, retain, rowVars
  <2>5. QED
    BY <2>1, <2>2, <2>3, <2>4 DEF Next, System
<1>8. QED
  BY <1>5, <1>6, <1>7

\* A file once written is not taken away.
LEMMA FilesStay ==
    ASSUME Typed, Next, NEW a \in Assets
    PROVE  json[a] \subseteq json'[a]
<1> json \in [Assets -> SUBSET Nat]
  BY DEF Typed, OthersOK
<1>1. CASE \E h \in Handlers : Handler(h)
  BY <1>1 DEF Handler, claimRefinement, claim, reserve, callModel, completeRefinement, skip,
       recoverCanonical, materialize, cutFails, upload, uploadFails, finalize, write, writeFails,
       publishJson, bucketVars
<1>2. CASE People
  BY <1>2 DEF People, autoAccept, reviewAccepts, reviewRejects, retryCut, retryJson, backfill,
       settle, bucketVars
<1>3. CASE Faults
  BY <1>3 DEF Faults, dies, losesChannel, handlerFails, diesAtOnce, deliveryFails, bucketVars
<1>4. CASE \/ \E e \in Events : publish(e)
           \/ \E m \in BagToSet(queue) : Delivery(m)
  BY <1>4 DEF publish, Delivery, busy, rejectPublication, alreadyPublished, retain, bucketVars
<1>5. QED
  BY <1>1, <1>2, <1>3, <1>4 DEF Next, System

\* A handler that writes or publishes has a revision, and has written its file
\* before it publishes; and what is published is a pair.
Reserved ==
    /\ \A h \in Handlers : job[h].phase \in Writing =>
                             job[h].revision \in DOMAIN revisions[Subject(h)]
    /\ \A h \in Handlers : At(h, "publishing") => job[h].revision \in json[Subject(h)]
    /\ \A a \in Assets : asset[a].generation = "none" => asset[a].current = 0

\* A handler in one of these phases was in the phase before, or has just begun.
LEMMA WritingSteps ==
    ASSUME Typed, ReadyHasClip, Next, NEW h \in Handlers, job'[h].phase \in Writing
    PROVE  \/ /\ job[h].phase = job'[h].phase /\ job'[h].revision = job[h].revision
              /\ Subject(h)' = Subject(h) /\ Subject(h) \in Assets
           \/ /\ write(h) /\ job'[h].phase = "publishing" /\ job'[h].revision = job[h].revision
              /\ Subject(h)' = Subject(h) /\ Subject(h) \in Assets
           \/ /\ job'[h].phase = "writing"
              /\ job'[h].revision \in DOMAIN revisions'[Subject(h)']
<1>1. JobStep(h)
  BY JobSteps
<1>2. job[h] # Idle => job[h] \in Job /\ Subject(h) \in Assets
  BY BusyHandler DEF Typed, FitJob
<1>3. Idle.phase = "idle" /\ Idle.phase \notin Writing
  BY DEF Idle, Writing
<1>4. CASE job'[h] \in {job[h], Idle}
  <2>1. job'[h] = job[h] /\ job[h] # Idle
    BY <1>3, <1>4
  <2>2. QED
    BY <1>2, <2>1 DEF Subject
<1>5. CASE job[h] # Idle /\ job'[h] = [job[h] EXCEPT !.connected = FALSE]
  BY <1>2, <1>5 DEF Subject, Job
<1>6. CASE Moved(h)
  <2>1. PICK phase : /\ job'[h] = [job[h] EXCEPT !.phase = phase]
                     /\ \/ callModel(h) /\ phase = "answered"
                        \/ upload(h) /\ phase = "finalizing"
                        \/ write(h) /\ phase = "publishing"
    BY <1>6 DEF Moved
  <2>2. job[h] \in Job /\ Subject(h) \in Assets
    BY <1>2, <1>6 DEF Moved
  <2>3. /\ job'[h].phase = phase /\ job'[h].revision = job[h].revision
        /\ job'[h].message = job[h].message
    BY <2>1, <2>2 DEF Job
  <2>4. write(h) /\ phase = "publishing"
    BY <2>1, <2>3 DEF Writing
  <2>5. QED
    BY <2>2, <2>3, <2>4 DEF Subject
<1>7. CASE HasMade(h)
  <2>1. PICK phase, c : /\ job'[h] = [job[h] EXCEPT !.phase = phase, !.made = c]
                        /\ phase \in {"recovering", "uploading"}
    BY <1>7 DEF HasMade
  <2>2. job'[h].phase = phase
    BY <1>2, <1>7, <2>1 DEF Job, HasMade
  <2>3. QED
    BY <2>1, <2>2 DEF Writing
<1>8. CASE Started(h)
  <2>1. PICK m, i, phase : /\ m \in BagToSet(queue)
                           /\ i \in Nat
                           /\ StartedOn(h, m, phase, i)
    BY <1>8 DEF Started
  <2>2. job'[h].phase = phase /\ job'[h].revision = i /\ Subject(h)' = m.event[2]
    BY <2>1 DEF StartedOn, Subject
  <2>3. phase = "writing" /\ i \in DOMAIN revisions'[m.event[2]]
    BY <2>1, <2>2 DEF StartedOn, Writing
  <2>4. QED
    BY <2>2, <2>3
<1>9. QED
  BY <1>1, <1>4, <1>5, <1>6, <1>7, <1>8 DEF JobStep

LEMMA NextReserved ==
    ASSUME Typed, ReadyHasClip, Reserved, Next
    PROVE  Reserved'
<1>1. ASSUME NEW h \in Handlers, job'[h].phase \in Writing
      PROVE  job'[h].revision \in DOMAIN revisions'[Subject(h)']
  <2>1. CASE /\ job'[h].revision = job[h].revision /\ job[h].phase \in Writing
             /\ Subject(h)' = Subject(h) /\ Subject(h) \in Assets
    BY <2>1, RevisionsGrow DEF Reserved, Grows
  <2>2. write(h) => job[h].phase \in Writing
    BY DEF write, At, Writing
  <2>3. QED
    BY <1>1, <2>1, <2>2, WritingSteps
<1>2. ASSUME NEW h \in Handlers, At(h, "publishing")'
      PROVE  job'[h].revision \in json'[Subject(h)']
  <2>1. job'[h].phase = "publishing" /\ job'[h].phase \in Writing
    BY <1>2 DEF At, Writing
  <2>2. CASE /\ job[h].phase = job'[h].phase /\ job'[h].revision = job[h].revision
             /\ Subject(h)' = Subject(h) /\ Subject(h) \in Assets
    BY <2>1, <2>2, FilesStay DEF Reserved, At
  <2>3. CASE /\ write(h) /\ job'[h].revision = job[h].revision
             /\ Subject(h)' = Subject(h) /\ Subject(h) \in Assets
    BY <2>3 DEF write, Typed, OthersOK
  <2>4. QED
    BY <2>1, <2>2, <2>3, WritingSteps
<1>3. ASSUME NEW a \in Assets, asset'[a].generation = "none" PROVE asset'[a].current = 0
  <2>1. asset[a] \in Asset
    BY DEF Typed, RowsOK
  <2>2. asset'[a] = asset[a] \/ Reported(a) \/ MadeCurrent(a)
    BY <1>3, NoneNeverAgain
  <2>3. ~MadeCurrent(a)
    BY <1>3, <2>1 DEF MadeCurrent, Ready, Asset
  <2>4. asset'[a].current = asset[a].current /\ asset[a].generation = "none"
    BY <1>3, <2>1, <2>2, <2>3 DEF Reported, Asset
  <2>5. QED
    BY <2>4 DEF Reserved
<1>4. QED
  BY <1>1, <1>2, <1>3 DEF Reserved

\* What a handler makes current is a published revision of the clip, with its file.
LEMMA MadeCurrentPaired ==
    ASSUME Typed, ReadyHasClip, Reserved, Next, NEW a \in Assets, MadeCurrent(a)
    PROVE  /\ CurrentRevision(a)'
           /\ asset'[a].current # 0
           /\ revisions'[a][asset'[a].current].version = version[RunOf[a]]
<1>1. PICK h \in Handlers :
        /\ publishJson(h) /\ Subject(h) = a
        /\ Accepted(a) /\ Ready(a) /\ SameFingerprint(a, job[h].revision)
        /\ asset'[a] = [asset[a] EXCEPT !.publication = "published",
                                        !.current = job[h].revision]
  BY DEF MadeCurrent
<1> DEFINE i == job[h].revision
<1>2. asset[a] \in Asset /\ revisions[a] \in Seq(Revision)
  BY DEF Typed, RowsOK
<1>3. asset'[a].current = i /\ asset'[a].sha = asset[a].sha
  BY <1>1, <1>2 DEF Asset
<1>4. /\ i \in DOMAIN revisions[a]
      /\ revisions[a][i].version = version[RunOf[a]] /\ revisions[a][i].sha = asset[a].sha
  BY <1>1 DEF SameFingerprint, Current
<1>5. i # 0
  BY <1>2, <1>4, LenProperties
<1>6. revisions' = [revisions EXCEPT ![a][i].status = "published"]
  BY <1>1 DEF publishJson
<1>7. /\ i \in DOMAIN revisions'[a] /\ revisions'[a][i].status = "published"
      /\ revisions'[a][i].version = revisions[a][i].version
      /\ revisions'[a][i].sha = revisions[a][i].sha
  <2> DEFINE t == [revisions[a] EXCEPT ![i].status = "published"]
  <2>1. revisions'[a] = t
    BY <1>6 DEF Typed, RowsOK
  <2>2. "published" \in Statuses
    BY DEF Statuses
  <2>3. t = [revisions[a] EXCEPT ![i].status = "published"]
    OBVIOUS
  <2> HIDE DEF t, i
  <2>4. /\ DOMAIN t = DOMAIN revisions[a]
        /\ t[i].version = revisions[a][i].version /\ t[i].sha = revisions[a][i].sha
        /\ t[i].status = "published"
    BY <1>2, <1>4, <2>2, <2>3, MarkRevision
  <2>5. QED
    BY <1>4, <2>1, <2>4
<1>8. i \in json'[a]
  BY <1>1, FilesStay DEF publishJson, Reserved
<1>9. QED
  BY <1>3, <1>4, <1>5, <1>7, <1>8 DEF CurrentRevision, IsPublished

\* A pair stays one while its row stays what it is.
LEMMA PairStays ==
    ASSUME Typed, ReadyHasClip, Next, NEW a \in Assets, CurrentRevision(a),
           asset'[a].current = asset[a].current, asset'[a].sha = asset[a].sha
    PROVE  CurrentRevision(a)'
BY RevisionsGrow, FilesStay DEF CurrentRevision, Grows, IsPublished

\* The rows of what is published and its file belong together.
Paired ==
    \A a \in Assets : asset[a].publication = "published" => CurrentRevision(a)

LEMMA NextPaired ==
    ASSUME Typed, ReadyHasClip, Reserved, Paired, Next
    PROVE  Paired'
<1> SUFFICES ASSUME NEW a \in Assets, asset'[a].publication = "published"
             PROVE  CurrentRevision(a)'
  BY DEF Paired
<1>1. AssetStep(a) /\ asset[a] \in Asset
  BY AssetSteps DEF Typed, RowsOK
<1>2. CASE MadeCurrent(a)
  BY <1>2, MadeCurrentPaired
<1>3. CASE MadeOfTask(a)
  BY <1>3 DEF MadeOfTask, Published, NewAsset
<1>4. CASE /\ asset'[a].current = asset[a].current /\ asset'[a].sha = asset[a].sha
           /\ asset[a].publication = "published"
  BY <1>4, PairStays DEF Paired
<1>5. QED
  BY <1>1, <1>2, <1>3, <1>4 DEF AssetStep, Bounded, Claimed, GivenUp, Finalized, Reported,
                                Retried, Asset

Publication == Typed /\ ReadyHasClip /\ Reserved /\ Paired

LEMMA InitPublication == Init => Publication
<1> SUFFICES ASSUME Init PROVE Publication
  OBVIOUS
<1>1. Typed /\ ReadyHasClip
  BY InitTyped DEF Init, ReadyHasClip, Ready, NewAsset
<1>2. Reserved /\ Paired
  BY DEF Init, Reserved, Paired, NewAsset, At, Writing, Idle
<1>3. QED
  BY <1>1, <1>2 DEF Publication

LEMMA StutterPublication == Publication /\ UNCHANGED vars => Publication'
<1> SUFFICES ASSUME Publication, UNCHANGED vars PROVE Publication'
  OBVIOUS
<1>1. Typed' /\ ReadyHasClip'
  BY SameRows, SameOthers, SameQueue, SameJobs
     DEF Publication, Typed, vars, otherVars, bucketVars, brokerVars, faultVars, rowVars,
         ReadyHasClip, Ready
<1>2. Reserved' /\ Paired'
  BY DEF Publication, Reserved, Paired, CurrentRevision, IsPublished, Subject, At,
         vars, bucketVars, brokerVars, rowVars
<1>3. QED
  BY <1>1, <1>2 DEF Publication

LEMMA PublicationInvariant == Spec => []Publication
<1>1. Publication /\ [Next]_vars => Publication'
  BY NextTyped, NextReserved, NextPaired, StutterPublication DEF Publication
<1>2. QED
  BY <1>1, InitPublication, PTL DEF Spec

\* What becomes current renders the review that is in force at that moment.
THEOREM CurrentReviewPublished == Spec => PublishesCurrentReview
<1> DEFINE A == \A a \in Assets :
         asset[a].publication # "published" /\ asset'[a].publication = "published"
           => revisions'[a][asset'[a].current].version = version[RunOf[a]]
<1>1. Publication /\ [Next]_vars => [A]_vars
  <2> SUFFICES ASSUME Publication, Next, NEW a \in Assets,
                      asset[a].publication # "published", asset'[a].publication = "published"
               PROVE  revisions'[a][asset'[a].current].version = version[RunOf[a]]
    OBVIOUS
  <2>1. AssetStep(a) /\ asset[a] \in Asset
    BY AssetSteps DEF Publication, Typed, RowsOK
  <2>2. ~MadeOfTask(a)
    BY DEF MadeOfTask, Published, NewAsset
  <2>3. MadeCurrent(a)
    BY <2>1, <2>2 DEF AssetStep, Bounded, Claimed, GivenUp, Finalized, Reported, Retried, Asset
  <2>4. QED
    BY <2>3, MadeCurrentPaired DEF Publication
<1>2. QED
  BY <1>1, PublicationInvariant, PTL DEF Spec, PublishesCurrentReview

\* A published revision is never changed or taken away, and an asset that has one
\* keeps one.
THEOREM RevisionsStand == Spec => PublishedRevisionStands
<1> DEFINE A == \A a \in Assets :
         /\ \A i \in DOMAIN revisions[a] :
              IsPublished(a, i) => i \in DOMAIN revisions'[a] /\ revisions'[a][i] = revisions[a][i]
         /\ asset[a].current # 0 => asset'[a].current # 0
<1>1. Publication /\ [Next]_vars => [A]_vars
  <2> SUFFICES ASSUME Publication, Next, NEW a \in Assets
               PROVE  /\ \A i \in DOMAIN revisions[a] : IsPublished(a, i) =>
                           i \in DOMAIN revisions'[a] /\ revisions'[a][i] = revisions[a][i]
                      /\ asset[a].current # 0 => asset'[a].current # 0
    OBVIOUS
  <2>1. Grows(a)
    BY RevisionsGrow DEF Publication
  <2>2. AssetStep(a) /\ asset[a] \in Asset
    BY AssetSteps DEF Publication, Typed, RowsOK
  <2>3. MadeOfTask(a) => asset[a].current = 0
    BY DEF MadeOfTask, Publication, Reserved
  <2>4. MadeCurrent(a) => asset'[a].current # 0
    BY MadeCurrentPaired DEF Publication
  <2>5. asset[a].current # 0 => asset'[a].current # 0
    BY <2>2, <2>3, <2>4 DEF AssetStep, Bounded, Claimed, GivenUp, Finalized, Reported, Retried,
                            Asset
  <2>6. QED
    BY <2>1, <2>5 DEF Grows
<1>2. QED
  BY <1>1, PublicationInvariant, PTL DEF Spec, PublishedRevisionStands

----------------------------------------------------------------------------
(* The original *)

Opened == {"queued", "running"}

\* An event is on its way: it is to be published, waits, or is being handled.
Held(e)  == \/ \E m \in BagToSet(queue) : m.event = e
            \/ \E h \in Handlers : job[h] # Idle /\ job[h].message.event = e
Alive(e) == outbox[e] = "pending" \/ Held(e)

\* A message comes of an event that was on its way.
LEMMA QueueSteps ==
    ASSUME Typed, ReadyHasClip, Next, NEW m \in BagToSet(queue)'
    PROVE  Alive(m.event)
<1> QueueOK /\ JobsOK
  BY DEF Typed
<1>1. CASE m \in BagToSet(queue)
  BY <1>1 DEF Alive, Held
<1>2. ASSUME NEW n, BagToSet(queue)' \subseteq BagToSet(queue) \cup {n}, Alive(n.event)
      PROVE  Alive(m.event)
  BY <1>1, <1>2
<1>3. ASSUME BagToSet(queue)' \subseteq BagToSet(queue) PROVE Alive(m.event)
  BY <1>1, <1>3
<1>4. ASSUME NEW n, Delivered(n) PROVE Alive(m.event)
  BY <1>3, <1>4, DeliveredOK
<1>5. ASSUME NEW n \in BagToSet(queue), NEW n2, n2.event = n.event,
             queue' = Sent(Taken(queue, n), n2)
      PROVE  Alive(m.event)
  <2>1. BagToSet(queue)' \subseteq BagToSet(queue) \cup {n2}
    BY <1>5, SentIsABag, TakenIsABag DEF QueueOK
  <2>2. Alive(n2.event)
    BY <1>5 DEF Alive, Held
  <2>3. QED
    BY <1>2, <2>1, <2>2
<1>6. ASSUME NEW h \in Handlers, job[h] # Idle, NEW n2, n2.event = job[h].message.event,
             queue' = Sent(queue, n2)
      PROVE  Alive(m.event)
  <2>1. BagToSet(queue)' \subseteq BagToSet(queue) \cup {n2}
    BY <1>6, SentIsABag DEF QueueOK
  <2>2. Alive(n2.event)
    BY <1>6 DEF Alive, Held
  <2>3. QED
    BY <1>2, <2>1, <2>2
<1>7. ASSUME NEW n, RetryDelivered(n) PROVE Alive(m.event)
  <2>1. n \in BagToSet(queue) /\ n \in Messages
    BY <1>7 DEF RetryDelivered, BagIn, QueueOK
  <2>2. CASE n.retry < RetryDelays
    BY <1>5, <1>7, <2>1, <2>2, NextTryIsMessage DEF RetryDelivered
  <2>3. CASE ~(n.retry < RetryDelays)
    BY <1>3, <1>7, <2>3, TakenIsABag DEF RetryDelivered, QueueOK
  <2>4. QED
    BY <2>2, <2>3
<1>8. ASSUME NEW h \in Handlers, job[h] # Idle, Retry(h) PROVE Alive(m.event)
  <2>1. job[h].message \in Messages
    BY <1>8, BusyHandler
  <2>2. CASE UNCHANGED queue
    BY <1>3, <2>2
  <2>3. CASE job[h].message.retry < RetryDelays /\ queue' = Sent(queue, NextTry(job[h].message))
    BY <1>6, <1>8, <2>1, <2>3, NextTryIsMessage
  <2>4. QED
    BY <1>8, <2>2, <2>3 DEF Retry
<1> HIDE DEF Alive
<1>9. ASSUME NEW e \in Events, publish(e) PROVE Alive(m.event)
  <2> DEFINE new == [event |-> e, retry |-> 0, redelivered |-> FALSE]
  <2>1. queue' = Sent(queue, new) /\ outbox[e] = "pending" /\ new.event = e
    BY <1>9 DEF publish
  <2> HIDE DEF new
  <2>2. BagToSet(queue)' \subseteq BagToSet(queue) \cup {new}
    BY <2>1, SentIsABag DEF QueueOK
  <2>3. QED
    BY <1>2, <2>1, <2>2 DEF Alive
<1>10. ASSUME NEW h \in Handlers, dies(h) \/ losesChannel(h) PROVE Alive(m.event)
  <2>1. job[h] # Idle /\ job[h].message \in Messages
    BY <1>10, BusyHandler DEF dies, losesChannel
  <2>2. UNCHANGED queue \/ queue' = Sent(queue, Redelivered(job[h].message))
    BY <1>10 DEF dies, losesChannel
  <2>3. QED
    BY <1>3, <1>6, <2>1, <2>2, RedeliveredIsMessage
<1>11. ASSUME NEW n \in BagToSet(queue), diesAtOnce(n) PROVE Alive(m.event)
  <2>1. n \in Messages
    BY DEF QueueOK
  <2>2. QED
    BY <1>5, <1>11, <2>1, RedeliveredIsMessage DEF diesAtOnce
<1>12. ASSUME NEW h \in Handlers,
              \/ handlerFails(h) \/ completeRefinement(h) \/ skip(h) \/ cutFails(h)
              \/ uploadFails(h) \/ finalize(h) \/ writeFails(h) \/ publishJson(h)
       PROVE  Alive(m.event)
  <2>1. job[h] # Idle
    BY <1>12, PhaseIsBusy DEF handlerFails, completeRefinement, skip, cutFails, uploadFails,
                              finalize, writeFails, publishJson
  <2>2. UNCHANGED queue \/ Retry(h)
    BY <1>12 DEF handlerFails, completeRefinement, skip, cutFails, uploadFails, finalize,
                 writeFails, publishJson, Acknowledge
  <2>3. QED
    BY <1>3, <1>8, <2>1, <2>2
<1>13. ASSUME NEW n \in BagToSet(queue), Delivery(n) \/ deliveryFails(n) PROVE Alive(m.event)
  <2>1. Delivered(n) \/ RetryDelivered(n)
    BY <1>13 DEF Delivery, busy, rejectPublication, alreadyPublished, retain, deletionFails,
                 archivingFails, deliveryFails, Drop
  <2>2. QED
    BY <1>4, <1>7, <2>1
<1>14. ASSUME NEW h \in Handlers, NEW n \in BagToSet(queue),
              claimRefinement(h, n) \/ claim(h, n) \/ reserve(h, n)
       PROVE  Alive(m.event)
  <2>1. Delivered(n)
    BY <1>14 DEF claimRefinement, claim, reserve, Start, Drop
  <2>2. QED
    BY <1>4, <2>1
<1>15. ASSUME \/ \E h \in Handlers : \/ callModel(h) \/ recoverCanonical(h) \/ materialize(h)
                                     \/ upload(h) \/ write(h)
              \/ People
       PROVE  Alive(m.event)
  <2>1. UNCHANGED queue
    BY <1>15 DEF callModel, recoverCanonical, materialize, upload, write, People, autoAccept,
                 reviewAccepts, reviewRejects, retryCut, retryJson, backfill, settle, brokerVars
  <2>2. QED
    BY <1>3, <2>1
<1>16. QED
  BY <1>9, <1>10, <1>11, <1>12, <1>13, <1>14, <1>15 DEF Next, System, Faults, Handler

LEMMA HeldSteps ==
    ASSUME Typed, ReadyHasClip, Next, NEW e, Held(e)'
    PROVE  Alive(e)
<1>1. ASSUME NEW m \in BagToSet(queue)', m.event = e PROVE Alive(e)
  BY <1>1, QueueSteps
<1>2. ASSUME NEW h \in Handlers, job'[h] # Idle, job'[h].message.event = e PROVE Alive(e)
  <2>1. JobStep(h) /\ (job[h] # Idle => job[h] \in Job)
    BY JobSteps DEF Typed, JobsOK, FitJob
  <2>2. CASE job[h] # Idle /\ job'[h].message = job[h].message
    BY <1>2, <2>2 DEF Alive, Held
  <2>3. CASE Started(h)
    <3>1. PICK m \in BagToSet(queue) : job'[h].message = m
      BY <2>3 DEF Started, StartedOn
    <3>2. QED
      BY <1>2, <3>1 DEF Alive, Held
  <2>4. QED
    BY <1>2, <2>1, <2>2, <2>3 DEF JobStep, Moved, HasMade, Job
<1>3. QED
  BY <1>1, <1>2 DEF Held

\* A clip is to be cut for a task that is made so, bounded or tried again.
LEMMA CutSteps ==
    ASSUME Typed, Next, NEW a \in Assets,
           outbox'[<<"cut", a>>] = "pending", outbox[<<"cut", a>>] # "pending"
    PROVE  /\ asset'[a].generation = "queued"
           /\ \/ MadeOfTask(a) /\ refinement'[a] = refinement[a]
              \/ Bounded(a) \/ Retried(a)
<1> DEFINE Result == /\ asset'[a].generation = "queued"
                     /\ \/ MadeOfTask(a) /\ refinement'[a] = refinement[a]
                        \/ Bounded(a) \/ Retried(a)
<1> /\ asset \in [Assets -> Asset] /\ asset[a] \in Asset
    /\ refinement \in [Assets -> {"none", "queued", "running", "ended"}]
  BY DEF Typed, RowsOK
<1>1. <<"cut", a>> \in Events
  BY DEF Events
<1>2. ASSUME NEW E, Enqueue(E) PROVE <<"cut", a>> \in E
  BY <1>1, <1>2 DEF Enqueue
<1>3. ASSUME NEW r \in Runs, enqueueForPublishedRun(r) PROVE Result
  <2>1. PICK enabled \in Refinement, outcome \in [AssetsOf(r) -> Outcomes] :
             LET cut == {b \in AssetsOf(r) : outcome[b] = "cut"}
             IN  /\ asset' = [b \in Assets |-> IF RunOf[b] = r THEN Published(outcome[b])
                                                               ELSE asset[b]]
                 /\ refinement' = [b \in Assets |->
                      CASE enabled /\ b \in cut -> "queued"
                        [] enabled /\ RunOf[b] = r /\ outcome[b] = "allowed" -> "ended"
                        [] OTHER -> refinement[b]]
                 /\ Enqueue({IF enabled THEN <<"refine", b>> ELSE <<"cut", b>> : b \in cut})
    BY <1>3 DEF enqueueForPublishedRun
  <2>2. PICK b \in AssetsOf(r) :
           outcome[b] = "cut" /\ <<"cut", a>> = IF enabled THEN <<"refine", b>> ELSE <<"cut", b>>
    BY <1>2, <2>1
  <2>3. ~enabled /\ a = b
    BY <2>2
  <2>4. asset[a].generation = "none"
    BY <1>3, <2>1, <2>2, <2>3 DEF enqueueForPublishedRun
  <2>5. RunOf[a] = r /\ outcome[a] = "cut" /\ "cut" \in Outcomes
    BY <2>2, <2>3 DEF AssetsOf, Outcomes
  <2>6. asset'[a] = Published("cut")
    BY <2>1, <2>5
  <2>7. refinement'[a] = refinement[a]
    BY <2>1, <2>3
  <2>8. Published("cut").generation = "queued"
    BY DEF Published, NewAsset
  <2>9. QED
    BY <2>4, <2>5, <2>6, <2>7, <2>8 DEF MadeOfTask
<1>4. ASSUME NEW b \in Assets, refinement[b] = "running", Complete(b) PROVE Result
  <2>1. PICK outcome \in {"cut", "allowed", "other"} :
      /\ refinement' = [refinement EXCEPT ![b] = "ended"]
      /\ asset' = [asset EXCEPT ![b].generation = IF outcome = "cut" THEN "queued" ELSE "skipped",
                                ![b].code = IF outcome = "cut" THEN "none" ELSE outcome]
      /\ Enqueue(IF outcome = "cut" THEN {<<"cut", b>>} ELSE {})
    BY <1>4 DEF Complete
  <2>2. outcome = "cut" /\ a = b
    BY <1>2, <2>1
  <2>3. asset'[a] = [asset[a] EXCEPT !.generation = "queued", !.code = "none"]
    BY <2>1, <2>2
  <2>4. refinement[a] = "running" /\ refinement'[a] = "ended"
    BY <1>4, <2>1, <2>2
  <2>5. QED
    BY <2>3, <2>4 DEF Bounded, Asset
<1>5. ASSUME NEW b \in Assets, retryCut(b) PROVE Result
  <2>1. a = b
    BY <1>2, <1>5 DEF retryCut
  <2>2. QED
    BY <1>5, <2>1 DEF retryCut, Retried, Asset
<1>6. ASSUME NEW E, Enqueue(E), \A e \in E : e[1] # "cut" PROVE FALSE
  BY <1>2, <1>6
<1>7. EnqueueRetentionIfSettled => outbox'[<<"cut", a>>] = outbox[<<"cut", a>>]
  BY <1>6 DEF EnqueueRetentionIfSettled, Retain
<1> HIDE DEF Result
<1>8. ASSUME People PROVE Result
  <2>1. ASSUME NEW b \in Assets, retryJson(b) \/ backfill(b) PROVE FALSE
    BY <1>6, <2>1 DEF retryJson, backfill
  <2>2. ASSUME settle PROVE FALSE
    BY <1>6, <2>2 DEF settle, Retain
  <2>3. QED
    BY <1>3, <1>5, <1>8, <2>1, <2>2 DEF People, autoAccept, reviewAccepts, reviewRejects,
                                        brokerVars
<1>9. ASSUME NEW h \in Handlers, NEW m \in BagToSet(queue), claimRefinement(h, m) PROVE Result
  <2>1. m.event[2] \in Assets
    BY <1>9, EventOfAsset DEF claimRefinement, Typed, QueueOK, Messages
  <2>2. QED
    BY <1>4, <1>9, <2>1 DEF claimRefinement
<1>10. ASSUME NEW h \in Handlers, completeRefinement(h) PROVE Result
  <2>1. Subject(h) \in Assets
    BY <1>10, PhaseIsBusy, BusyHandler DEF completeRefinement, Typed
  <2>2. QED
    BY <1>4, <1>10, <2>1 DEF completeRefinement, Open
<1>11. ASSUME NEW h \in Handlers, finalize(h) PROVE Result
  BY <1>6, <1>11 DEF finalize
<1>12. ASSUME NEW h \in Handlers, publishJson(h) PROVE Result
  BY <1>7, <1>12 DEF publishJson
<1>13. ASSUME NEW m \in BagToSet(queue), Delivery(m) PROVE Result
  BY <1>7, <1>13 DEF Delivery, busy, rejectPublication, alreadyPublished, retain
<1>14. ASSUME NEW e \in Events, publish(e) PROVE Result
  <2>1. UNCHANGED outbox \/ outbox' = [outbox EXCEPT ![e] = "published"]
    BY <1>14 DEF publish
  <2>2. outbox'[<<"cut", a>>] \in {outbox[<<"cut", a>>], "published"}
    BY <1>1, <2>1 DEF Typed, RowsOK
  <2>3. QED
    BY <2>2
<1>15. ASSUME Faults PROVE Result
  BY <1>15 DEF Faults, dies, losesChannel, handlerFails, diesAtOnce, deliveryFails
<1>16. ASSUME NEW h \in Handlers,
              \/ \E m \in BagToSet(queue) : claim(h, m) \/ reserve(h, m)
              \/ callModel(h) \/ skip(h) \/ recoverCanonical(h) \/ materialize(h) \/ cutFails(h)
              \/ upload(h) \/ uploadFails(h) \/ write(h) \/ writeFails(h)
       PROVE  Result
  BY <1>16 DEF claim, reserve, callModel, skip, recoverCanonical, materialize, cutFails, upload,
               uploadFails, write, writeFails
<1>17. Result
  BY <1>8, <1>9, <1>10, <1>11, <1>12, <1>13, <1>14, <1>15, <1>16 DEF Next, System, Handler
<1>18. QED
  BY <1>17 DEF Result

\* A refinement begins, or is skipped, with the asset of its task.
LEMMA RefinementSteps ==
    ASSUME Typed, Next, NEW a \in Assets, refinement'[a] # refinement[a],
           refinement[a] \notin Opened
    PROVE  /\ asset[a].generation = "none" /\ asset'[a].generation # "none"
           /\ refinement'[a] \in Opened => asset'[a].generation = "queued"
<1>1. refinement' # refinement
  OBVIOUS
<1>2. ASSUME NEW b \in Assets, refinement[b] = "running", Complete(b) PROVE FALSE
  <2>1. refinement' = [refinement EXCEPT ![b] = "ended"]
    BY <1>2 DEF Complete
  <2>2. QED
    BY <1>2, <2>1 DEF Opened
<1>3. ASSUME NEW h \in Handlers, NEW m \in BagToSet(queue), claimRefinement(h, m) PROVE FALSE
  <2>1. m.event[2] \in Assets
    BY <1>3, EventOfAsset DEF claimRefinement, Typed, QueueOK, Messages
  <2>2. CASE ClaimsRefinement(m.event[2], m)
    <3>1. refinement' = [refinement EXCEPT ![m.event[2]] = "running"]
      BY <1>3, <2>2 DEF claimRefinement
    <3>2. QED
      BY <2>2, <3>1 DEF ClaimsRefinement, Opened
  <2>3. CASE ~ClaimsRefinement(m.event[2], m)
    BY <1>1, <1>2, <1>3, <2>1, <2>3 DEF claimRefinement
  <2>4. QED
    BY <2>2, <2>3
<1>4. ASSUME NEW h \in Handlers, completeRefinement(h) PROVE FALSE
  <2>1. Subject(h) \in Assets
    BY <1>4, PhaseIsBusy, BusyHandler DEF completeRefinement, Typed
  <2>2. QED
    BY <1>1, <1>2, <1>4, <2>1 DEF completeRefinement, Open
<1>5. ASSUME NEW h \in Handlers, callModel(h) PROVE FALSE
  BY <1>1, <1>5 DEF callModel, rowVars
<1>6. PICK r \in Runs : enqueueForPublishedRun(r)
  BY <1>1, <1>3, <1>4, <1>5, RestFrame DEF autoAccept, reviewAccepts
<1>7. PICK enabled \in Refinement, outcome \in [AssetsOf(r) -> Outcomes] :
          /\ asset' = [b \in Assets |-> IF RunOf[b] = r THEN Published(outcome[b])
                                                        ELSE asset[b]]
          /\ refinement' = [b \in Assets |->
               CASE enabled /\ b \in {c \in AssetsOf(r) : outcome[c] = "cut"} -> "queued"
                 [] enabled /\ RunOf[b] = r /\ outcome[b] = "allowed" -> "ended"
                 [] OTHER -> refinement[b]]
  BY <1>1, <1>6 DEF enqueueForPublishedRun
<1>8. /\ a \in AssetsOf(r)
      /\ refinement'[a] \in Opened => outcome[a] = "cut"
  BY <1>7 DEF AssetsOf, Opened
<1>9. asset[a].generation = "none"
  BY <1>1, <1>6, <1>8 DEF enqueueForPublishedRun
<1>10. asset'[a] = Published(outcome[a])
  BY <1>7, <1>8 DEF AssetsOf
<1>11. QED
  BY <1>8, <1>9, <1>10 DEF Published, NewAsset

\* A clip is written by a handler that has one.
ClipJob(h, a) == job[h].phase \in HasClip /\ Subject(h) = a

LEMMA ClipSteps ==
    ASSUME Typed, Next, NEW a \in Assets, clip'[a] # clip[a]
    PROVE  /\ clip'[a] \in Clips
           /\ \E h \in Handlers : ClipJob(h, a) /\ clip'[a] = job[h].made
<1> clip \in [Assets -> Clips \cup {NoClip}] /\ JobsOK
  BY DEF Typed, OthersOK
<1>1. clip' # clip
  OBVIOUS
<1>2. ASSUME NEW h \in Handlers, upload(h) \/ uploadFails(h)
      PROVE  clip'[a] \in Clips /\ ClipJob(h, a) /\ clip'[a] = job[h].made
  <2>1. job[h] \in FitJob /\ job[h].phase = "uploading"
    BY <1>2, PhaseIsBusy DEF upload, uploadFails
  <2>2. job[h].made \in Clips
    BY <2>1 DEF FitJob, HasClip
  <2>3. clip' = [clip EXCEPT ![Subject(h)] = job[h].made]
    BY <1>1, <1>2 DEF upload, uploadFails, Uploaded
  <2>4. QED
    BY <2>1, <2>2, <2>3 DEF ClipJob, HasClip
<1>3. CASE \E h \in Handlers : Handler(h)
  BY <1>1, <1>2, <1>3 DEF Handler, claimRefinement, claim, reserve, callModel,
       completeRefinement, skip, recoverCanonical, materialize, cutFails, finalize, write,
       writeFails, publishJson, bucketVars
<1>4. CASE People
  BY <1>1, <1>4 DEF People, autoAccept, reviewAccepts, reviewRejects, retryCut, retryJson,
       backfill, settle, bucketVars
<1>5. CASE Faults
  BY <1>1, <1>5 DEF Faults, dies, losesChannel, handlerFails, diesAtOnce, deliveryFails,
       bucketVars
<1>6. CASE \/ \E e \in Events : publish(e)
           \/ \E m \in BagToSet(queue) : Delivery(m)
  BY <1>1, <1>6 DEF publish, Delivery, busy, rejectPublication, alreadyPublished, retain,
       bucketVars
<1>7. QED
  BY <1>3, <1>4, <1>5, <1>6 DEF Next, System

CutJob(h, a) == job[h].phase \in Cutting /\ Subject(h) = a
NoCut(a) == ~Alive(<<"cut", a>>) /\ clip[a] = NoClip

\* Nothing is cut for a task without a generation, for one whose boundaries are
\* being refined, and for one that was skipped.
UncutAsset(a) ==
    /\ asset[a].generation = "none" => refinement[a] = "none"
    /\ asset[a].generation = "none" \/ refinement[a] \in Opened => NoCut(a)
    /\ refinement[a] \in Opened => asset[a].generation = "queued"
    /\ AllowedSkip(a) => clip[a] = NoClip /\ \A h \in Handlers : ~CutJob(h, a)
Uncut == \A a \in Assets : UncutAsset(a)

LEMMA CutJobIsHeld ==
    ASSUME JobsOK, NEW a \in Assets, NEW h \in Handlers, CutJob(h, a)
    PROVE  job[h] # Idle /\ Held(<<"cut", a>>)
<1>1. job[h] # Idle /\ job[h] \in FitJob
  BY PhaseIsBusy DEF CutJob, Cutting, At
<1>2. job[h].message.event[1] = "cut"
  BY <1>1 DEF FitJob, CutJob, Cutting, Calling, Writing
<1>3. job[h].message.event = <<"cut", a>>
  BY <1>1, <1>2, BusyHandler DEF CutJob
<1>4. QED
  BY <1>1, <1>3 DEF Held

\* A clip is put by a handler that cuts.
LEMMA NoCutNoClip ==
    ASSUME Typed, Next, NEW a \in Assets, \A h \in Handlers : ~ClipJob(h, a)
    PROVE  clip'[a] = clip[a]
BY ClipSteps

LEMMA ClipJobIsCutJob ==
    ASSUME NEW a, NEW h, ClipJob(h, a)
    PROVE  CutJob(h, a)
BY DEF ClipJob, CutJob, HasClip, Cutting

\* Nothing begins to be cut but by a message that does it.
LEMMA NoCutStays ==
    ASSUME Typed, ReadyHasClip, Next, NEW a \in Assets, NoCut(a),
           outbox'[<<"cut", a>>] # "pending"
    PROVE  NoCut(a)'
<1>1. \A h \in Handlers : ~ClipJob(h, a)
  BY CutJobIsHeld, ClipJobIsCutJob DEF Typed, NoCut, Alive
<1>2. clip'[a] = NoClip
  BY <1>1, NoCutNoClip DEF NoCut
<1>3. ~Held(<<"cut", a>>)'
  BY HeldSteps DEF NoCut
<1>4. QED
  BY <1>2, <1>3 DEF NoCut, Alive

LEMMA CutBegins ==
    ASSUME Typed, ReadyHasClip, Next, NEW h \in Handlers, NEW a,
           CutJob(h, a)', ~CutJob(h, a)
    PROVE  \E m \in BagToSet(queue) :
             claim(h, m) /\ Claimable(m.event[2], m) /\ m.event[2] = a
<1>1. JobStep(h) /\ (job[h] # Idle => job[h] \in Job)
  BY JobSteps DEF Typed, JobsOK, FitJob
<1>2. job'[h] # job[h] /\ job'[h] # Idle
  BY DEF CutJob, Subject, Cutting, Idle
<1>3. ~(job[h] # Idle /\ job'[h] = [job[h] EXCEPT !.connected = FALSE])
  BY <1>1 DEF CutJob, Subject, Job
<1>4. ~Moved(h)
  BY <1>1 DEF Moved, CutJob, Subject, Job, callModel, upload, write, At, Cutting
<1>5. ~HasMade(h)
  BY <1>1 DEF HasMade, CutJob, Subject, Job, recoverCanonical, materialize, At, Cutting
<1>6. PICK m \in BagToSet(queue), i \in Nat : \E phase : StartedOn(h, m, phase, i)
  BY <1>1, <1>2, <1>3, <1>4, <1>5 DEF JobStep, Started
<1>7. QED
  BY <1>6 DEF StartedOn, CutJob, Subject, Cutting

LEMMA NextUncut ==
    ASSUME Typed, Typed', ReadyHasClip, Uncut, Next, NEW a \in Assets
    PROVE  UncutAsset(a)'
<1> asset[a] \in Asset /\ AssetStep(a) /\ UncutAsset(a)
  BY AssetSteps DEF Typed, RowsOK, Uncut
<1>1. ASSUME asset'[a].generation = "none" PROVE asset[a].generation = "none"
  <2>1. asset'[a] = asset[a] \/ Reported(a) \/ MadeCurrent(a)
    BY <1>1, NoneNeverAgain
  <2>2. QED
    BY <1>1, <2>1 DEF Reported, MadeCurrent, Asset
<1>2. ASSUME refinement'[a] \in Opened
      PROVE  \/ refinement[a] \in Opened
             \/ /\ asset[a].generation = "none" /\ asset'[a].generation = "queued"
                /\ refinement'[a] # refinement[a]
  BY <1>2, RefinementSteps
<1>3. asset'[a].generation = "none" => refinement'[a] = "none"
  <2> SUFFICES ASSUME asset'[a].generation = "none" PROVE refinement'[a] = "none"
    OBVIOUS
  <2>1. refinement[a] = "none"
    BY <1>1 DEF UncutAsset
  <2>2. QED
    BY <2>1, RefinementSteps DEF Opened
<1>4. refinement'[a] \in Opened => asset'[a].generation = "queued"
  <2> SUFFICES ASSUME refinement'[a] \in Opened, refinement[a] \in Opened
               PROVE  asset'[a].generation = "queued"
    BY <1>2
  <2>1. asset[a].generation = "queued" /\ NoCut(a)
    BY DEF UncutAsset
  <2>2. ~Claimed(a)
    <3> SUFFICES ASSUME NEW h \in Handlers, NEW m \in BagToSet(queue), claim(h, m),
                        m.event[2] = a
                 PROVE  FALSE
      BY DEF Claimed
    <3>1. m.event = <<"cut", a>>
      BY EventOfAsset DEF claim, Typed, QueueOK, Messages
    <3>2. QED
      BY <2>1, <3>1 DEF NoCut, Alive, Held
  <2>3. ~Bounded(a)
    BY DEF Bounded, Opened
  <2>4. QED
    BY <2>1, <2>2, <2>3 DEF AssetStep, MadeOfTask, GivenUp, Finalized, Reported, MadeCurrent,
                            Retried, Asset
<1>5. asset'[a].generation = "none" \/ refinement'[a] \in Opened => NoCut(a)'
  <2> SUFFICES ASSUME asset'[a].generation = "none" \/ refinement'[a] \in Opened
               PROVE  NoCut(a)'
    OBVIOUS
  <2>1. NoCut(a)
    BY <1>1, <1>2 DEF UncutAsset
  <2>2. ASSUME outbox'[<<"cut", a>>] = "pending" PROVE FALSE
    <3>1. /\ asset'[a].generation = "queued"
          /\ \/ MadeOfTask(a) /\ refinement'[a] = refinement[a]
             \/ Bounded(a) \/ Retried(a)
      BY <2>1, <2>2, CutSteps DEF NoCut, Alive
    <3>2. refinement'[a] \in Opened
      BY <3>1
    <3>3. QED
      BY <1>2, <3>1, <3>2 DEF UncutAsset, MadeOfTask, Bounded, Retried, Opened
  <2>3. QED
    BY <2>1, <2>2, NoCutStays
<1>6. ASSUME AllowedSkip(a)'
      PROVE  /\ clip[a] = NoClip /\ \A h \in Handlers : ~CutJob(h, a)
  <2>1. CASE AllowedSkip(a)
    BY <2>1 DEF UncutAsset, AllowedSkip
  <2>2. CASE ~AllowedSkip(a)
    <3>1. MadeOfTask(a) \/ Bounded(a)
      BY <1>6, <2>2 DEF AllowedSkip, AssetStep, Claimed, GivenUp, Finalized, Reported,
                        MadeCurrent, Retried, Asset
    <3>2. asset[a].generation = "none" \/ refinement[a] \in Opened
      BY <3>1 DEF MadeOfTask, Bounded, Opened
    <3>3. NoCut(a)
      BY <3>2 DEF UncutAsset
    <3>4. QED
      BY <3>3, CutJobIsHeld DEF NoCut, Alive, Typed
  <2>3. QED
    BY <2>1, <2>2
<1>7. ASSUME AllowedSkip(a)', NEW h \in Handlers, CutJob(h, a)' PROVE FALSE
  <2>1. ~CutJob(h, a)
    BY <1>6, <1>7
  <2>2. \E m \in BagToSet(queue) : /\ claim(h, m) /\ Claimable(m.event[2], m) /\ m.event[2] = a
    BY <1>7, <2>1, CutBegins
  <2>3. PICK m \in BagToSet(queue) : claim(h, m) /\ Claimable(a, m) /\ m.event[2] = a
    BY <2>2
  <2>4. asset'[a].generation = "processing"
    BY <2>3 DEF claim, Asset, Typed, RowsOK
  <2>5. QED
    BY <1>7, <2>4 DEF AllowedSkip
<1>8. AllowedSkip(a)' => clip'[a] = NoClip
  BY <1>6, NoCutNoClip, ClipJobIsCutJob
<1>9. QED
  BY <1>3, <1>4, <1>5, <1>7, <1>8 DEF UncutAsset

\* An asset has its clip and JSON; or it has no clip, and nobody is to give it one:
\* it was skipped, or retried by an administrator without its source.
AssetDone(a) ==
    \/ Ready(a) /\ clip[a] # NoClip /\ CurrentRevision(a)
    \/ /\ AllowedSkip(a) \/ asset[a].retried
       /\ asset[a].generation \notin {"none", "ready"}
       /\ clip[a] = NoClip /\ \A h \in Handlers : ~ClipJob(h, a)
RunDone(r) == /\ \E a \in AssetsOf(r) : Ready(a)
              /\ \A a \in AssetsOf(r) : AssetDone(a)
SourceGone == ~original => \E r \in Runs : RunDone(r)

\* Without the original nothing gets a clip that has none.
LEMMA NoClipBegins ==
    ASSUME Typed, ReadyHasClip, Next, NEW a \in Assets, ~original, clip[a] = NoClip,
           NEW h \in Handlers, ClipJob(h, a)'
    PROVE  ClipJob(h, a)
<1> SUFFICES ASSUME ~ClipJob(h, a) PROVE FALSE
  OBVIOUS
<1>1. JobStep(h) /\ (job[h] # Idle => job[h] \in Job)
  BY JobSteps DEF Typed, JobsOK, FitJob
<1>2. job'[h] # job[h] /\ job'[h] # Idle
  BY DEF ClipJob, Subject, HasClip, Idle
<1>3. ~(job[h] # Idle /\ job'[h] = [job[h] EXCEPT !.connected = FALSE])
  BY <1>1 DEF ClipJob, Subject, Job
<1>4. ~Moved(h)
  BY <1>1 DEF Moved, ClipJob, Subject, Job, callModel, upload, write, At, HasClip
<1>5. ~HasMade(h)
  BY <1>1 DEF HasMade, ClipJob, Subject, Job, recoverCanonical, materialize, SourceThere
<1>6. ~Started(h)
  <2> SUFFICES ASSUME NEW m, NEW i, NEW phase, StartedOn(h, m, phase, i) PROVE FALSE
    BY DEF Started
  <2>1. job'[h].phase \in {"calling", "cutting", "writing"}
    BY DEF StartedOn
  <2>2. QED
    BY <2>1 DEF ClipJob, HasClip
<1>7. QED
  BY <1>1, <1>2, <1>3, <1>4, <1>5, <1>6 DEF JobStep

\* A clip that is ready stays so, with its JSON.
LEMMA ReadyStays ==
    ASSUME Typed, ReadyHasClip, Reserved, Uncut, Next, NEW a \in Assets, Ready(a)
    PROVE  /\ Ready(a)'
           /\ CurrentRevision(a) => CurrentRevision(a)'
<1> asset[a] \in Asset /\ AssetStep(a)
  BY AssetSteps DEF Typed, RowsOK
<1>1. ~Bounded(a)
  BY DEF Bounded, Uncut, UncutAsset, Opened, Ready
<1>2. asset'[a] = asset[a] \/ Reported(a) \/ MadeCurrent(a)
  BY <1>1 DEF AssetStep, MadeOfTask, Claimed, GivenUp, Finalized, Retried, Ready
<1>3. Ready(a)'
  BY <1>2 DEF Reported, MadeCurrent, Asset, Ready
<1>4. CASE MadeCurrent(a)
  BY <1>3, <1>4, MadeCurrentPaired
<1>5. CASE asset'[a] = asset[a] \/ Reported(a)
  <2>1. asset'[a].current = asset[a].current /\ asset'[a].sha = asset[a].sha
    BY <1>5 DEF Reported, Asset
  <2>2. QED
    BY <1>3, <2>1, PairStays
<1>6. QED
  BY <1>2, <1>4, <1>5

LEMMA DoneStays ==
    ASSUME Typed, ReadyHasClip, Reserved, Uncut, Next, NEW a \in Assets, ~original, AssetDone(a)
    PROVE  AssetDone(a)'
<1> asset[a] \in Asset /\ AssetStep(a)
  BY AssetSteps DEF Typed, RowsOK
<1>1. CASE Ready(a) /\ clip[a] # NoClip /\ CurrentRevision(a)
  <2>1. Ready(a)' /\ CurrentRevision(a)'
    BY <1>1, ReadyStays
  <2>2. clip'[a] # NoClip
    BY <1>1, ClipSteps DEF Clips, NoClip
  <2>3. QED
    BY <2>1, <2>2 DEF AssetDone
<1>2. CASE /\ AllowedSkip(a) \/ asset[a].retried
           /\ asset[a].generation \notin {"none", "ready"}
           /\ clip[a] = NoClip /\ \A h \in Handlers : ~ClipJob(h, a)
  <2>1. clip'[a] = NoClip /\ \A h \in Handlers : ~ClipJob(h, a)'
    BY <1>2, NoCutNoClip, NoClipBegins
  <2>2. ~Finalized(a)
    <3> SUFFICES ASSUME NEW h \in Handlers, finalize(h), Subject(h) = a PROVE FALSE
      BY DEF Finalized
    <3>1. QED
      BY <1>2 DEF finalize, At, ClipJob, HasClip
  <2>3. ~MadeOfTask(a) /\ ~MadeCurrent(a)
    BY <1>2 DEF MadeOfTask, MadeCurrent, Ready
  <2>4. AllowedSkip(a) => ~Bounded(a)
    BY DEF Bounded, Uncut, UncutAsset, Opened, AllowedSkip
  <2>5. AllowedSkip(a)' \/ asset'[a].retried
    BY <1>2, <2>2, <2>3, <2>4 DEF AssetStep, Bounded, Claimed, GivenUp, Reported, Retried,
                                  AllowedSkip, Asset
  <2>6. asset'[a].generation \notin {"none", "ready"}
    BY <1>2, <2>2, <2>3 DEF AssetStep, Bounded, Claimed, GivenUp, Reported, Retried, Asset
  <2>7. QED
    BY <2>1, <2>5, <2>6 DEF AssetDone
<1>3. QED
  BY <1>1, <1>2 DEF AssetDone

\* The original goes by the retention alone, and does not come back.
LEMMA OriginalSteps ==
    ASSUME Typed, Next, original' # original
    PROVE  original /\ \E m \in BagToSet(queue) : retain(m)
<1>1. CASE \E h \in Handlers : Handler(h)
  BY <1>1 DEF Handler, claimRefinement, claim, reserve, callModel, completeRefinement, skip,
       recoverCanonical, materialize, cutFails, upload, uploadFails, finalize, write, writeFails,
       publishJson, bucketVars
<1>2. CASE People
  BY <1>2 DEF People, autoAccept, reviewAccepts, reviewRejects, retryCut, retryJson, backfill,
       settle, bucketVars
<1>3. CASE Faults
  BY <1>3 DEF Faults, dies, losesChannel, handlerFails, diesAtOnce, deliveryFails, bucketVars
<1>4. CASE \/ \E e \in Events : publish(e)
           \/ \E m \in BagToSet(queue) : busy(m) \/ rejectPublication(m) \/ alreadyPublished(m)
  BY <1>4 DEF publish, busy, rejectPublication, alreadyPublished, bucketVars
<1>5. ASSUME NEW m \in BagToSet(queue), retain(m) PROVE original
  BY <1>5 DEF retain, deletionFails, archivingFails, Typed, OthersOK
<1>6. QED
  BY <1>1, <1>2, <1>3, <1>4, <1>5 DEF Next, System, Delivery

LEMMA Released ==
    ASSUME Typed, ReadyHasClip, Uncut, Next, original' # original
    PROVE  \E r \in Runs : RunDone(r)'
<1>1. PICK m \in BagToSet(queue) : retain(m)
  BY OriginalSteps
<1>2. ~Kept /\ \A r \in Formal : Releasable(r)
  BY <1>1 DEF retain
<1>3. PICK r \in Formal : TRUE
  <2>1. Cardinality(Formal) = 1
    BY <1>2 DEF Kept
  <2>2. QED
    BY <2>1, FS_EmptySet
<1>4. /\ ~Awaits(r) /\ Releasable(r)
      /\ \E a \in AssetsOf(r) : Ready(a)
  BY <1>2, <1>3 DEF Kept, Releasable
<1>5. UNCHANGED <<asset, revisions, clip, json, job>>
  BY <1>1 DEF retain, deletionFails, archivingFails, Drop, RetryDelivered
<1>6. ASSUME NEW a \in AssetsOf(r) PROVE AssetDone(a)
  <2>1. a \in Assets
    BY DEF AssetsOf
  <2>2. CASE Ready(a)
    <3>1. clip[a] = asset[a].sha /\ CurrentRevision(a)
      BY <1>4, <2>2 DEF Releasable
    <3>2. clip[a] # NoClip
      BY <2>1, <2>2, <3>1 DEF ReadyHasClip, Clips, NoClip
    <3>3. QED
      BY <2>2, <3>1, <3>2 DEF AssetDone
  <2>3. CASE ~Ready(a)
    <3>1. AllowedSkip(a)
      BY <1>4, <2>3 DEF Awaits
    <3>2. clip[a] = NoClip /\ \A h \in Handlers : ~ClipJob(h, a)
      BY <2>1, <3>1, ClipJobIsCutJob DEF Uncut, UncutAsset
    <3>3. QED
      BY <3>1, <3>2 DEF AssetDone, AllowedSkip
  <2>4. QED
    BY <2>2, <2>3
<1>7. r \in Runs
  BY <1>3 DEF Formal
<1>8. \A a : AssetDone(a)' = AssetDone(a) /\ Ready(a)' = Ready(a)
  BY <1>5 DEF AssetDone, Ready, AllowedSkip, CurrentRevision, IsPublished, ClipJob, Subject
<1>9. QED
  BY <1>4, <1>6, <1>7, <1>8 DEF RunDone, AssetsOf

Retention == Publication /\ Uncut /\ SourceGone

LEMMA NextRetention ==
    ASSUME Retention, Publication', Next
    PROVE  Retention'
<1> Typed /\ ReadyHasClip /\ Reserved /\ Typed' /\ Uncut /\ SourceGone
  BY DEF Retention, Publication
<1>1. Uncut'
  BY NextUncut DEF Uncut
<1>2. SourceGone'
  <2> SUFFICES ASSUME ~original' PROVE \E r \in Runs : RunDone(r)'
    BY DEF SourceGone
  <2>1. CASE original' # original
    BY <2>1, Released
  <2>2. CASE UNCHANGED original
    <3>1. PICK r \in Runs : RunDone(r)
      BY <2>2 DEF SourceGone
    <3>2. \A a \in AssetsOf(r) : a \in Assets /\ AssetDone(a)'
      BY <2>2, <3>1, DoneStays DEF RunDone, AssetsOf
    <3>3. \E a \in AssetsOf(r) : Ready(a)'
      BY <3>1, <3>2, ReadyStays DEF RunDone
    <3>4. QED
      BY <3>2, <3>3 DEF RunDone, AssetsOf
  <2>3. QED
    BY <2>1, <2>2
<1>3. QED
  BY <1>1, <1>2 DEF Retention

LEMMA InitRetention == Init => Retention
<1> SUFFICES ASSUME Init PROVE Retention
  OBVIOUS
<1>1. Publication
  BY InitPublication
<1>2. SourceGone
  BY DEF SourceGone, Init
<1>3. ASSUME NEW a \in Assets PROVE UncutAsset(a)
  <2>1. ~Alive(<<"cut", a>>)
    <3>1. <<"cut", a>> \in Events
      BY DEF Events
    <3>2. QED
      BY <3>1, EmptyQueue DEF Init, Alive, Held
  <2>2. QED
    BY <2>1 DEF UncutAsset, NoCut, Init, Opened, AllowedSkip, NewAsset
<1>4. QED
  BY <1>1, <1>2, <1>3 DEF Retention, Uncut

LEMMA StutterRetention ==
    ASSUME Retention, Publication', UNCHANGED vars
    PROVE  Retention'
<1>1. Uncut'
  BY DEF Retention, Uncut, UncutAsset, NoCut, Alive, Held, CutJob, Subject, AllowedSkip,
         vars, rowVars, bucketVars, brokerVars
<1>2. SourceGone'
  BY DEF Retention, SourceGone, RunDone, AssetsOf, AssetDone, AllowedSkip, Ready, ClipJob, Subject,
         CurrentRevision, IsPublished, vars, rowVars, bucketVars, brokerVars
<1>3. QED
  BY <1>1, <1>2 DEF Retention

LEMMA RetentionInvariant == Spec => []Retention
<1>1. Retention /\ [Next]_vars /\ Publication' => Retention'
  BY NextRetention, StutterRetention
<1>2. QED
  BY <1>1, InitRetention, PublicationInvariant, PTL DEF Spec

----------------------------------------------------------------------------
(* The clip at its key *)

Putting == {"finalizing", "recovering"}

\* A clip that is put stays at its key, whatever replaces it; only what is ready is
\* published.
Placed ==
    /\ \A a \in Assets : Ready(a) => clip[a] # NoClip
    /\ \A h \in Handlers : job[h].phase \in Putting => clip[Subject(h)] # NoClip
    /\ \A a \in Assets : asset[a].publication = "published" => Ready(a)

\* No clip is made but in the mode the plan prefers.
NoExact ==
    /\ \A a \in Assets : clip[a] # "exact" /\ asset[a].sha # "exact"
    /\ \A h \in Handlers : job[h] # Idle => job[h].made # "exact"

\* One handler at a time cuts a clip, for an asset that is being processed, and no
\* message is to take over from it: what it has put and what the row says agree.
Solo(a) ==
    /\ \A m \in BagToSet(queue) : m.event = <<"cut", a>> => ~Recovering(m)
    /\ \A h \in Handlers : CutJob(h, a) => asset[a].generation = "processing"
    /\ \A h, k \in Handlers : CutJob(h, a) /\ CutJob(k, a) => h = k
    /\ \A h \in Handlers : CutJob(h, a) /\ job[h].phase \in Putting => clip[a] = job[h].made
    /\ Ready(a) => clip[a] = asset[a].sha
Solos == \A a \in Assets : Solo(a)

\* To part a clip from its row takes two mishaps: one that sets a second handler to
\* work, and a transcode that fails, without which all clips are alike.
Calm == /\ disturbances = 0 => NoExact /\ Solos
        /\ disturbances = 1 => NoExact \/ Solos

\* The mishap that does not set a second handler to work.
ExactMade == \E h \in Handlers : materialize(h) /\ Made(h, "uploading", "exact") /\ Fault

LEMMA DisturbanceSteps ==
    ASSUME Typed, Next
    PROVE  disturbances' \in {disturbances, disturbances + 1}
<1>1. ASSUME UNCHANGED faultVars \/ Fault \/ Outage
      PROVE  disturbances' \in {disturbances, disturbances + 1}
  BY <1>1 DEF faultVars, Fault, Outage, Disturbed
<1>2. CASE \E h \in Handlers : Handler(h)
  <2>1. UNCHANGED faultVars \/ Fault
    BY <1>2 DEF Handler, claimRefinement, claim, reserve, callModel, completeRefinement, skip,
         recoverCanonical, materialize, cutFails, upload, uploadFails, finalize, write, writeFails,
         publishJson
  <2>2. QED
    BY <1>1, <2>1
<1>3. CASE People
  <2>1. UNCHANGED faultVars \/ Fault
    BY <1>3 DEF People, autoAccept, reviewAccepts, reviewRejects, retryCut, retryJson, backfill,
         settle
  <2>2. QED
    BY <1>1, <2>1
<1>4. CASE Faults
  <2>1. Fault \/ Outage
    BY <1>4 DEF Faults, dies, losesChannel, handlerFails, diesAtOnce, deliveryFails
  <2>2. QED
    BY <1>1, <2>1
<1>5. CASE \/ \E e \in Events : publish(e)
           \/ \E m \in BagToSet(queue) : Delivery(m)
  <2>1. UNCHANGED faultVars \/ Fault \/ Outage
    BY <1>5 DEF publish, Delivery, busy, rejectPublication, alreadyPublished, retain,
         deletionFails, archivingFails
  <2>2. QED
    BY <1>1, <2>1
<1>6. QED
  BY <1>2, <1>3, <1>4, <1>5 DEF Next, System

\* What a handler has made after a step: what it had, the clip that it found, a new
\* one, or nothing yet.
LEMMA MadeSteps ==
    ASSUME Typed, ReadyHasClip, Next, NEW h \in Handlers, job'[h] # Idle
    PROVE  \/ /\ job[h] # Idle /\ job'[h].made = job[h].made /\ Subject(h)' = Subject(h)
              /\ job'[h].phase = job[h].phase
           \/ /\ job[h] # Idle /\ job'[h].made = job[h].made /\ Subject(h)' = Subject(h)
              /\ \/ upload(h) /\ job'[h].phase = "finalizing"
                 \/ job'[h].phase \notin HasClip
           \/ /\ recoverCanonical(h) /\ Subject(h)' = Subject(h)
              /\ job'[h].made = clip[Subject(h)]
           \/ materialize(h) /\ job'[h].phase = "uploading"
           \/ job'[h].made = NoClip /\ job'[h].phase \notin HasClip
<1>1. JobStep(h) /\ (job[h] # Idle => job[h] \in Job) /\ JobsOK
  BY JobSteps DEF Typed, JobsOK, FitJob
<1>2. CASE job'[h] = job[h]
  BY <1>2 DEF Subject
<1>3. CASE job[h] # Idle /\ job'[h] = [job[h] EXCEPT !.connected = FALSE]
  BY <1>1, <1>3 DEF Subject, Job
<1>4. CASE Moved(h)
  <2>1. PICK phase : /\ job'[h] = [job[h] EXCEPT !.phase = phase]
                     /\ \/ callModel(h) /\ phase = "answered"
                        \/ upload(h) /\ phase = "finalizing"
                        \/ write(h) /\ phase = "publishing"
    BY <1>4 DEF Moved
  <2>2. job[h] \in Job /\ job[h] # Idle
    BY <1>1, <1>4 DEF Moved
  <2>3. /\ job'[h].phase = phase /\ job'[h].made = job[h].made
        /\ job'[h].message = job[h].message
    BY <2>1, <2>2 DEF Job
  <2>4. QED
    BY <2>1, <2>2, <2>3 DEF Subject, HasClip
<1>5. CASE HasMade(h)
  <2>1. PICK phase, c : /\ job'[h] = [job[h] EXCEPT !.phase = phase, !.made = c]
                        /\ \/ recoverCanonical(h) /\ phase = "recovering"
                           \/ materialize(h) /\ phase = "uploading"
    BY <1>5 DEF HasMade
  <2>2. job[h] \in Job
    BY <1>1, <1>5 DEF HasMade
  <2>3. job'[h].phase = phase /\ job'[h].message = job[h].message
    BY <2>1, <2>2 DEF Job
  <2>4. recoverCanonical(h) => job'[h].made = clip[Subject(h)]
    <3> SUFFICES ASSUME recoverCanonical(h) PROVE job'[h].made = clip[Subject(h)]
      OBVIOUS
    <3> DEFINE v == clip[Subject(h)]
    <3>1. job' = [job EXCEPT ![h].phase = "recovering", ![h].made = v]
      BY DEF recoverCanonical, Made
    <3> HIDE DEF v
    <3>2. job'[h] = [job[h] EXCEPT !.phase = "recovering", !.made = v]
      BY <1>1, <3>1 DEF JobsOK
    <3>3. job'[h].made = v
      BY <2>2, <3>2 DEF Job
    <3>4. QED
      BY <3>3 DEF v
  <2>5. QED
    BY <2>1, <2>3, <2>4 DEF Subject
<1>6. CASE Started(h)
  <2>1. PICK m, i, phase : StartedOn(h, m, phase, i)
    BY <1>6 DEF Started
  <2>2. job'[h].made = NoClip /\ job'[h].phase \in {"calling", "cutting", "writing"}
    BY <2>1 DEF StartedOn
  <2>3. QED
    BY <2>2 DEF HasClip
<1>7. QED
  BY <1>1, <1>2, <1>3, <1>4, <1>5, <1>6 DEF JobStep

LEMMA NextPlaced ==
    ASSUME Typed, ReadyHasClip, Reserved, Uncut, Placed, Next
    PROVE  Placed'
<1>1. \A a \in Assets : clip[a] # NoClip => clip'[a] # NoClip
  BY ClipSteps DEF Clips, NoClip
<1>2. ASSUME NEW h \in Handlers, job'[h].phase \in Putting PROVE clip'[Subject(h)'] # NoClip
  <2>1. job'[h] # Idle /\ job'[h].phase \in HasClip
    BY <1>2 DEF Idle, Putting, HasClip
  <2>2. CASE /\ job[h] # Idle /\ Subject(h)' = Subject(h) /\ job'[h].phase = job[h].phase
    <3>1. clip[Subject(h)] # NoClip /\ Subject(h) \in Assets
      BY <1>2, <2>2, BusyHandler DEF Placed, Typed
    <3>2. QED
      BY <1>1, <2>2, <3>1
  <2>3. CASE upload(h) /\ Subject(h)' = Subject(h)
    <3>1. job[h] \in FitJob /\ job[h].phase = "uploading" /\ Subject(h) \in Assets
      BY <2>3, PhaseIsBusy, BusyHandler DEF upload, Typed
    <3>2. clip'[Subject(h)] = job[h].made
      BY <2>3, <3>1 DEF upload, Uploaded, Typed, OthersOK
    <3>3. job[h].made \in Clips
      BY <3>1 DEF FitJob, HasClip
    <3>4. QED
      BY <2>3, <3>2, <3>3 DEF Clips, NoClip
  <2>4. CASE recoverCanonical(h) /\ Subject(h)' = Subject(h)
    <3>1. clip[Subject(h)] # NoClip /\ Subject(h) \in Assets
      BY <2>4, PhaseIsBusy, BusyHandler DEF recoverCanonical, Typed
    <3>2. QED
      BY <1>1, <2>4, <3>1
  <2>5. QED
    BY <1>2, <2>1, <2>2, <2>3, <2>4, MadeSteps DEF Putting
<1>3. ASSUME NEW a \in Assets, Ready(a)' PROVE clip'[a] # NoClip
  <2>1. CASE Ready(a)
    BY <1>1, <2>1 DEF Placed
  <2>2. CASE Finalized(a)
    <3>1. PICK h \in Handlers : finalize(h) /\ Subject(h) = a
      BY <2>2 DEF Finalized
    <3>2. job[h].phase \in Putting
      BY <3>1 DEF finalize, At, Putting
    <3>3. QED
      BY <1>1, <3>1, <3>2 DEF Placed
  <2>3. QED
    BY <1>3, <2>1, <2>2, ReadySteps
<1>4. ASSUME NEW a \in Assets, asset'[a].publication = "published" PROVE Ready(a)'
  <2>1. AssetStep(a) /\ asset[a] \in Asset
    BY AssetSteps DEF Typed, RowsOK
  <2>2. ~MadeOfTask(a)
    BY <1>4 DEF MadeOfTask, Published, NewAsset
  <2>3. asset[a].publication = "published" \/ MadeCurrent(a)
    BY <1>4, <2>1, <2>2 DEF AssetStep, Bounded, Claimed, GivenUp, Finalized, Reported, Retried,
                            Asset
  <2>4. Ready(a)
    BY <2>3 DEF Placed, MadeCurrent
  <2>5. QED
    BY <2>4, ReadyStays
<1>5. QED
  BY <1>2, <1>3, <1>4 DEF Placed

LEMMA NoExactStays ==
    ASSUME Typed, ReadyHasClip, NoExact, Next, ~ExactMade
    PROVE  NoExact'
<1>1. ASSUME NEW a \in Assets, clip'[a] = "exact" PROVE FALSE
  <2>1. PICK h \in Handlers : ClipJob(h, a) /\ job[h].made = "exact"
    BY <1>1, ClipSteps DEF NoExact
  <2>2. job[h] # Idle
    BY <2>1 DEF ClipJob, HasClip, Idle
  <2>3. QED
    BY <2>1, <2>2 DEF NoExact
<1>2. ASSUME NEW a \in Assets, asset'[a].sha = "exact" PROVE FALSE
  <2>1. AssetStep(a) /\ asset[a] \in Asset /\ asset[a].sha # "exact"
    BY AssetSteps DEF Typed, RowsOK, NoExact
  <2>2. ~MadeOfTask(a)
    BY <1>2 DEF MadeOfTask, Published, NewAsset, NoClip
  <2>3. Finalized(a)
    BY <1>2, <2>1, <2>2 DEF AssetStep, Bounded, Claimed, GivenUp, Reported, MadeCurrent, Retried,
                            Asset
  <2>4. PICK h \in Handlers : finalize(h) /\ asset'[a].sha = job[h].made
    BY <2>1, <2>3 DEF Finalized, Asset
  <2>5. job[h] # Idle
    BY <2>4, PhaseIsBusy DEF finalize, Typed
  <2>6. QED
    BY <1>2, <2>4, <2>5 DEF NoExact
<1>3. ASSUME NEW h \in Handlers, job'[h] # Idle, job'[h].made = "exact" PROVE FALSE
  <2>1. CASE job[h] # Idle /\ job'[h].made = job[h].made
    BY <1>3, <2>1 DEF NoExact
  <2>2. CASE recoverCanonical(h) /\ job'[h].made = clip[Subject(h)]
    <3>1. Subject(h) \in Assets
      BY <2>2, PhaseIsBusy, BusyHandler DEF recoverCanonical, Typed
    <3>2. QED
      BY <1>3, <2>2, <3>1 DEF NoExact
  <2>3. CASE materialize(h)
    <3>1. Made(h, "uploading", "preferred")
      BY <2>3 DEF materialize, ExactMade
    <3>2. job[h] \in Job
      BY <2>3, PhaseIsBusy DEF materialize, Typed, FitJob
    <3>3. job'[h] = [job[h] EXCEPT !.phase = "uploading", !.made = "preferred"]
      BY <3>1 DEF Made, Typed, JobsOK
    <3>4. QED
      BY <1>3, <3>2, <3>3 DEF Job
  <2>4. QED
    BY <1>3, <2>1, <2>2, <2>3, MadeSteps DEF NoClip
<1>4. QED
  BY <1>1, <1>2, <1>3 DEF NoExact

\* Only finalize sends the cutting of a clip again without a mishap: when the asset
\* is no longer being processed.
LEMMA QuietQueue ==
    ASSUME Typed, Next, UNCHANGED disturbances \/ ExactMade, NEW a \in Assets,
           NEW m \in BagToSet(queue)', m \notin BagToSet(queue),
           m.event = <<"cut", a>>, Recovering(m)
    PROVE  \E h \in Handlers : /\ finalize(h) /\ Subject(h) = a
                               /\ asset[a].generation # "processing"
<1> QueueOK /\ JobsOK /\ disturbances \in Nat
  BY DEF Typed, OthersOK
<1> DEFINE Result == \E h \in Handlers : /\ finalize(h) /\ Subject(h) = a
                                         /\ asset[a].generation # "processing"
<1>1. m.event[1] = "cut" /\ m.event[2] = a
  OBVIOUS
<1>2. ASSUME BagToSet(queue)' \subseteq BagToSet(queue) PROVE FALSE
  BY <1>2
<1>3. ~UNCHANGED queue
  BY <1>2
<1>4. UNCHANGED disturbances
  BY <1>3 DEF ExactMade, materialize
<1>5. ~Fault /\ ~Outage
  BY <1>4 DEF Fault, Outage, Disturbed
<1>6. ASSUME NEW n, Delivered(n) PROVE FALSE
  BY <1>2, <1>6, DeliveredOK
<1>7. ASSUME NEW h \in Handlers, job[h] # Idle, Retry(h)
      PROVE  /\ m = NextTry(job[h].message) /\ job[h].message.event = <<"cut", a>>
             /\ job[h].message \in Messages
  <2>1. job[h].message \in Messages
    BY <1>7, BusyHandler
  <2>2. /\ job[h].message.retry < RetryDelays
        /\ queue' = Sent(queue, NextTry(job[h].message))
    BY <1>3, <1>7 DEF Retry
  <2>3. m = NextTry(job[h].message)
    BY <2>2, SentIsABag DEF QueueOK
  <2>4. QED
    BY <2>1, <2>2, <2>3, NextTryIsMessage
<1>8. ASSUME NEW n, n.event[1] # "cut", RetryDelivered(n) PROVE FALSE
  <2>1. n \in Messages
    BY <1>8 DEF RetryDelivered, BagIn, QueueOK
  <2>2. IsABag(Taken(queue, n)) /\ BagToSet(Taken(queue, n)) \subseteq BagToSet(queue)
    BY TakenIsABag DEF QueueOK
  <2>3. CASE n.retry < RetryDelays
    <3>1. queue' = Sent(Taken(queue, n), NextTry(n)) /\ NextTry(n).event = n.event
      BY <1>8, <2>1, <2>3, NextTryIsMessage DEF RetryDelivered
    <3>2. BagToSet(queue)' = BagToSet(Taken(queue, n)) \cup {NextTry(n)}
      BY <2>2, <3>1, SentIsABag
    <3>3. m = NextTry(n)
      BY <2>2, <3>2
    <3>4. QED
      BY <1>1, <1>8, <3>1, <3>3
  <2>4. CASE ~(n.retry < RetryDelays)
    BY <1>2, <1>8, <2>2, <2>4 DEF RetryDelivered
  <2>5. QED
    BY <2>3, <2>4
<1> HIDE DEF Result
<1>9. ASSUME NEW e \in Events, publish(e) PROVE FALSE
  <2> DEFINE new == [event |-> e, retry |-> 0, redelivered |-> FALSE]
  <2>1. queue' = Sent(queue, new)
    BY <1>9 DEF publish
  <2>2. ~Recovering(new)
    BY DEF Recovering
  <2> HIDE DEF new
  <2>3. m = new
    BY <2>1, SentIsABag DEF QueueOK
  <2>4. QED
    BY <2>2, <2>3
<1>10. ASSUME NEW n \in BagToSet(queue), Delivery(n) PROVE FALSE
  <2>1. Delivered(n) \/ (RetryDelivered(n) /\ (n.event[1] = "json" \/ n.event = Retain))
    BY <1>5, <1>10 DEF Delivery, busy, rejectPublication, alreadyPublished, retain,
                       deletionFails, archivingFails, Drop
  <2>2. QED
    BY <1>6, <1>8, <2>1 DEF Retain
<1>11. ASSUME NEW h \in Handlers, NEW n \in BagToSet(queue),
              claimRefinement(h, n) \/ claim(h, n) \/ reserve(h, n)
       PROVE  FALSE
  <2>1. Delivered(n)
    BY <1>11 DEF claimRefinement, claim, reserve, Start, Drop
  <2>2. QED
    BY <1>6, <2>1
<1>12. ASSUME NEW h \in Handlers,
              \/ completeRefinement(h) \/ skip(h) \/ cutFails(h) \/ uploadFails(h)
              \/ publishJson(h) \/ callModel(h) \/ recoverCanonical(h) \/ materialize(h)
              \/ upload(h) \/ write(h)
       PROVE  FALSE
  BY <1>3, <1>5, <1>12 DEF completeRefinement, skip, cutFails, uploadFails, publishJson, callModel,
       recoverCanonical, materialize, upload, write, Acknowledge
<1>13. ASSUME NEW h \in Handlers, writeFails(h) PROVE FALSE
  <2>1. job[h] # Idle /\ job[h] \in FitJob /\ job[h].phase = "writing" /\ Retry(h)
    BY <1>13, PhaseIsBusy DEF writeFails
  <2>2. job[h].message.event[1] = "json"
    BY <2>1 DEF FitJob, Calling, Cutting
  <2>3. QED
    BY <1>7, <2>1, <2>2
<1>14. ASSUME NEW h \in Handlers, finalize(h) PROVE Result
  <2>1. job[h] # Idle
    BY <1>14, PhaseIsBusy DEF finalize
  <2>2. Retry(h) /\ asset[Subject(h)].generation # "processing"
    BY <1>3, <1>14 DEF finalize, Acknowledge
  <2>3. Subject(h) = a
    BY <1>7, <2>1, <2>2 DEF Subject
  <2>4. QED
    BY <1>14, <2>2, <2>3 DEF Result
<1>15. ~Faults
  BY <1>5 DEF Faults, dies, losesChannel, handlerFails, diesAtOnce, deliveryFails
<1>16. ~People
  BY <1>3 DEF People, autoAccept, reviewAccepts, reviewRejects, retryCut, retryJson, backfill,
              settle, brokerVars
<1>17. Result
  BY <1>9, <1>10, <1>11, <1>12, <1>13, <1>14, <1>15, <1>16 DEF Next, System, Handler
<1>18. QED
  BY <1>17 DEF Result

\* The handler that cuts stays the only one, as long as no mishap sets a second one
\* to work.
LEMMA CuttersAlone ==
    ASSUME Typed, ReadyHasClip, Uncut, Next, NEW a \in Assets, Solo(a)
    PROVE  /\ \A h \in Handlers : CutJob(h, a)' => asset'[a].generation = "processing"
           /\ \A h, k \in Handlers : CutJob(h, a)' /\ CutJob(k, a)' => h = k
<1> asset \in [Assets -> Asset] /\ asset[a] \in Asset /\ AssetStep(a) /\ JobsOK
  BY AssetSteps DEF Typed, RowsOK
<1>1. ASSUME NEW h \in Handlers, CutJob(h, a)', ~CutJob(h, a)
      PROVE  /\ asset'[a].generation = "processing"
             /\ \A k \in Handlers : ~CutJob(k, a) /\ (k # h => ~CutJob(k, a)')
  <2>1. PICK m \in BagToSet(queue) : claim(h, m) /\ Claimable(m.event[2], m) /\ m.event[2] = a
    BY <1>1, CutBegins
  <2>2. m.event = <<"cut", a>>
    BY <2>1, EventOfAsset DEF claim, Typed, QueueOK, Messages
  <2>3. asset[a].generation \in {"queued", "failed"}
    BY <2>1, <2>2 DEF Claimable, Solo
  <2>4. \A k \in Handlers : ~CutJob(k, a)
    BY <2>3 DEF Solo
  <2>5. /\ asset' = [asset EXCEPT ![a].generation = "processing", ![a].code = "none"]
        /\ Start(h, m, "cutting", 0)
    BY <2>1 DEF claim
  <2>6. \A k \in Handlers : k # h => job'[k] = job[k]
    BY <2>5 DEF Start
  <2>7. \A k \in Handlers : k # h => ~CutJob(k, a)'
    BY <2>4, <2>6 DEF CutJob, Subject
  <2>8. asset'[a].generation = "processing"
    BY <2>5 DEF Asset
  <2>9. QED
    BY <2>4, <2>7, <2>8
<1>2. ASSUME NEW h \in Handlers, CutJob(h, a)', CutJob(h, a)
      PROVE  asset'[a].generation = "processing"
  <2>1. asset[a].generation = "processing"
    BY <1>2 DEF Solo
  <2>2. ASSUME NEW k \in Handlers, CutJob(k, a), job' = [job EXCEPT ![k] = Idle] PROVE FALSE
    <3>1. k = h
      BY <1>2, <2>2 DEF Solo
    <3>2. job'[h] = Idle
      BY <2>2, <3>1 DEF JobsOK
    <3>3. QED
      BY <1>2, <3>2 DEF CutJob, Idle, Cutting
  <2>3. ~GivenUp(a)
    <3> SUFFICES ASSUME NEW k \in Handlers, skip(k) \/ cutFails(k) \/ uploadFails(k),
                        Subject(k) = a
                 PROVE  FALSE
      BY DEF GivenUp
    <3>1. CutJob(k, a)
      BY DEF skip, cutFails, uploadFails, At, CutJob, Cutting
    <3>2. job' = [job EXCEPT ![k] = Idle]
      BY DEF skip, cutFails, uploadFails, Acknowledge, Retry
    <3>3. QED
      BY <2>2, <3>1, <3>2
  <2>4. ~Finalized(a)
    <3> SUFFICES ASSUME NEW k \in Handlers, finalize(k), Subject(k) = a PROVE FALSE
      BY DEF Finalized
    <3>1. CutJob(k, a)
      BY DEF finalize, At, CutJob, Cutting
    <3>2. job' = [job EXCEPT ![k] = Idle]
      BY DEF finalize, Acknowledge, Retry
    <3>3. QED
      BY <2>2, <3>1, <3>2
  <2>5. ~Bounded(a)
    BY <2>1 DEF Bounded, Uncut, UncutAsset, Opened
  <2>6. QED
    BY <2>1, <2>3, <2>4, <2>5 DEF AssetStep, MadeOfTask, Claimed, Reported, MadeCurrent, Ready,
                                  Retried, Asset
<1>3. \A h \in Handlers : CutJob(h, a)' => asset'[a].generation = "processing"
  BY <1>1, <1>2
<1>4. ASSUME NEW h \in Handlers, NEW k \in Handlers, CutJob(h, a)', CutJob(k, a)' PROVE h = k
  <2>1. CASE CutJob(h, a) /\ CutJob(k, a)
    BY <2>1 DEF Solo
  <2>2. QED
    BY <1>1, <1>4, <2>1
<1>5. QED
  BY <1>3, <1>4

\* What the only handler has put is what is there.
LEMMA PutStands ==
    ASSUME Typed, ReadyHasClip, Next, NEW a \in Assets, Solo(a),
           NEW h \in Handlers, CutJob(h, a)', job'[h].phase \in Putting
    PROVE  clip'[a] = job'[h].made
<1> clip \in [Assets -> Clips \cup {NoClip}] /\ JobsOK
  BY DEF Typed, OthersOK
<1>1. job'[h] # Idle /\ job'[h].phase \in HasClip /\ Subject(h)' = a
  BY DEF Idle, Putting, HasClip, CutJob
<1>2. CASE /\ job[h] # Idle /\ job'[h].made = job[h].made /\ Subject(h)' = Subject(h)
           /\ job'[h].phase = job[h].phase
  <2>1. CutJob(h, a) /\ clip[a] = job[h].made
    BY <1>1, <1>2 DEF CutJob, Solo
  <2>2. CASE clip'[a] # clip[a]
    <3>1. PICK k \in Handlers : ClipJob(k, a) /\ clip'[a] = job[k].made
      BY <2>2, ClipSteps
    <3>2. k = h
      BY <2>1, <3>1, ClipJobIsCutJob DEF Solo
    <3>3. QED
      BY <1>2, <3>1, <3>2
  <2>3. QED
    BY <1>2, <2>1, <2>2
<1>3. CASE upload(h) /\ job'[h].made = job[h].made /\ Subject(h)' = Subject(h)
  BY <1>1, <1>3 DEF upload, Uploaded
<1>4. CASE /\ recoverCanonical(h) /\ Subject(h)' = Subject(h)
           /\ job'[h].made = clip[Subject(h)]
  BY <1>1, <1>4 DEF recoverCanonical, bucketVars
<1>5. QED
  BY <1>1, <1>2, <1>3, <1>4, MadeSteps DEF Putting

LEMMA SoloStays ==
    ASSUME Typed, ReadyHasClip, Uncut, Next, NEW a \in Assets, Solo(a),
           UNCHANGED disturbances \/ ExactMade
    PROVE  Solo(a)'
<1>1. ASSUME NEW m \in BagToSet(queue)', m.event = <<"cut", a>>, Recovering(m) PROVE FALSE
  <2>1. m \notin BagToSet(queue)
    BY <1>1 DEF Solo
  <2>2. PICK h \in Handlers : finalize(h) /\ Subject(h) = a /\ asset[a].generation # "processing"
    BY <1>1, <2>1, QuietQueue
  <2>3. CutJob(h, a)
    BY <2>2 DEF finalize, At, CutJob, Cutting
  <2>4. QED
    BY <2>2, <2>3 DEF Solo
<1>2. ASSUME Ready(a)' PROVE clip'[a] = asset'[a].sha
  <2>1. CASE Ready(a) /\ asset'[a].sha = asset[a].sha
    <3>1. \A h \in Handlers : ~ClipJob(h, a)
      BY <2>1, ClipJobIsCutJob DEF Solo, Ready
    <3>2. clip'[a] = clip[a]
      BY <3>1, NoCutNoClip
    <3>3. QED
      BY <2>1, <3>2 DEF Solo
  <2>2. CASE Finalized(a)
    <3>1. PICK h \in Handlers : finalize(h) /\ Subject(h) = a /\ asset'[a].sha = job[h].made
      BY <2>2 DEF Finalized, Typed, RowsOK, Asset
    <3>2. CutJob(h, a) /\ job[h].phase \in Putting
      BY <3>1 DEF finalize, At, CutJob, Cutting, Putting
    <3>3. clip[a] = job[h].made /\ UNCHANGED clip
      BY <3>1, <3>2 DEF Solo, finalize, bucketVars
    <3>4. QED
      BY <3>1, <3>3
  <2>3. QED
    BY <1>2, <2>1, <2>2, ReadySteps
<1>3. \A m \in BagToSet(queue)' : m.event = <<"cut", a>> => ~Recovering(m)'
  BY <1>1 DEF Recovering
<1>4. \A h \in Handlers : CutJob(h, a)' /\ job'[h].phase \in Putting => clip'[a] = job'[h].made
  BY PutStands
<1>5. QED
  BY <1>2, <1>3, <1>4, CuttersAlone DEF Solo

LEMMA NextCalm ==
    ASSUME Typed, ReadyHasClip, Uncut, Calm, Next
    PROVE  Calm'
<1>1. disturbances \in Nat /\ disturbances' \in {disturbances, disturbances + 1}
  BY DisturbanceSteps DEF Typed, OthersOK
<1>2. ASSUME Solos, UNCHANGED disturbances \/ ExactMade PROVE Solos'
  BY <1>2, SoloStays DEF Solos
<1>3. ASSUME NoExact, ~ExactMade PROVE NoExact'
  BY <1>3, NoExactStays
<1>4. ExactMade => disturbances' = disturbances + 1
  BY DEF ExactMade, Fault, Disturbed
<1>5. CASE UNCHANGED disturbances
  <2>1. ~ExactMade
    BY <1>1, <1>4, <1>5
  <2>2. (NoExact => NoExact') /\ (Solos => Solos')
    BY <1>2, <1>3, <1>5, <2>1
  <2>3. QED
    BY <1>5, <2>2 DEF Calm
<1>6. CASE disturbances' = disturbances + 1
  <2>1. disturbances' # 0 /\ (disturbances' = 1 => disturbances = 0)
    BY <1>1, <1>6
  <2>2. disturbances = 0 => NoExact' \/ Solos'
    BY <1>2, <1>3 DEF Calm
  <2>3. QED
    BY <2>1, <2>2 DEF Calm
<1>7. QED
  BY <1>1, <1>5, <1>6

LEMMA ReadyClipStands ==
    ASSUME Typed, ReadyHasClip, Placed, Calm, NEW a \in Assets, Ready(a)
    PROVE  ClipStands(a)
<1>1. disturbances \in Nat
  BY DEF Typed, OthersOK
<1>2. CASE NoExact
  <2>1. clip[a] \in Clips \cup {NoClip} /\ clip[a] # NoClip /\ clip[a] # "exact"
    BY <1>2 DEF Typed, OthersOK, Placed, NoExact
  <2>2. asset[a].sha \in Clips /\ asset[a].sha # "exact"
    BY <1>2 DEF ReadyHasClip, NoExact
  <2>3. QED
    BY <2>1, <2>2 DEF ClipStands, Clips
<1>3. CASE Solos
  BY <1>3 DEF Solos, Solo, ClipStands
<1>4. CASE disturbances > 1
  BY <1>4 DEF ClipStands
<1>5. QED
  BY <1>1, <1>2, <1>3, <1>4 DEF Calm

Standing == Placed /\ Calm

LEMMA InitStanding == Init => Standing
<1> SUFFICES ASSUME Init PROVE Standing
  OBVIOUS
<1>1. \A a \in Assets : clip[a] = NoClip /\ asset[a] = NewAsset
  BY DEF Init
<1>2. \A h \in Handlers : job[h] = Idle
  BY DEF Init
<1>3. Placed
  BY <1>1, <1>2 DEF Placed, Ready, NewAsset, Putting, Idle
<1>4. NoExact
  BY <1>1, <1>2 DEF NoExact, NewAsset, NoClip
<1>5. BagToSet(queue) = {}
  BY EmptyQueue DEF Init
<1>6. Solos
  BY <1>1, <1>2, <1>5 DEF Solos, Solo, CutJob, Cutting, Idle, Ready, NewAsset
<1>7. QED
  BY <1>3, <1>4, <1>6 DEF Standing, Calm

LEMMA StandingInvariant == Spec => []Standing
<1>1. Retention /\ Standing /\ [Next]_vars => Standing'
  <2> SUFFICES ASSUME Retention, Standing, [Next]_vars PROVE Standing'
    OBVIOUS
  <2>1. CASE Next
    BY <2>1, NextPlaced, NextCalm DEF Standing, Retention, Publication
  <2>2. CASE UNCHANGED vars
    <3> USE DEF vars, rowVars, bucketVars, brokerVars, faultVars
    <3>1. Placed'
      BY <2>2 DEF Standing, Placed, Ready, Subject
    <3>2. NoExact' = NoExact
      BY <2>2 DEF NoExact
    <3>3. Solos' = Solos
      BY <2>2 DEF Solos, Solo, CutJob, Subject, Ready, Recovering
    <3>4. QED
      BY <2>2, <3>1, <3>2, <3>3 DEF Standing, Calm
  <2>3. QED
    BY <2>1, <2>2
<1>2. QED
  BY <1>1, InitStanding, RetentionInvariant, PTL DEF Spec

\* What is published for an asset is a current revision of the clip that its row
\* describes, with its file, in whatever order handlers overlap, are sent again, or
\* fail late; and until a second mishap that clip itself is at the asset's key. With
\* two, a late upload may replace it, which ClipStands says.
THEOREM PublishedInPairs == Spec => []PairedPublication
<1>1. Publication /\ Standing => PairedPublication
  <2> SUFFICES ASSUME Publication, Standing, NEW a \in Assets,
                      asset[a].publication = "published"
               PROVE  CurrentRevision(a) /\ ClipStands(a)
    BY DEF PairedPublication
  <2>1. CurrentRevision(a)
    BY DEF Publication, Paired
  <2>2. Ready(a)
    BY DEF Standing, Placed
  <2>3. QED
    BY <2>1, <2>2, ReadyClipStands DEF Publication, Standing
<1>2. QED
  BY <1>1, PublicationInvariant, StandingInvariant, PTL

\* The original video is deleted only when some run has a clip and its JSON for
\* every task that is to have them. No retry, redelivery or late attempt takes clip or
\* JSON away afterwards, nor, until a second mishap, puts another clip in its place.
THEOREM SourceIsKept == Spec => []SourceKept
<1>1. Retention /\ Standing => SourceKept
  <2> SUFFICES ASSUME Retention, Standing, ~original, NEW r \in Runs, RunDone(r)
               PROVE  ClipsRemain(r)
    BY DEF Retention, SourceGone, SourceKept
  <2>1. ASSUME NEW a \in AssetsOf(r), Ready(a) PROVE ClipStands(a)
    <3>1. a \in Assets
      BY DEF AssetsOf
    <3>2. QED
      BY <2>1, <3>1, ReadyClipStands DEF Retention, Publication, Standing
  <2>2. QED
    BY <2>1 DEF RunDone, AssetDone, ClipsRemain, Ready
<1>2. QED
  BY <1>1, RetentionInvariant, StandingInvariant, PTL

----------------------------------------------------------------------------
(* The video as VideoArchive tells it *)

\* A published revision has its file, and an administrator takes up only what has
\* been made.
Filed ==
    /\ \A a \in Assets : \A i \in DOMAIN revisions[a] : IsPublished(a, i) => i \in json[a]
    /\ \A a \in Assets : asset[a].generation = "none" => ~asset[a].retried

\* A step reserves the next number, or marks a revision that is not published.
Drafted(a) == /\ \E h \in Handlers, m \in BagToSet(queue) : reserve(h, m) /\ m.event[2] = a
              /\ Ready(a)
              /\ revisions' = [revisions EXCEPT ![a] = Append(revisions[a], NewRevision(a))]
Mark(a, i, status) == revisions' = [revisions EXCEPT ![a][i].status = status]
Marked(a) == \E i : \E status \in Statuses \ {"published"} :
                /\ ~IsPublished(a, i)
                /\ Mark(a, i, status)

LEMMA RevisionSteps ==
    ASSUME Typed, ReadyHasClip, Next
    PROVE  \/ UNCHANGED revisions
           \/ \E a \in Assets : Drafted(a) \/ Marked(a)
           \/ \E h \in Handlers : publishJson(h) /\ MadeCurrent(Subject(h)) /\ Subject(h) \in Assets
<1> DEFINE P == \/ UNCHANGED revisions
                \/ \E a \in Assets : Drafted(a) \/ Marked(a)
                \/ \E h \in Handlers : /\ publishJson(h) /\ MadeCurrent(Subject(h))
                                       /\ Subject(h) \in Assets
<1> SUFFICES P
  OBVIOUS
<1>1. ASSUME NEW h \in Handlers, Subject(h) \in Assets, recordFailure(h) PROVE P
  <2>1. \/ UNCHANGED revisions
        \/ /\ ~IsPublished(Subject(h), job[h].revision)
           /\ Mark(Subject(h), job[h].revision, "failed")
    BY <1>1 DEF recordFailure, FailRevision, Mark
  <2>2. "failed" \in Statuses \ {"published"}
    BY DEF Statuses
  <2>3. CASE UNCHANGED revisions
    BY <2>3
  <2>4. ASSUME ~IsPublished(Subject(h), job[h].revision),
               Mark(Subject(h), job[h].revision, "failed")
        PROVE  Marked(Subject(h))
    BY Zenon, <2>2, <2>4 DEF Marked
  <2>5. QED
    BY <1>1, <2>1, <2>3, <2>4
<1>2. ASSUME NEW h \in Handlers, NEW m \in BagToSet(queue), reserve(h, m) PROVE P
  <2>1. m.event[2] \in Assets
    BY <1>2, EventOfAsset DEF reserve, Typed, QueueOK, Messages
  <2>2. \/ UNCHANGED revisions
        \/ \E i : /\ ~IsPublished(m.event[2], i)
                  /\ Mark(m.event[2], i, "publishing")
        \/ /\ Ready(m.event[2])
           /\ revisions' = [revisions EXCEPT ![m.event[2]] =
                 Append(revisions[m.event[2]], NewRevision(m.event[2]))]
    BY <1>2 DEF reserve, WithNext, Mark
  <2> DEFINE a == m.event[2]
  <2>3. "publishing" \in Statuses \ {"published"}
    BY DEF Statuses
  <2>4. ASSUME NEW i, ~IsPublished(a, i),
               Mark(a, i, "publishing")
        PROVE  Marked(a)
    BY Zenon, <2>3, <2>4 DEF Marked
  <2>5. Ready(a) /\ revisions' = [revisions EXCEPT ![a] = Append(revisions[a], NewRevision(a))]
          => Drafted(a)
    BY <1>2 DEF Drafted
  <2>6. QED
    BY <2>1, <2>2, <2>4, <2>5
<1>3. ASSUME NEW h \in Handlers, writeFails(h) PROVE P
  <2>1. Subject(h) \in Assets
    BY <1>3, PhaseIsBusy, BusyHandler DEF writeFails, Typed
  <2>2. QED
    BY <1>1, <1>3, <2>1 DEF writeFails
<1>4. ASSUME NEW h \in Handlers, publishJson(h) PROVE P
  <2>1. Subject(h) \in Assets /\ asset \in [Assets -> Asset]
    BY <1>4, PhaseIsBusy, BusyHandler DEF publishJson, Typed, RowsOK
  <2>2. CASE recordFailure(h)
    BY <1>1, <2>1, <2>2
  <2>3. CASE /\ Accepted(Subject(h)) /\ Ready(Subject(h))
             /\ SameFingerprint(Subject(h), job[h].revision)
             /\ asset' = [asset EXCEPT ![Subject(h)].publication = "published",
                                       ![Subject(h)].current = job[h].revision]
    <3>1. asset'[Subject(h)] = [asset[Subject(h)] EXCEPT !.publication = "published",
                                                         !.current = job[h].revision]
      BY <2>1, <2>3
    <3>2. MadeCurrent(Subject(h))
      BY <1>4, <2>3, <3>1 DEF MadeCurrent
    <3>3. QED
      BY <1>4, <2>1, <3>2
  <2>4. QED
    BY <1>4, <2>2, <2>3 DEF publishJson
<1>5. ASSUME ~\E h \in Handlers : writeFails(h) \/ publishJson(h),
             ~\E h \in Handlers, m \in BagToSet(queue) : reserve(h, m)
      PROVE  UNCHANGED revisions
  <2>1. CASE \E h \in Handlers : Handler(h)
    BY <1>5, <2>1 DEF Handler, claimRefinement, claim, callModel, completeRefinement, skip,
         recoverCanonical, materialize, cutFails, upload, uploadFails, finalize, write, rowVars
  <2>2. CASE People
    BY <2>2 DEF People, autoAccept, reviewAccepts, reviewRejects, retryCut, retryJson,
         backfill, settle, rowVars
  <2>3. CASE Faults
    BY <2>3 DEF Faults, dies, losesChannel, handlerFails, diesAtOnce, deliveryFails, rowVars
  <2>4. CASE \/ \E e \in Events : publish(e)
             \/ \E m \in BagToSet(queue) : Delivery(m)
    BY <2>4 DEF publish, Delivery, busy, rejectPublication, alreadyPublished, retain, rowVars
  <2>5. QED
    BY <2>1, <2>2, <2>3, <2>4 DEF Next, System
<1>6. QED
  BY <1>2, <1>3, <1>4, <1>5

\* A revision is published by the handler that makes it current, and by no other.
PublishedBy(h, a) == publishJson(h) /\ Subject(h) = a /\ MadeCurrent(a)

LEMMA PublishingMarks ==
    ASSUME Typed, NEW a \in Assets, NEW h \in Handlers, PublishedBy(h, a)
    PROVE  /\ job[h].revision \in DOMAIN revisions[a]
           /\ revisions[a][job[h].revision].version = version[RunOf[a]]
           /\ revisions[a][job[h].revision].sha = asset[a].sha
           /\ Accepted(a) /\ Ready(a)
           /\ Mark(a, job[h].revision, "published")
           /\ asset' = [asset EXCEPT ![a].publication = "published", ![a].current = job[h].revision]
<1> asset \in [Assets -> Asset]
  BY DEF Typed, RowsOK
<1>1. asset'[a].publication = "published"
  BY DEF PublishedBy, MadeCurrent, Asset
<1>2. ~recordFailure(h)
  BY <1>1 DEF PublishedBy, recordFailure, Asset
<1>3. QED
  BY <1>2 DEF PublishedBy, publishJson, SameFingerprint, Current, Mark

LEMMA PublishedSteps ==
    ASSUME Typed, ReadyHasClip, Next, NEW a \in Assets, NEW i \in DOMAIN revisions'[a],
           IsPublished(a, i)'
    PROVE  \/ i \in DOMAIN revisions[a] /\ IsPublished(a, i)
           \/ \E h \in Handlers : PublishedBy(h, a) /\ i = job[h].revision
<1> revisions \in [Assets -> Seq(Revision)]
  BY DEF Typed, RowsOK
<1>1. CASE UNCHANGED revisions
  BY <1>1 DEF IsPublished
<1>2. ASSUME NEW b \in Assets, Drafted(b)
      PROVE  i \in DOMAIN revisions[a] /\ IsPublished(a, i)
  <2>1. NewRevision(b) \in Revision /\ NewRevision(b).status = "publishing"
    BY <1>2, NewRevisionOK DEF Drafted, Typed, ReadyHasClip, NewRevision
  <2>2. revisions'[a] = IF a = b THEN Append(revisions[a], NewRevision(a)) ELSE revisions[a]
    BY <1>2 DEF Drafted
  <2>3. QED
    BY <2>1, <2>2, AppendRevision DEF IsPublished
<1>3. ASSUME NEW b \in Assets, NEW k, NEW status \in Statuses,
             Mark(b, k, status)
      PROVE  \/ i \in DOMAIN revisions[a] /\ IsPublished(a, i)
             \/ a = b /\ i = k /\ status = "published"
  <2>1. CASE a # b
    BY <1>3, <2>1 DEF IsPublished, Mark
  <2>2. CASE a = b
    <3> DEFINE t == [revisions[a] EXCEPT ![k].status = status]
    <3>1. revisions'[a] = t
      BY <1>3, <2>2 DEF Mark
    <3>2. t = [revisions[a] EXCEPT ![k].status = status] /\ revisions[a] \in Seq(Revision)
      OBVIOUS
    <3> HIDE DEF t
    <3>3. /\ DOMAIN t = DOMAIN revisions[a]
          /\ \A n \in DOMAIN revisions[a] :
               t[n].status = IF n = k THEN status ELSE revisions[a][n].status
      BY <3>2, MarkRevision
    <3>4. QED
      BY <2>2, <3>1, <3>3 DEF IsPublished
  <2>3. QED
    BY <2>1, <2>2
<1>4. ASSUME NEW b \in Assets, Marked(b)
      PROVE  i \in DOMAIN revisions[a] /\ IsPublished(a, i)
  <2>1. PICK k : \E status \in Statuses \ {"published"} :
          Mark(b, k, status)
    BY <1>4 DEF Marked
  <2>2. QED
    BY <1>3, <2>1
<1>5. ASSUME NEW h \in Handlers, publishJson(h), MadeCurrent(Subject(h)), Subject(h) \in Assets
      PROVE  \/ i \in DOMAIN revisions[a] /\ IsPublished(a, i)
             \/ PublishedBy(h, a) /\ i = job[h].revision
  <2>1. PublishedBy(h, Subject(h))
    BY <1>5 DEF PublishedBy
  <2>2. Mark(Subject(h), job[h].revision, "published")
    <3>1. PICK b \in Assets : b = Subject(h)
      BY <1>5
    <3>2. PublishedBy(h, b)
      BY <2>1, <3>1
    <3>3. Mark(b, job[h].revision, "published")
      BY <3>2, PublishingMarks
    <3>4. QED
      BY <3>1, <3>3
  <2>3. "published" \in Statuses
    BY DEF Statuses
  <2>4. QED
    BY <1>3, <1>5, <2>1, <2>2, <2>3
<1>6. QED
  BY <1>1, <1>2, <1>4, <1>5, RevisionSteps

LEMMA NextFiled ==
    ASSUME Typed, ReadyHasClip, Reserved, Filed, Next
    PROVE  Filed'
<1>1. ASSUME NEW a \in Assets, NEW i \in DOMAIN revisions'[a], IsPublished(a, i)'
      PROVE  i \in json'[a]
  <2>1. json[a] \subseteq json'[a]
    BY FilesStay
  <2>2. CASE i \in DOMAIN revisions[a] /\ IsPublished(a, i)
    BY <2>1, <2>2 DEF Filed
  <2>3. ASSUME NEW h \in Handlers, PublishedBy(h, a), i = job[h].revision PROVE i \in json[a]
    BY <2>3 DEF PublishedBy, publishJson, Reserved
  <2>4. QED
    BY <1>1, <2>1, <2>2, <2>3, PublishedSteps
<1>2. ASSUME NEW a \in Assets, asset'[a].generation = "none" PROVE ~asset'[a].retried
  <2>1. asset[a] \in Asset
    BY DEF Typed, RowsOK
  <2>2. asset'[a] = asset[a] \/ Reported(a) \/ MadeCurrent(a)
    BY <1>2, NoneNeverAgain
  <2>3. asset'[a].retried = asset[a].retried /\ asset[a].generation = "none"
    BY <1>2, <2>1, <2>2 DEF Reported, MadeCurrent, Asset
  <2>4. QED
    BY <2>3 DEF Filed
<1>3. QED
  BY <1>1, <1>2 DEF Filed

\* What stands of the descriptions of an asset when none of them is published.
LEMMA ReadableStays ==
    ASSUME Typed, ReadyHasClip, Filed, Filed', Next, NEW a \in Assets,
           \A h \in Handlers : ~PublishedBy(h, a)
    PROVE  Readable(a)' = Readable(a) /\ Descriptions(a)' = Descriptions(a)
<1>1. Grows(a)
  BY RevisionsGrow
<1>2. Readable(a) = {i \in DOMAIN revisions[a] : IsPublished(a, i)}
  BY DEF Readable, Filed
<1>3. Readable(a)' = {i \in DOMAIN revisions'[a] : IsPublished(a, i)'}
  BY DEF Readable, Filed
<1>4. Readable(a)' \subseteq Readable(a)
  BY <1>2, <1>3, PublishedSteps
<1>5. Readable(a) \subseteq Readable(a)'
  BY <1>1, <1>2, <1>3 DEF Grows, IsPublished
<1>6. \A i \in Readable(a) : revisions'[a][i] = revisions[a][i]
  BY <1>1, <1>2 DEF Grows
<1>7. QED
  BY <1>4, <1>5, <1>6 DEF Descriptions

LEMMA LengthStays ==
    ASSUME Typed, ReadyHasClip, Next, NEW a \in Assets, ~Drafted(a)
    PROVE  Len(revisions'[a]) = Len(revisions[a])
<1> revisions \in [Assets -> Seq(Revision)]
  BY DEF Typed, RowsOK
<1>1. ASSUME NEW b \in Assets, NEW k, NEW status \in Statuses,
             Mark(b, k, status)
      PROVE  Len(revisions'[a]) = Len(revisions[a])
  <2> DEFINE t == [revisions[a] EXCEPT ![k].status = status]
  <2>1. revisions'[a] = revisions[a] \/ revisions'[a] = t
    BY <1>1 DEF Mark
  <2>2. t = [revisions[a] EXCEPT ![k].status = status] /\ revisions[a] \in Seq(Revision)
    OBVIOUS
  <2> HIDE DEF t
  <2>3. t \in Seq(Revision) /\ DOMAIN t = DOMAIN revisions[a]
    BY <2>2, MarkRevision
  <2>4. Len(t) = Len(revisions[a])
    BY <2>2, <2>3, LenProperties
  <2>5. QED
    BY <2>1, <2>4
<1>2. ASSUME NEW b \in Assets, Marked(b) PROVE Len(revisions'[a]) = Len(revisions[a])
  <2>1. PICK k : \E status \in Statuses \ {"published"} :
          Mark(b, k, status)
    BY <1>2 DEF Marked
  <2>2. QED
    BY <1>1, <2>1
<1>3. ASSUME NEW h \in Handlers, publishJson(h), MadeCurrent(Subject(h)), Subject(h) \in Assets
      PROVE  Len(revisions'[a]) = Len(revisions[a])
  <2>1. PICK b \in Assets : PublishedBy(h, b)
    BY <1>3 DEF PublishedBy
  <2>2. Mark(b, job[h].revision, "published")
    BY <2>1, PublishingMarks
  <2>3. "published" \in Statuses
    BY DEF Statuses
  <2>4. QED
    BY <1>1, <2>2, <2>3
<1>4. ASSUME NEW b \in Assets, Drafted(b) PROVE revisions'[a] = revisions[a]
  BY <1>4 DEF Drafted
<1>5. QED
  BY <1>2, <1>3, <1>4, RevisionSteps

\* What becomes of an asset in a step that does not publish its JSON.
FateStays(a) == Fate(a)' = Fate(a) /\ Footage(a)' = Footage(a)

FateStep(a) == \/ FateStays(a)
               \/ /\ Fate(a) \in {"open", "resumed"} /\ Fate(a)' = "waived"
                  /\ Footage(a)' = Footage(a)
               \/ /\ Fate(a) \in {"open", "resumed"} /\ Fate(a)' = "kept"
                  /\ Footage(a)' \in Clips
               \/ /\ Fate(a) \in {"open", "waived"} /\ Fate(a)' = "resumed"
                  /\ Footage(a)' = Footage(a)

LEMMA FateSteps ==
    ASSUME Typed, ReadyHasClip, Reserved, Uncut, Filed, Next, NEW a \in Assets,
           \A h \in Handlers : ~PublishedBy(h, a)
    PROVE  FateStep(a) /\ asset'[a].current = asset[a].current
<1> USE DEF Fate, Footage, Ready, AllowedSkip
<1> asset[a] \in Asset /\ AssetStep(a) /\ ~MadeCurrent(a)
  BY AssetSteps DEF Typed, RowsOK, PublishedBy, MadeCurrent
<1>1. CASE asset'[a] = asset[a]
  BY <1>1 DEF FateStep, FateStays
<1>2. CASE MadeOfTask(a)
  <2>1. PICK o \in Outcomes : asset'[a] = Published(o)
    BY <1>2 DEF MadeOfTask
  <2>2. /\ asset[a].generation = "none" /\ ~asset[a].retried /\ asset[a].current = 0
    BY <1>2 DEF MadeOfTask, Filed, Reserved
  <2>3. /\ asset'[a].generation \in {"queued", "skipped"} /\ asset'[a].retried = FALSE
        /\ asset'[a].current = 0
    BY <2>1 DEF Published, NewAsset
  <2>4. Fate(a) = "open" /\ Fate(a)' \in {"open", "waived"}
    BY <2>2, <2>3
  <2>5. Footage(a)' = NoClip /\ Footage(a) = NoClip
    BY <2>2, <2>3
  <2>6. QED
    BY <2>2, <2>3, <2>4, <2>5 DEF FateStep, FateStays
<1>3. CASE Bounded(a)
  <2>1. asset[a].generation = "queued"
    BY <1>3 DEF Bounded, Uncut, UncutAsset, Opened
  <2>2. /\ asset'[a].retried = asset[a].retried /\ asset'[a].current = asset[a].current
        /\ \/ asset'[a].generation = "queued"
           \/ asset'[a].generation = "skipped" /\ asset'[a].code \in {"allowed", "other"}
    BY <1>3 DEF Bounded, Asset
  <2>3. QED
    BY <2>1, <2>2 DEF FateStep, FateStays
<1>4. CASE Claimed(a)
  <2>1. /\ asset'[a].retried = asset[a].retried /\ asset'[a].current = asset[a].current
        /\ asset'[a].generation = "processing"
        /\ asset[a].generation \in {"queued", "failed", "processing"}
    BY <1>4 DEF Claimed, Asset
  <2>2. QED
    BY <2>1 DEF FateStep, FateStays
<1>5. CASE GivenUp(a)
  <2>1. /\ asset'[a].retried = asset[a].retried /\ asset'[a].current = asset[a].current
        /\ asset'[a].generation \in {"failed", "skipped"} /\ asset'[a].code = "other"
        /\ asset[a].generation = "processing"
    BY <1>5 DEF GivenUp, Asset
  <2>2. QED
    BY <2>1 DEF FateStep, FateStays
<1>6. CASE Finalized(a)
  <2>1. PICK h \in Handlers :
          /\ finalize(h)
          /\ asset'[a] = [asset[a] EXCEPT !.generation = "ready", !.sha = job[h].made,
                                          !.publication = "pending", !.code = "none"]
    BY <1>6 DEF Finalized
  <2>2. job[h] \in FitJob /\ job[h].phase \in HasClip
    BY <2>1, PhaseIsBusy DEF finalize, At, HasClip, Typed
  <2>3. job[h].made \in Clips
    BY <2>2 DEF FitJob
  <2>4. /\ asset'[a].current = asset[a].current /\ asset'[a].generation = "ready"
        /\ asset'[a].sha = job[h].made /\ asset[a].generation = "processing"
    BY <1>6, <2>1 DEF Finalized, Asset
  <2>5. QED
    BY <2>3, <2>4 DEF FateStep
<1>7. CASE Reported(a)
  <2>1. /\ asset'[a].retried = asset[a].retried /\ asset'[a].current = asset[a].current
        /\ asset'[a].generation = asset[a].generation /\ asset'[a].code = asset[a].code
        /\ asset'[a].sha = asset[a].sha
    BY <1>7 DEF Reported, Asset
  <2>2. QED
    BY <2>1 DEF FateStep, FateStays
<1>8. CASE Retried(a)
  <2>1. /\ asset'[a].retried = TRUE /\ asset'[a].current = asset[a].current
        /\ asset'[a].generation = "queued" /\ asset[a].generation \in {"failed", "skipped"}
    BY <1>8 DEF Retried, Asset
  <2>2. QED
    BY <2>1 DEF FateStep, FateStays
<1>9. QED
  BY <1>1, <1>2, <1>3, <1>4, <1>5, <1>6, <1>7, <1>8 DEF AssetStep

\* But for the publication of a run, a step is about one asset.
Only(b) == \A a \in Assets : a # b => asset'[a] = asset[a]

LEMMA OneAsset ==
    ASSUME Typed, Next, ~\E r \in Runs : autoAccept(r) \/ reviewAccepts(r)
    PROVE  UNCHANGED asset \/ \E b \in Assets : Only(b)
<1> asset \in [Assets -> Asset]
  BY DEF Typed, RowsOK
<1>1. ASSUME NEW b \in Assets, NEW v, asset' = [asset EXCEPT ![b] = v] PROVE Only(b)
  BY <1>1 DEF Only
<1>2. ASSUME NEW b \in Assets, Complete(b) PROVE Only(b)
  BY <1>2 DEF Complete, Only
<1>3. ASSUME NEW b, NEW status, GiveUp(b, status) PROVE UNCHANGED asset \/ (b \in Assets /\ Only(b))
  BY <1>3 DEF GiveUp, Only
<1>4. ASSUME NEW h \in Handlers, recordFailure(h)
      PROVE  UNCHANGED asset \/ (Subject(h) \in Assets /\ Only(Subject(h)))
  BY <1>4 DEF recordFailure, Only
<1>5. ASSUME NEW h \in Handlers, NEW m \in BagToSet(queue),
             claimRefinement(h, m) \/ claim(h, m) \/ reserve(h, m)
      PROVE  UNCHANGED asset \/ \E b \in Assets : Only(b)
  <2> DEFINE b == m.event[2]
  <2>1. b \in Assets
    BY <1>5, EventOfAsset DEF claimRefinement, claim, reserve, Typed, QueueOK, Messages
  <2>2. CASE claimRefinement(h, m)
    BY <1>2, <2>1, <2>2 DEF claimRefinement
  <2>3. CASE claim(h, m) \/ reserve(h, m)
    BY <2>1, <2>3 DEF claim, reserve, Only
  <2>4. QED
    BY <1>5, <2>2, <2>3
<1>6. ASSUME NEW h \in Handlers, completeRefinement(h)
      PROVE  UNCHANGED asset \/ \E b \in Assets : Only(b)
  <2>1. Subject(h) \in Assets
    BY <1>6, PhaseIsBusy, BusyHandler DEF completeRefinement, Typed
  <2>2. QED
    BY <1>2, <1>6, <2>1 DEF completeRefinement
<1>7. ASSUME NEW h \in Handlers, skip(h) \/ cutFails(h) \/ uploadFails(h) \/ writeFails(h)
      PROVE  UNCHANGED asset \/ \E b \in Assets : Only(b)
  BY <1>3, <1>4, <1>7 DEF skip, cutFails, uploadFails, writeFails
<1>8. ASSUME NEW h \in Handlers, finalize(h) \/ publishJson(h)
      PROVE  UNCHANGED asset \/ \E b \in Assets : Only(b)
  <2>1. Subject(h) \in Assets
    BY <1>8, PhaseIsBusy, BusyHandler DEF finalize, publishJson, Typed
  <2>2. CASE finalize(h)
    BY <2>1, <2>2 DEF finalize, Only
  <2>3. CASE publishJson(h)
    BY <1>4, <2>1, <2>3 DEF publishJson, Only
  <2>4. QED
    BY <1>8, <2>2, <2>3
<1>9. CASE \E h \in Handlers : Handler(h)
  BY <1>5, <1>6, <1>7, <1>8, <1>9 DEF Handler, callModel, recoverCanonical, materialize, upload,
       write, rowVars
<1>10. CASE People
  BY <1>10 DEF People, reviewRejects, retryCut, retryJson, backfill, settle, rowVars, Only
<1>11. CASE Faults
  BY <1>11 DEF Faults, dies, losesChannel, handlerFails, diesAtOnce, deliveryFails, rowVars
<1>12. CASE \/ \E e \in Events : publish(e)
            \/ \E m \in BagToSet(queue) : busy(m) \/ alreadyPublished(m) \/ retain(m)
  BY <1>12 DEF publish, busy, alreadyPublished, retain, rowVars
<1>13. ASSUME NEW m \in BagToSet(queue), rejectPublication(m)
       PROVE  UNCHANGED asset \/ \E b \in Assets : Only(b)
  BY <1>13, EventOfAsset DEF rejectPublication, Typed, QueueOK, Messages, Only
<1>14. QED
  BY <1>9, <1>10, <1>11, <1>12, <1>13 DEF Next, System, Delivery

\* The reviews are those of people.
LEMMA VersionSteps ==
    ASSUME Next, ~\E r \in Runs : reviewAccepts(r) \/ reviewRejects(r)
    PROVE  UNCHANGED version
<1>1. CASE \E h \in Handlers : Handler(h)
  BY <1>1 DEF Handler, claimRefinement, claim, reserve, callModel, completeRefinement, skip,
       recoverCanonical, materialize, cutFails, upload, uploadFails, finalize, write, writeFails,
       publishJson, rowVars
<1>2. CASE People
  BY <1>2 DEF People, autoAccept, retryCut, retryJson, backfill, settle, rowVars
<1>3. CASE Faults
  BY <1>3 DEF Faults, dies, losesChannel, handlerFails, diesAtOnce, deliveryFails, rowVars
<1>4. CASE \/ \E e \in Events : publish(e)
           \/ \E m \in BagToSet(queue) : Delivery(m)
  BY <1>4 DEF publish, Delivery, busy, rejectPublication, alreadyPublished, retain, rowVars
<1>5. QED
  BY <1>1, <1>2, <1>3, <1>4 DEF Next, System

\* A step in which no description is published and no number given out.
Silent == \A a \in Assets : /\ ~Drafted(a)
                            /\ \A h \in Handlers : ~PublishedBy(h, a)

LEMMA SilentFrame ==
    ASSUME Typed, ReadyHasClip, Reserved, Uncut, Filed, Filed', Next, Silent
    PROVE  /\ \A a \in Assets : FateStep(a)
           /\ [a \in Assets |-> Len(revisions[a])]' = [a \in Assets |-> Len(revisions[a])]
           /\ [a \in Assets |-> Descriptions(a)]' = [a \in Assets |-> Descriptions(a)]
           /\ [a \in Assets |-> asset[a].current]' = [a \in Assets |-> asset[a].current]
<1> USE DEF Silent
<1>1. \A a \in Assets : FateStep(a) /\ asset'[a].current = asset[a].current
  BY FateSteps
<1>2. \A a \in Assets : Len(revisions'[a]) = Len(revisions[a])
  BY LengthStays
<1>3. \A a \in Assets : Descriptions(a)' = Descriptions(a)
  BY ReadableStays
<1>4. QED
  BY <1>1, <1>2, <1>3

\* A step may waive some open tasks of one run, and change its review.
LEMMA Judged ==
    ASSUME Typed, ReadyHasClip, Reserved, Uncut, Filed, Filed', Next, Silent, UNCHANGED original,
           NEW r \in Runs, version' \in {version, [version EXCEPT ![r] = 1]},
           \A a \in Assets :
              \/ FateStays(a)
              \/ RunOf[a] = r /\ Fate(a)' = "waived"
    PROVE  \E S \in SUBSET Archive!TasksOf(r) : Archive!Judge(r, S)
<1> DEFINE S == {a \in Assets : RunOf[a] = r /\ ~FateStays(a)}
<1>1. \A a \in S : Fate(a) \in {"open", "resumed"} /\ Fate(a)' = "waived"
  BY SilentFrame DEF FateStep, FateStays
<1>2. \A a \in Assets : Fate(a)' = IF a \in S THEN "waived" ELSE Fate(a)
  BY <1>1 DEF FateStays
<1>3. \A a \in Assets : Footage(a)' = Footage(a)
  BY SilentFrame DEF FateStep, FateStays
<1>4. S \in SUBSET Archive!TasksOf(r)
  BY DEF Archive!TasksOf
<1> HIDE DEF S
<1>5. \A a \in S : a \in Assets
  BY <1>4 DEF Archive!TasksOf
<1>6. Archive!Judge(r, S)
  <2>1. \A a \in S : [x \in Assets |-> Fate(x)][a] \in {"open", "resumed"}
    BY <1>1, <1>5
  <2>2. [x \in Assets |-> Fate(x)]'
          = [t \in Assets |-> IF t \in S THEN "waived" ELSE [x \in Assets |-> Fate(x)][t]]
    BY <1>2
  <2>3. [x \in Assets |-> Footage(x)]' = [x \in Assets |-> Footage(x)]
    BY <1>3
  <2>4. QED
    BY <2>1, <2>2, <2>3, SilentFrame DEF Archive!Judge
<1>7. QED
  BY <1>4, <1>6

\* The publication of a run and its review judge it.
LEMMA ReviewsJudge ==
    ASSUME Typed, ReadyHasClip, Reserved, Uncut, Filed, Filed', Next, Silent, UNCHANGED original,
           NEW r \in Runs, autoAccept(r) \/ reviewAccepts(r) \/ reviewRejects(r)
    PROVE  \E S \in SUBSET Archive!TasksOf(r) : Archive!Judge(r, S)
<1>1. version' \in {version, [version EXCEPT ![r] = 1]}
  BY DEF autoAccept, reviewAccepts, reviewRejects
<1>2. ASSUME NEW a \in Assets, RunOf[a] # r PROVE asset'[a] = asset[a]
  BY <1>2 DEF autoAccept, reviewAccepts, reviewRejects, enqueueForPublishedRun, Typed, RowsOK
<1>3. ASSUME NEW a \in Assets, RunOf[a] = r, asset'[a] # asset[a] PROVE MadeOfTask(a)
  <2>1. enqueueForPublishedRun(r) /\ ~UNCHANGED asset
    BY <1>3 DEF autoAccept, reviewAccepts, reviewRejects
  <2>2. /\ asset[a].generation = "none"
        /\ \E outcome \in [AssetsOf(r) -> Outcomes] :
             asset' = [b \in Assets |-> IF RunOf[b] = r THEN Published(outcome[b]) ELSE asset[b]]
    BY <1>3, <2>1 DEF enqueueForPublishedRun, AssetsOf
  <2>3. a \in AssetsOf(r)
    BY <1>3 DEF AssetsOf
  <2>4. QED
    BY <1>3, <2>2, <2>3 DEF MadeOfTask
<1>4. ASSUME NEW a \in Assets, MadeOfTask(a) PROVE FateStays(a) \/ Fate(a)' = "waived"
  <2>1. FateStep(a)
    BY SilentFrame
  <2>2. asset[a].generation = "none" /\ asset[a].retried = FALSE
    BY <1>4 DEF MadeOfTask, Filed, Typed, RowsOK, Asset
  <2>3. asset'[a].generation \in {"queued", "skipped"} /\ asset'[a].retried = FALSE
    BY <1>4 DEF MadeOfTask, Published, NewAsset
  <2>4. Fate(a)' \in {"open", "waived"}
    BY <2>3 DEF Fate, Ready, AllowedSkip
  <2>5. QED
    BY <2>1, <2>4 DEF FateStep
<1>5. ASSUME NEW a \in Assets, asset'[a] = asset[a] PROVE FateStays(a)
  BY <1>5 DEF FateStays, Fate, Footage, Ready, AllowedSkip
<1>6. QED
  BY <1>1, <1>2, <1>3, <1>4, <1>5, Judged

\* The retention releases the original of a complete run.
LEMMA RetentionReleases ==
    ASSUME Typed, ReadyHasClip, Reserved, Uncut, Filed, Filed', Next, Silent, UNCHANGED version,
           NEW m \in BagToSet(queue), retain(m)
    PROVE  (\E r \in Runs : Archive!Release(r)) \/ UNCHANGED Archive!vars
<1>1. UNCHANGED asset
  BY DEF retain
<1>2. /\ [x \in Assets |-> Fate(x)]' = [x \in Assets |-> Fate(x)]
      /\ [x \in Assets |-> Footage(x)]' = [x \in Assets |-> Footage(x)]
  BY <1>1 DEF Fate, Footage, Ready, AllowedSkip
<1>3. CASE UNCHANGED original
  BY <1>2, <1>3, SilentFrame DEF Archive!vars
<1>4. CASE original' # original
  <2>1. /\ ~Kept /\ original' = FALSE
        /\ \A r \in Formal : Releasable(r)
    BY <1>4 DEF retain, deletionFails, archivingFails
  <2>2. PICK r \in Formal : TRUE
    <3>1. Cardinality(Formal) = 1
      BY <2>1 DEF Kept
    <3>2. QED
      BY <3>1, FS_EmptySet
  <2>3. /\ ~Awaits(r) /\ Releasable(r) /\ r \in Runs
        /\ \E a \in AssetsOf(r) : Ready(a)
    BY <2>1, <2>2 DEF Kept, Releasable, Formal
  <2>4. Archive!TasksOf(r) = AssetsOf(r)
    BY DEF Archive!TasksOf, AssetsOf
  <2>5. \E a \in AssetsOf(r) : [x \in Assets |-> Fate(x)][a] = "kept"
    BY <2>3 DEF Fate, AssetsOf
  <2>6. ASSUME NEW a \in AssetsOf(r)
        PROVE  \/ [x \in Assets |-> Fate(x)][a] = "waived"
               \/ [x \in Assets |-> Fate(x)][a] = "kept" /\ Archive!Described(a)
    <3>1. a \in Assets
      BY DEF AssetsOf
    <3>2. CASE ~Ready(a)
      <4>1. AllowedSkip(a)
        BY <2>3, <3>2 DEF Awaits
      <4>2. QED
        BY <3>1, <3>2, <4>1 DEF Fate
    <3>3. CASE Ready(a)
      <4>1. CurrentRevision(a)
        BY <2>3, <3>3 DEF Releasable
      <4>2. /\ asset[a].current \in Readable(a)
            /\ revisions[a][asset[a].current].sha = asset[a].sha
        BY <4>1 DEF CurrentRevision, Readable
      <4>3. /\ asset[a].current \in DOMAIN Descriptions(a)
            /\ Descriptions(a)[asset[a].current].sha = Footage(a)
        BY <3>3, <4>2 DEF Descriptions, Footage
      <4>4. Archive!Described(a)
        BY <3>1, <4>3 DEF Archive!Described
      <4>5. QED
        BY <3>1, <3>3, <4>4 DEF Fate
    <3>4. QED
      BY <3>2, <3>3
  <2>7. Archive!Release(r)
    BY <1>2, <2>1, <2>4, <2>5, <2>6, SilentFrame DEF Archive!Release
  <2>8. QED
    BY <2>3, <2>7
<1>5. QED
  BY <1>3, <1>4

\* The next number is given out.
LEMMA DraftReserves ==
    ASSUME Typed, ReadyHasClip, Reserved, Uncut, Filed, Filed', Next,
           NEW a \in Assets, Drafted(a)
    PROVE  Archive!Reserve(a)
<1>1. PICK h \in Handlers, m \in BagToSet(queue) : reserve(h, m) /\ m.event[2] = a
  BY DEF Drafted
<1>2. UNCHANGED <<version, original>> /\ ~\E k \in Handlers : publishJson(k)
  <2>1. UNCHANGED <<version, original>> /\ \E i : Start(h, m, "writing", i)
    BY <1>1 DEF reserve, bucketVars
  <2>2. job[h] = Idle /\ job'[h].phase = "writing"
    BY <2>1 DEF Start, Typed, JobsOK
  <2>3. ASSUME NEW k \in Handlers, publishJson(k) PROVE FALSE
    <3>1. At(k, "publishing") /\ job' = [job EXCEPT ![k] = Idle]
      BY <2>3 DEF publishJson, Acknowledge
    <3>2. k # h
      BY <2>2, <3>1 DEF At, Idle
    <3>3. QED
      BY <2>2, <3>1, <3>2 DEF Typed, JobsOK, Idle
  <2>4. QED
    BY <2>1, <2>3
<1>3. \A b \in Assets : asset'[b] = asset[b] \/ Reported(b)
  <2>1. \/ UNCHANGED asset
        \/ asset' = [asset EXCEPT ![a].publication = "publishing"]
    BY <1>1 DEF reserve
  <2>2. asset \in [Assets -> Asset] /\ "publishing" \in Publications \ {"published"}
    BY DEF Typed, RowsOK, Publications
  <2>3. \/ UNCHANGED asset
        \/ /\ asset'[a] = [asset[a] EXCEPT !.publication = "publishing"]
           /\ \A b \in Assets \ {a} : asset'[b] = asset[b]
    BY <2>1, <2>2
  <2>4. QED
    BY <2>2, <2>3 DEF Reported
<1>4. ASSUME NEW b \in Assets PROVE FateStays(b) /\ asset'[b].current = asset[b].current
  <2>1. asset[b] \in Asset
    BY DEF Typed, RowsOK
  <2>2. /\ asset'[b].generation = asset[b].generation /\ asset'[b].code = asset[b].code
        /\ asset'[b].sha = asset[b].sha /\ asset'[b].retried = asset[b].retried
        /\ asset'[b].current = asset[b].current
    BY <1>3, <2>1 DEF Reported, Asset
  <2>3. QED
    BY <2>2 DEF FateStays, Fate, Footage, Ready, AllowedSkip
<1>5. \A b \in Assets : Descriptions(b)' = Descriptions(b)
  BY <1>2, ReadableStays DEF PublishedBy
<1>6. /\ revisions \in [Assets -> Seq(Revision)] /\ NewRevision(a) \in Revision
      /\ revisions' = [revisions EXCEPT ![a] = Append(revisions[a], NewRevision(a))]
  BY NewRevisionOK DEF Drafted, Typed, RowsOK, ReadyHasClip
<1>7. ASSUME NEW b \in Assets
      PROVE  Len(revisions'[b]) = IF b = a THEN Len(revisions[b]) + 1 ELSE Len(revisions[b])
  BY <1>6, AppendRevision
<1>8. [x \in Assets |-> Fate(x)][a] = "kept"
  BY DEF Drafted, Fate
<1>9. /\ [x \in Assets |-> Fate(x)]' = [x \in Assets |-> Fate(x)]
      /\ [x \in Assets |-> Footage(x)]' = [x \in Assets |-> Footage(x)]
      /\ [x \in Assets |-> asset[x].current]' = [x \in Assets |-> asset[x].current]
      /\ [x \in Assets |-> Descriptions(x)]' = [x \in Assets |-> Descriptions(x)]
  BY <1>4, <1>5 DEF FateStays
<1>10. [x \in Assets |-> Len(revisions[x])]'
         = [[x \in Assets |-> Len(revisions[x])] EXCEPT ![a] = @ + 1]
  BY <1>7
<1>11. QED
  BY <1>2, <1>8, <1>9, <1>10 DEF Archive!Reserve

\* A publication publishes, under its number, what the review and the clip of that
\* moment make of the asset.
LEMMA PublishingPublishes ==
    ASSUME Typed, ReadyHasClip, Reserved, Uncut, Filed, Filed', Next,
           NEW a \in Assets, NEW h \in Handlers, PublishedBy(h, a)
    PROVE  \E i \in 1..[x \in Assets |-> Len(revisions[x])][a] : Archive!Publish(a, i)
<1>0. PICK i : i = job[h].revision
  OBVIOUS
<1> DEFINE d == [version |-> version[RunOf[a]], sha |-> asset[a].sha]
<1>1. /\ i \in DOMAIN revisions[a] /\ Ready(a)
      /\ revisions[a][i].version = version[RunOf[a]] /\ revisions[a][i].sha = asset[a].sha
      /\ Mark(a, i, "published")
      /\ asset' = [asset EXCEPT ![a].publication = "published", ![a].current = i]
  BY <1>0, PublishingMarks DEF Mark
<1>2. publishJson(h) /\ UNCHANGED <<version, original>>
  BY DEF PublishedBy, publishJson, bucketVars
<1>3. revisions \in [Assets -> Seq(Revision)] /\ asset \in [Assets -> Asset]
  BY DEF Typed, RowsOK
<1>4. \A b \in Assets : ~Drafted(b)
  <2> SUFFICES ASSUME NEW b \in Assets, Drafted(b) PROVE FALSE
    OBVIOUS
  <2>1. PICK k \in Handlers, m \in BagToSet(queue) : reserve(k, m)
    BY DEF Drafted
  <2>2. \E n : Start(k, m, "writing", n)
    BY <2>1 DEF reserve
  <2>3. job[k] = Idle /\ job'[k].phase = "writing"
    BY <2>2 DEF Start, Typed, JobsOK
  <2>4. job' = [job EXCEPT ![h] = Idle]
    BY <1>2 DEF publishJson, Acknowledge
  <2>5. job'[k] = Idle
    BY <2>3, <2>4 DEF Typed, JobsOK
  <2>6. QED
    BY <2>3, <2>5 DEF Idle
<1>5. \A b \in Assets : Len(revisions'[b]) = Len(revisions[b])
  BY <1>4, LengthStays
<1>6. ASSUME NEW b \in Assets
      PROVE  FateStays(b) /\ asset'[b].current = IF b = a THEN i ELSE asset[b].current
  <2>1. /\ asset'[b].generation = asset[b].generation /\ asset'[b].code = asset[b].code
        /\ asset'[b].sha = asset[b].sha /\ asset'[b].retried = asset[b].retried
        /\ asset'[b].current = IF b = a THEN i ELSE asset[b].current
    BY <1>1, <1>3 DEF Asset
  <2>2. QED
    BY <2>1 DEF FateStays, Fate, Footage, Ready, AllowedSkip
<1>7. \A b \in Assets \ {a} : Descriptions(b)' = Descriptions(b)
  <2> SUFFICES ASSUME NEW b \in Assets \ {a} PROVE Descriptions(b)' = Descriptions(b)
    OBVIOUS
  <2>1. revisions'[b] = revisions[b]
    BY <1>1, <1>3 DEF Mark
  <2>2. UNCHANGED json
    BY <1>2 DEF publishJson, bucketVars
  <2>3. QED
    BY <2>1, <2>2 DEF Descriptions, Readable, IsPublished
<1>8. /\ DOMAIN revisions'[a] = DOMAIN revisions[a]
      /\ \A k \in DOMAIN revisions[a] :
           /\ revisions'[a][k].version = revisions[a][k].version
           /\ revisions'[a][k].sha = revisions[a][k].sha
           /\ revisions'[a][k].status = IF k = i THEN "published" ELSE revisions[a][k].status
  <2> DEFINE t == [revisions[a] EXCEPT ![i].status = "published"]
  <2>1. revisions'[a] = t
    BY <1>1, <1>3 DEF Mark
  <2>2. /\ t = [revisions[a] EXCEPT ![i].status = "published"]
        /\ revisions[a] \in Seq(Revision) /\ "published" \in Statuses
    BY <1>3 DEF Statuses
  <2> HIDE DEF t
  <2>3. QED
    BY <2>1, <2>2, MarkRevision
<1>9. i \in json[a] /\ UNCHANGED json
  BY <1>0, <1>2 DEF PublishedBy, publishJson, Reserved, bucketVars
<1>10. Readable(a)' = Readable(a) \cup {i}
  BY <1>1, <1>8, <1>9 DEF Readable, IsPublished
<1>11. Descriptions(a)' = [k \in DOMAIN Descriptions(a) \cup {i} |->
                             IF k = i THEN d ELSE Descriptions(a)[k]]
  <2>1. \A k \in Readable(a) : k \in DOMAIN revisions[a]
    BY DEF Readable
  <2>2. DOMAIN Descriptions(a) = Readable(a)
    BY DEF Descriptions
  <2>3. QED
    BY <1>1, <1>8, <1>10, <2>1, <2>2 DEF Descriptions
<1>12. i \in DOMAIN Descriptions(a) => Descriptions(a)[i] = d
  BY <1>1 DEF Descriptions
<1>13. Archive!Description(a) = d
  BY <1>1 DEF Archive!Description, Footage
<1>14. i \in 1..[x \in Assets |-> Len(revisions[x])][a]
  <2>1. i \in 1..Len(revisions[a])
    BY <1>1, <1>3, LenProperties
  <2>2. QED
    BY <2>1
<1>15. /\ [x \in Assets |-> Fate(x)]' = [x \in Assets |-> Fate(x)]
       /\ [x \in Assets |-> Footage(x)]' = [x \in Assets |-> Footage(x)]
       /\ [x \in Assets |-> Len(revisions[x])]' = [x \in Assets |-> Len(revisions[x])]
       /\ [x \in Assets |-> asset[x].current]'
            = [[x \in Assets |-> asset[x].current] EXCEPT ![a] = i]
  BY <1>5, <1>6 DEF FateStays
<1>16. [x \in Assets |-> Descriptions(x)]'
         = [[x \in Assets |-> Descriptions(x)] EXCEPT ![a] =
              [k \in DOMAIN [x \in Assets |-> Descriptions(x)][a] \cup {i} |->
                 IF k = i THEN Archive!Description(a)
                          ELSE [x \in Assets |-> Descriptions(x)][a][k]]]
  BY <1>7, <1>11, <1>13
<1>17. [x \in Assets |-> Fate(x)][a] = "kept"
  BY <1>1 DEF Fate
<1>18. Archive!Publish(a, i)
  BY <1>2, <1>12, <1>13, <1>15, <1>16, <1>17 DEF Archive!Publish
<1>19. QED
  BY <1>14, <1>18

\* What a step does to one task, the others standing.
LEMMA OneTask ==
    ASSUME Typed, ReadyHasClip, Reserved, Uncut, Filed, Filed', Next, Silent,
           UNCHANGED <<version, original>>,
           NEW b \in Assets, Only(b)
    PROVE  [Archive!Next]_(Archive!vars)
<1>1. \A a \in Assets : a # b => FateStays(a)
  BY DEF Only, FateStays, Fate, Footage, Ready, AllowedSkip
<1>2. FateStep(b)
  BY SilentFrame
<1>3. CASE FateStays(b)
  <2>1. /\ [x \in Assets |-> Fate(x)]' = [x \in Assets |-> Fate(x)]
        /\ [x \in Assets |-> Footage(x)]' = [x \in Assets |-> Footage(x)]
    BY <1>1, <1>3 DEF FateStays
  <2>2. UNCHANGED Archive!vars
    BY <2>1, SilentFrame DEF Archive!vars
  <2>3. QED
    BY <2>2
<1>4. CASE Fate(b)' = "waived" /\ ~FateStays(b)
  <2>1. PICK r \in Runs : r = RunOf[b]
    BY TaskAssumption
  <2>2. \E S \in SUBSET Archive!TasksOf(r) : Archive!Judge(r, S)
    BY <1>1, <1>4, <2>1, Judged
  <2>3. QED
    BY <2>2 DEF Archive!Next
<1>5. CASE /\ Fate(b) \in {"open", "resumed"} /\ Fate(b)' = "kept"
           /\ Footage(b)' \in Clips
  <2>1. /\ [x \in Assets |-> Fate(x)][b] \in {"open", "resumed"}
        /\ [x \in Assets |-> Fate(x)]' = [[x \in Assets |-> Fate(x)] EXCEPT ![b] = "kept"]
    BY <1>1, <1>5 DEF FateStays
  <2>2. \E c \in Clips :
          [x \in Assets |-> Footage(x)]' = [[x \in Assets |-> Footage(x)] EXCEPT ![b] = c]
    <3>1. PICK c \in Clips : c = Footage(b)'
      BY <1>5
    <3>2. [x \in Assets |-> Footage(x)]' = [[x \in Assets |-> Footage(x)] EXCEPT ![b] = c]
      BY <1>1, <3>1 DEF FateStays
    <3>3. QED
      BY <3>2
  <2>3. Archive!Keep(b)
    BY <2>1, <2>2, SilentFrame DEF Archive!Keep
  <2>4. QED
    BY <2>3 DEF Archive!Next
<1>6. CASE /\ Fate(b) \in {"open", "waived"} /\ Fate(b)' = "resumed"
           /\ Footage(b)' = Footage(b)
  <2>1. /\ [x \in Assets |-> Fate(x)][b] \in {"open", "waived"}
        /\ [x \in Assets |-> Fate(x)]' = [[x \in Assets |-> Fate(x)] EXCEPT ![b] = "resumed"]
        /\ [x \in Assets |-> Footage(x)]' = [x \in Assets |-> Footage(x)]
    BY <1>1, <1>6 DEF FateStays
  <2>2. Archive!Resume(b)
    BY <2>1, SilentFrame DEF Archive!Resume
  <2>3. QED
    BY <2>2 DEF Archive!Next
<1>7. QED
  BY <1>2, <1>3, <1>4, <1>5, <1>6 DEF FateStep

LEMMA StepArchive ==
    ASSUME Typed, ReadyHasClip, Reserved, Uncut, Filed, Filed', Next
    PROVE  [Archive!Next]_(Archive!vars)
<1>1. ASSUME NEW a \in Assets, NEW h \in Handlers, PublishedBy(h, a) PROVE Archive!Next
  BY <1>1, PublishingPublishes DEF Archive!Next
<1>2. ASSUME NEW a \in Assets, Drafted(a) PROVE Archive!Next
  BY <1>2, DraftReserves DEF Archive!Next
<1>3. CASE Silent
  <2>1. ASSUME NEW r \in Runs, autoAccept(r) \/ reviewAccepts(r) \/ reviewRejects(r)
        PROVE  Archive!Next
    <3>1. UNCHANGED original
      BY <2>1 DEF autoAccept, reviewAccepts, reviewRejects, bucketVars
    <3>2. \E S \in SUBSET Archive!TasksOf(r) : Archive!Judge(r, S)
      BY <1>3, <2>1, <3>1, ReviewsJudge
    <3>3. QED
      BY <3>2 DEF Archive!Next
  <2>2. CASE ~\E r \in Runs : autoAccept(r) \/ reviewAccepts(r) \/ reviewRejects(r)
    <3>1. UNCHANGED version
      BY <2>2, VersionSteps
    <3>2. CASE original' # original
      <4>1. PICK m \in BagToSet(queue) : retain(m)
        BY <3>2, OriginalSteps
      <4>2. (\E r \in Runs : Archive!Release(r)) \/ UNCHANGED Archive!vars
        BY <1>3, <3>1, <4>1, RetentionReleases
      <4>3. QED
        BY <4>2 DEF Archive!Next
    <3>3. CASE UNCHANGED original
      <4>1. UNCHANGED asset \/ \E b \in Assets : Only(b)
        BY <2>2, OneAsset
      <4>2. CASE \E b \in Assets : Only(b)
        BY <1>3, <3>1, <3>3, <4>2, OneTask
      <4>3. CASE UNCHANGED asset
        <5>1. /\ [x \in Assets |-> Fate(x)]' = [x \in Assets |-> Fate(x)]
              /\ [x \in Assets |-> Footage(x)]' = [x \in Assets |-> Footage(x)]
          BY <4>3 DEF Fate, Footage, Ready, AllowedSkip
        <5>2. UNCHANGED Archive!vars
          BY <1>3, <3>1, <3>3, <5>1, SilentFrame DEF Archive!vars
        <5>3. QED
          BY <5>2
      <4>4. QED
        BY <4>1, <4>2, <4>3
    <3>4. QED
      BY <3>2, <3>3
  <2>3. QED
    BY <2>1, <2>2
<1>4. QED
  BY <1>1, <1>2, <1>3 DEF Silent

LEMMA InitArchive == Init => Archive!Init
<1> SUFFICES ASSUME Init PROVE Archive!Init
  OBVIOUS
<1>1. ASSUME NEW a \in Assets
      PROVE  /\ Fate(a) = "open" /\ Footage(a) = NoClip /\ Len(revisions[a]) = 0
             /\ Descriptions(a) = << >> /\ asset[a].current = 0
  <2>1. asset[a] = NewAsset /\ revisions[a] = << >>
    BY DEF Init
  <2>2. Fate(a) = "open" /\ Footage(a) = NoClip /\ asset[a].current = 0
    BY <2>1 DEF Fate, Footage, Ready, AllowedSkip, NewAsset
  <2>3. Readable(a) = {} /\ Len(revisions[a]) = 0
    BY <2>1 DEF Readable
  <2>4. Descriptions(a) = << >>
    BY <2>3 DEF Descriptions
  <2>5. QED
    BY <2>2, <2>3, <2>4
<1>2. QED
  BY <1>1 DEF Init, Archive!Init

\* All the work on the segments of a video, in whatever order handlers overlap,
\* die, are sent again or come late, is work VideoArchive allows.
THEOREM ArchiveKept == Spec => KeepsArchive
<1>1. Init => Filed
  BY DEF Init, Filed, NewAsset
<1>2. Retention /\ Filed /\ [Next]_vars => Filed'
  <2> SUFFICES ASSUME Retention, Filed, [Next]_vars PROVE Filed'
    OBVIOUS
  <2>1. CASE Next
    BY <2>1, NextFiled DEF Retention, Publication
  <2>2. CASE UNCHANGED vars
    BY <2>2 DEF Filed, IsPublished, vars, rowVars, bucketVars
  <2>3. QED
    BY <2>1, <2>2
<1>3. Retention /\ Filed /\ Filed' /\ [Next]_vars => [Archive!Next]_(Archive!vars)
  <2> SUFFICES ASSUME Retention, Filed, Filed', [Next]_vars
               PROVE  [Archive!Next]_(Archive!vars)
    OBVIOUS
  <2>1. CASE Next
    BY <2>1, StepArchive DEF Retention, Publication
  <2>2. CASE UNCHANGED vars
    <3>1. UNCHANGED Archive!vars
      BY <2>2 DEF Archive!vars, Fate, Footage, Descriptions, Readable, IsPublished, Ready,
                  AllowedSkip, vars, rowVars, bucketVars
    <3>2. QED
      BY <3>1
  <2>3. QED
    BY <2>1, <2>2
<1>4. QED
  BY <1>1, <1>2, <1>3, RetentionInvariant, InitArchive, PTL
     DEF Spec, KeepsArchive, Archive!Spec

----------------------------------------------------------------------------
\* The archive is sound in terms of what becomes of each asset.
WellDescribed(a) ==
    /\ \A i \in DOMAIN Descriptions(a) : Fate(a) = "kept" /\ Descriptions(a)[i].sha = Footage(a)
    /\ asset[a].current # 0 => asset[a].current \in DOMAIN Descriptions(a)

WellKept(a) == /\ Fate(a) = "kept"
               /\ asset[a].current \in DOMAIN Descriptions(a)
               /\ Descriptions(a)[asset[a].current].sha = Footage(a)

AllKnown == \A a \in Assets : /\ Fate(a) \in {"open", "waived", "resumed", "kept"}
                              /\ Footage(a) \in Clips \cup {NoClip}

Covered == ~original => \E r \in Runs : /\ \E a \in AssetsOf(r) : WellKept(a)
                                        /\ \A a \in AssetsOf(r) : Fate(a) # "open"

LEMMA ArchiveOfRows ==
    /\ Archive!TypeOK <=> AllKnown /\ original \in BOOLEAN
    /\ Archive!DescriptionsFit <=> \A a \in Assets : WellDescribed(a)
    /\ Archive!SourceCovered <=> Covered
<1>1. \A r : Archive!TasksOf(r) = AssetsOf(r)
  BY DEF Archive!TasksOf, AssetsOf
<1>2. \A a \in Assets : Fate(a) = "kept" /\ Archive!Described(a) <=> WellKept(a)
  BY DEF Archive!Described, WellKept
<1>3. \A r : \A a \in AssetsOf(r) : a \in Assets
  BY DEF AssetsOf
<1>4. Archive!TypeOK <=> AllKnown /\ original \in BOOLEAN
  BY DEF Archive!TypeOK, AllKnown
<1>5. Archive!DescriptionsFit <=> \A a \in Assets : WellDescribed(a)
  BY DEF Archive!DescriptionsFit, WellDescribed
<1>6. Archive!SourceCovered <=> Covered
  BY <1>1, <1>2, <1>3 DEF Archive!SourceCovered, Covered
<1>7. QED
  BY <1>4, <1>5, <1>6

LEMMA ArchiveOfRowsNext ==
    /\ Archive!TypeOK' <=> AllKnown' /\ original' \in BOOLEAN
    /\ Archive!DescriptionsFit' <=> \A a \in Assets : WellDescribed(a)'
    /\ Archive!SourceCovered' <=> Covered'
<1>1. (/\ Archive!TypeOK <=> AllKnown /\ original \in BOOLEAN
       /\ Archive!DescriptionsFit <=> \A a \in Assets : WellDescribed(a)
       /\ Archive!SourceCovered <=> Covered)'
  BY ArchiveOfRows, PTL
<1>2. QED
  BY <1>1

\* An asset of which neither the fate, the clip nor the descriptions change.
Same(a) == UNCHANGED <<Footage(a), Descriptions(a), asset[a].current>>

LEMMA SameSound ==
    ASSUME NEW a \in Assets, Same(a), Fate(a) = "kept" => Fate(a)' = "kept"
    PROVE  /\ WellDescribed(a) => WellDescribed(a)'
           /\ WellKept(a) => WellKept(a)'
BY DEF Same, WellDescribed, WellKept

\* What a step leaves alone, asset by asset.
LEMMA Unmapped ==
    ASSUME NEW a \in Assets
    PROVE  /\ UNCHANGED [b \in Assets |-> Fate(b)] => Fate(a)' = Fate(a)
           /\ UNCHANGED [b \in Assets |-> Footage(b)] => Footage(a)' = Footage(a)
           /\ UNCHANGED [b \in Assets |-> Descriptions(b)] => Descriptions(a)' = Descriptions(a)
           /\ UNCHANGED [b \in Assets |-> asset[b].current] => asset'[a].current = asset[a].current
<1>1. /\ [b \in Assets |-> Fate(b)][a] = Fate(a)
      /\ [b \in Assets |-> Fate(b)]'[a] = Fate(a)'
      /\ [b \in Assets |-> Footage(b)][a] = Footage(a)
      /\ [b \in Assets |-> Footage(b)]'[a] = Footage(a)'
      /\ [b \in Assets |-> Descriptions(b)][a] = Descriptions(a)
      /\ [b \in Assets |-> Descriptions(b)]'[a] = Descriptions(a)'
      /\ [b \in Assets |-> asset[b].current][a] = asset[a].current
      /\ [b \in Assets |-> asset[b].current]'[a] = asset'[a].current
  OBVIOUS
<1>2. QED
  BY <1>1

\* Steps after which every asset has kept what it had.
LEMMA KeepingSound ==
    ASSUME AllKnown', \A a \in Assets : WellDescribed(a)',
           AllKnown, Covered, original \in BOOLEAN,
           UNCHANGED original,
           \A a \in Assets : WellKept(a) => WellKept(a)',
           \A a \in Assets : Fate(a)' = "open" => Fate(a) = "open"
    PROVE  Archive!TypeOK' /\ Archive!Sound'
<1>1. Covered'
  <2> SUFFICES ASSUME ~original PROVE Covered'
    BY DEF Covered
  <2>1. PICK r \in Runs : /\ \E a \in AssetsOf(r) : WellKept(a)
                          /\ \A a \in AssetsOf(r) : Fate(a) # "open"
    BY DEF Covered
  <2>2. AssetsOf(r)' = AssetsOf(r) /\ AssetsOf(r) \subseteq Assets
    BY DEF AssetsOf
  <2>3. \E a \in AssetsOf(r) : WellKept(a)'
    BY <2>1, <2>2
  <2>4. \A a \in AssetsOf(r) : Fate(a)' # "open"
    BY <2>1, <2>2
  <2>5. QED
    BY <2>2, <2>3, <2>4 DEF Covered
<1>2. QED
  BY <1>1, ArchiveOfRowsNext DEF Archive!Sound

LEMMA ArchiveActionSound ==
    ASSUME Archive!TypeOK, Archive!Sound, [Archive!Next]_(Archive!vars)
    PROVE  Archive!TypeOK' /\ Archive!Sound'
<1>1. AllKnown /\ original \in BOOLEAN /\ Covered /\ \A a \in Assets : WellDescribed(a)
  BY ArchiveOfRows DEF Archive!Sound
<1>2. CASE UNCHANGED Archive!vars
  <2>1. /\ UNCHANGED original
        /\ \A a \in Assets : Same(a) /\ Fate(a)' = Fate(a)
    BY <1>2, Unmapped DEF Archive!vars, Same
  <2>2. AllKnown' /\ \A a \in Assets : WellDescribed(a)'
    BY <1>1, <2>1, SameSound DEF AllKnown, Same
  <2>3. QED
    BY <1>1, <2>1, <2>2, SameSound, KeepingSound
<1>3. ASSUME NEW r \in Runs, NEW S \in SUBSET Archive!TasksOf(r), Archive!Judge(r, S)
      PROVE  Archive!TypeOK' /\ Archive!Sound'
  <2>1. \A a \in Assets : Same(a)
    BY <1>3, Unmapped DEF Archive!Judge, Same
  <2>2. \A a \in Assets : Fate(a)' = IF a \in S THEN "waived" ELSE Fate(a)
    <3> SUFFICES ASSUME NEW a \in Assets PROVE Fate(a)' = IF a \in S THEN "waived" ELSE Fate(a)
      OBVIOUS
    <3>1. [b \in Assets |-> Fate(b)]'[a]
            = [b \in Assets |-> IF b \in S THEN "waived" ELSE [c \in Assets |-> Fate(c)][b]][a]
      BY <1>3 DEF Archive!Judge
    <3>2. QED
      BY <3>1
  <2>3. \A a \in S : a \in Assets => Fate(a) # "kept"
    <3> SUFFICES ASSUME NEW a \in S, a \in Assets PROVE Fate(a) # "kept"
      OBVIOUS
    <3>1. [b \in Assets |-> Fate(b)][a] \in {"open", "resumed"}
      BY <1>3 DEF Archive!Judge
    <3>2. QED
      BY <3>1
  <2>4. UNCHANGED original
    BY <1>3 DEF Archive!Judge
  <2>5. \A a \in Assets : WellDescribed(a)' /\ (WellKept(a) => WellKept(a)')
    BY <1>1, <2>1, <2>2, <2>3, SameSound
  <2>6. AllKnown'
    BY <1>1, <2>1, <2>2 DEF AllKnown, Same
  <2>7. QED
    BY <1>1, <2>2, <2>4, <2>5, <2>6, KeepingSound
<1>4. ASSUME NEW a \in Assets, Archive!Keep(a) PROVE Archive!TypeOK' /\ Archive!Sound'
  <2>1. /\ UNCHANGED original
        /\ \A b \in Assets : Descriptions(b)' = Descriptions(b) /\ asset'[b].current = asset[b].current
    BY <1>4, Unmapped DEF Archive!Keep
  <2>2. \A b \in Assets : Fate(b)' = IF b = a THEN "kept" ELSE Fate(b)
    <3> SUFFICES ASSUME NEW b \in Assets PROVE Fate(b)' = IF b = a THEN "kept" ELSE Fate(b)
      OBVIOUS
    <3>1. [p \in Assets |-> Fate(p)]'[b] = [[p \in Assets |-> Fate(p)] EXCEPT ![a] = "kept"][b]
      BY <1>4 DEF Archive!Keep
    <3>2. QED
      BY <3>1
  <2>3. PICK c \in Clips : [p \in Assets |-> Footage(p)]'
                             = [[p \in Assets |-> Footage(p)] EXCEPT ![a] = c]
    BY <1>4 DEF Archive!Keep
  <2>4. \A b \in Assets : Footage(b)' = IF b = a THEN c ELSE Footage(b)
    <3> SUFFICES ASSUME NEW b \in Assets PROVE Footage(b)' = IF b = a THEN c ELSE Footage(b)
      OBVIOUS
    <3>1. [p \in Assets |-> Footage(p)]'[b] = [[p \in Assets |-> Footage(p)] EXCEPT ![a] = c][b]
      BY <2>3
    <3>2. QED
      BY <3>1
  <2>5. Fate(a) # "kept"
    <3>1. [b \in Assets |-> Fate(b)][a] \in {"open", "resumed"}
      BY <1>4 DEF Archive!Keep
    <3>2. QED
      BY <3>1
  <2>6. WellDescribed(a)'
    BY <1>1, <2>1, <2>5 DEF WellDescribed
  <2>7. \A b \in Assets \ {a} : Same(b) /\ Fate(b)' = Fate(b)
    BY <2>1, <2>2, <2>4 DEF Same
  <2>8. \A b \in Assets : WellDescribed(b)' /\ (WellKept(b) => WellKept(b)')
    <3> SUFFICES ASSUME NEW b \in Assets PROVE WellDescribed(b)' /\ (WellKept(b) => WellKept(b)')
      OBVIOUS
    <3>1. CASE b = a
      BY <2>5, <2>6, <3>1 DEF WellKept
    <3>2. CASE b # a
      BY <1>1, <2>7, <3>2, SameSound
    <3>3. QED
      BY <3>1, <3>2
  <2>9. AllKnown'
    BY <1>1, <2>2, <2>4 DEF AllKnown
  <2>10. QED
    BY <1>1, <2>1, <2>2, <2>8, <2>9, KeepingSound
<1>5. ASSUME NEW a \in Assets, Archive!Resume(a) PROVE Archive!TypeOK' /\ Archive!Sound'
  <2>1. UNCHANGED original /\ \A b \in Assets : Same(b)
    BY <1>5, Unmapped DEF Archive!Resume, Same
  <2>2. \A b \in Assets : Fate(b)' = IF b = a THEN "resumed" ELSE Fate(b)
    <3> SUFFICES ASSUME NEW b \in Assets PROVE Fate(b)' = IF b = a THEN "resumed" ELSE Fate(b)
      OBVIOUS
    <3>1. [p \in Assets |-> Fate(p)]'[b] = [[p \in Assets |-> Fate(p)] EXCEPT ![a] = "resumed"][b]
      BY <1>5 DEF Archive!Resume
    <3>2. QED
      BY <3>1
  <2>3. Fate(a) # "kept"
    <3>1. [b \in Assets |-> Fate(b)][a] \in {"open", "waived"}
      BY <1>5 DEF Archive!Resume
    <3>2. QED
      BY <3>1
  <2>4. \A b \in Assets : WellDescribed(b)' /\ (WellKept(b) => WellKept(b)')
    BY <1>1, <2>1, <2>2, <2>3, SameSound
  <2>5. AllKnown'
    BY <1>1, <2>1, <2>2 DEF AllKnown, Same
  <2>6. QED
    BY <1>1, <2>1, <2>2, <2>4, <2>5, KeepingSound
<1>6. ASSUME NEW a \in Assets, Archive!Reserve(a) PROVE Archive!TypeOK' /\ Archive!Sound'
  <2>1. UNCHANGED original /\ \A b \in Assets : Same(b) /\ Fate(b)' = Fate(b)
    BY <1>6, Unmapped DEF Archive!Reserve, Same
  <2>2. AllKnown'
    BY <1>1, <2>1 DEF AllKnown, Same
  <2>3. QED
    BY <1>1, <2>1, <2>2, SameSound, KeepingSound
<1>7. ASSUME NEW a \in Assets, NEW i, Archive!Publish(a, i) PROVE Archive!TypeOK' /\ Archive!Sound'
  <2>1. UNCHANGED original /\ \A b \in Assets : Fate(b)' = Fate(b) /\ Footage(b)' = Footage(b)
    BY <1>7, Unmapped DEF Archive!Publish
  <2>2. Fate(a) = "kept"
    <3>1. [b \in Assets |-> Fate(b)][a] = "kept"
      BY <1>7 DEF Archive!Publish
    <3>2. QED
      BY <3>1
  <2> DEFINE d == Archive!Description(a)
             new == [k \in DOMAIN Descriptions(a) \cup {i} |->
                        IF k = i THEN d ELSE Descriptions(a)[k]]
  <2>3. \A b \in Assets : Descriptions(b)' = IF b = a THEN new ELSE Descriptions(b)
    <3> SUFFICES ASSUME NEW b \in Assets
                 PROVE  Descriptions(b)' = IF b = a THEN new ELSE Descriptions(b)
      OBVIOUS
    <3>1. [p \in Assets |-> Descriptions(p)]'[b]
            = [[p \in Assets |-> Descriptions(p)] EXCEPT ![a] =
                  [k \in DOMAIN [p \in Assets |-> Descriptions(p)][a] \cup {i} |->
                      IF k = i THEN d ELSE [p \in Assets |-> Descriptions(p)][a][k]]][b]
      BY <1>7 DEF Archive!Publish
    <3>2. QED
      BY <3>1
  <2>4. \A b \in Assets : asset'[b].current = IF b = a THEN i ELSE asset[b].current
    <3> SUFFICES ASSUME NEW b \in Assets
                 PROVE  asset'[b].current = IF b = a THEN i ELSE asset[b].current
      OBVIOUS
    <3>1. [p \in Assets |-> asset[p].current]'[b]
            = [[p \in Assets |-> asset[p].current] EXCEPT ![a] = i][b]
      BY <1>7 DEF Archive!Publish
    <3>2. QED
      BY <3>1
  <2>5. d.sha = Footage(a)
    BY DEF Archive!Description
  <2>6. /\ DOMAIN new = DOMAIN Descriptions(a) \cup {i}
        /\ \A k \in DOMAIN Descriptions(a) \cup {i} :
             new[k] = IF k = i THEN d ELSE Descriptions(a)[k]
    OBVIOUS
  <2>7. Descriptions(a)' = new /\ asset'[a].current = i
    BY <2>3, <2>4
  <2> HIDE DEF d, new
  <2>8. WellDescribed(a)' /\ WellKept(a)'
    BY <1>1, <2>1, <2>2, <2>5, <2>6, <2>7 DEF WellDescribed, WellKept
  <2>9. \A b \in Assets \ {a} : Same(b)
    BY <2>1, <2>3, <2>4 DEF Same
  <2>10. \A b \in Assets : WellDescribed(b)' /\ (WellKept(b) => WellKept(b)')
    <3> SUFFICES ASSUME NEW b \in Assets PROVE WellDescribed(b)' /\ (WellKept(b) => WellKept(b)')
      OBVIOUS
    <3>1. CASE b = a
      BY <2>8, <3>1
    <3>2. CASE b # a
      BY <1>1, <2>1, <2>9, <3>2, SameSound
    <3>3. QED
      BY <3>1, <3>2
  <2>11. AllKnown'
    BY <1>1, <2>1 DEF AllKnown
  <2>12. QED
    BY <1>1, <2>1, <2>10, <2>11, KeepingSound
<1>8. ASSUME NEW r \in Runs, Archive!Release(r) PROVE Archive!TypeOK' /\ Archive!Sound'
  <2>1. original' = FALSE /\ \A b \in Assets : Same(b) /\ Fate(b)' = Fate(b)
    BY <1>8, Unmapped DEF Archive!Release, Same
  <2>2. Archive!TasksOf(r) = AssetsOf(r) /\ AssetsOf(r) \subseteq Assets
    BY DEF Archive!TasksOf, AssetsOf
  <2>3. PICK a \in AssetsOf(r) : [b \in Assets |-> Fate(b)][a] = "kept"
    BY <1>8, <2>2 DEF Archive!Release
  <2>4. Archive!Described(a)
    BY <1>8, <2>2, <2>3 DEF Archive!Release
  <2>5. WellKept(a)
    BY <2>2, <2>3, <2>4 DEF Archive!Described, WellKept
  <2>6. \A b \in AssetsOf(r) : Fate(b) # "open"
    <3> SUFFICES ASSUME NEW b \in AssetsOf(r) PROVE Fate(b) # "open"
      OBVIOUS
    <3>1. [c \in Assets |-> Fate(c)][b] # "open"
      BY <1>8, <2>2 DEF Archive!Release
    <3>2. QED
      BY <2>2, <3>1
  <2>7. Covered'
    <3>1. AssetsOf(r)' = AssetsOf(r)
      BY DEF AssetsOf
    <3>2. WellKept(a)' /\ \A b \in AssetsOf(r) : Fate(b)' # "open"
      BY <2>1, <2>2, <2>5, <2>6, SameSound
    <3>3. QED
      BY <3>1, <3>2 DEF Covered
  <2>8. AllKnown' /\ \A b \in Assets : WellDescribed(b)'
    BY <1>1, <2>1, SameSound DEF AllKnown, Same
  <2>9. QED
    BY <2>1, <2>7, <2>8, ArchiveOfRowsNext DEF Archive!Sound
<1>9. QED
  BY <1>2, <1>3, <1>4, <1>5, <1>6, <1>7, <1>8 DEF Archive!Next

LEMMA ArchiveOfInit == Archive!Init => Archive!TypeOK /\ Archive!Sound
BY DEF Archive!Init, Archive!TypeOK, Archive!Sound, Archive!DescriptionsFit,
   Archive!SourceCovered

LEMMA ArchiveSound == KeepsArchive => [](Archive!TypeOK /\ Archive!Sound)
<1>1. Archive!Init => Archive!TypeOK /\ Archive!Sound
  BY ArchiveOfInit
<1>2. Archive!TypeOK /\ Archive!Sound /\ [Archive!Next]_(Archive!vars) => (Archive!TypeOK /\ Archive!Sound)'
  BY ArchiveActionSound
<1>3. QED
  BY <1>1, <1>2, PTL DEF KeepsArchive, Archive!Spec

\* Only a ready clip is described, each readable revision is of that clip, and the
\* current one is readable; the original is gone only after a run whose tasks were all
\* cut, waived or asked for again, one of them with a clip and its description.
THEOREM ArchiveIsSound == Spec => []Archive!Sound
BY ArchiveKept, ArchiveSound, PTL
=============================================================================
