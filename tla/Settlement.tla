------------------------------ MODULE Settlement ------------------------------
(***************************************************************************)
(* The money core of the platform: from a quality verdict to a withdrawal. *)
(*                                                                         *)
(* A submission whose verdict passes is credited once: a point cycle with  *)
(* a single item, and the same amount in the "settling" balance of its     *)
(* owner.  The settlement scheduler turns a due cycle into available       *)
(* balance, reversing the items that no longer qualify, and withdrawals    *)
(* move available balance into reserved and then withdrawn balance.        *)
(*                                                                         *)
(* Every operation of the services is one transaction that first locks the *)
(* submission row, so an action is a whole transaction.  What interleaves  *)
(* is everything that runs outside one: the evaluations in flight, and the *)
(* scheduler's scans, whose lists of candidates and of due cycles age      *)
(* while the rest of the system moves.                                     *)
(***************************************************************************)
EXTENDS BusinessCalendar, Sums

CONSTANTS
    Submissions, Owners, OwnerOf,
    Cycles, NoCycle,       \* identifiers of point cycles; the mark of no cycle
    Grades, NoGrade,       \* a grade: a final score with its invalid duration
    Passing,               \* grades at or above the quality rule's passThreshold
    PointsOf,              \* what the point rule pays for a grade
    Accruing,              \* grades whose settlement ratio is positive
    Keys,                  \* idempotency keys a collector uses
    Withdrawals,           \* amounts a collector asks for
    Schedulers,            \* processes that run the settlement scheduler
    EvaluationsOf,         \* bound on a submission's simultaneous evaluations
    MaxDuplicates,         \* bound on a submission's open duplicate candidates
    MaxClock, MaxCrashes,  \* bounds on time and on scheduler restarts
    ImportedQuality, ImportedItems,       \* rows older than automatic accrual
    ImportedCycles, ImportedRequests,     \* and next-day settlement, and what
    Opening                               \* every owner had been settled by then

ASSUME SettlementAssumption ==
    /\ IsFiniteSet(Submissions) /\ IsFiniteSet(Owners) /\ IsFiniteSet(Keys)
    /\ OwnerOf \in [Submissions -> Owners]
    /\ NoCycle \notin Cycles /\ NoGrade \notin Grades
    /\ Accruing \subseteq Passing /\ Passing \subseteq Grades
    /\ PointsOf \in [Grades -> Amount]
    /\ \A g \in Grades \ Accruing : PointsOf[g] = 0
    /\ Withdrawals \subseteq Amount \ {0}
    /\ EvaluationsOf \in [Submissions -> Nat]
    /\ Opening \in [Owners -> Nat]
    /\ MaxDuplicates \in Nat /\ MaxClock \in Nat /\ MaxCrashes \in Nat

VARIABLES
    clock,
    quality,       \* VideoQualityResultEntity with the submission's processingStatus
    asset,         \* assetStatus
    storage,       \* storageStatus
    duplicates,    \* open rows of SubmissionDuplicateCandidateEntity
    evaluating,    \* process() calls of the AI worker in flight
    cycle,         \* PointCycleEntity
    item,          \* PointCycleItemEntity with its latest adjustment
    wallet,        \* WalletBalanceEntity
    ledger,        \* per cycle and owner, the sum of the "lock" transactions
    request,       \* WithdrawalRequestEntity
    retention,     \* submissions with a source-retention event in the outbox
    scheduler,     \* the scan each scheduler process is in
    crashes

verdictVars  == <<quality, asset, storage, duplicates, evaluating>>
accountVars  == <<cycle, item, wallet, ledger>>
vars == <<clock, verdictVars, accountVars, request, retention, scheduler, crashes>>

-----------------------------------------------------------------------------
(* Records *)

Statuses == {"awaiting_ai", "ai_processing", "stuck", "system_failed",
             "scored", "review_pending", "hard_reject"}
Completed == {"scored", "review_pending", "hard_reject"}
Terminal  == Completed \cup {"system_failed"}

Quality == [status : Statuses, grade : Grades \cup {NoGrade},
            manual : BOOLEAN, approvedAt : Instant]
Unjudged == [status |-> "awaiting_ai", grade |-> NoGrade,
             manual |-> FALSE, approvedAt |-> 0]

Item == [cycle : Cycles \cup {NoCycle}, grade : Grades \cup {NoGrade},
         points : Amount, reviewedAt : Instant]
NoItem == [cycle |-> NoCycle, grade |-> NoGrade, points |-> 0, reviewedAt |-> 0]

Cycle   == [status : {"absent", "locked", "settled"}, due : Instant]
NoSuchCycle == [status |-> "absent", due |-> 0]

Wallet  == [total : Nat, settling : Nat, available : Nat,
            reserved : Nat, withdrawn : Nat]

RequestIds == Owners \X Keys
Open       == {"pending", "processing", "review_pending", "investigating"}
Request    == [status : Open \cup {"none", "paid", "rejected", "failed"}, amount : Amount]
NoRequest  == [status |-> "none", amount |-> 0]

Scan == [phase : {"idle", "accruing", "settling"},
         ids : SUBSET (Submissions \cup Cycles), asOf : Instant]
Idle == [phase |-> "idle", ids |-> {}, asOf |-> 0]

\* The next-day migration: what is locked keeps its cycle, which is due no
\* earlier than any of its items alone would be; what was settled is Opening.
ASSUME ImportAssumption ==
    /\ ImportedQuality \in [Submissions -> Quality]
    /\ ImportedItems \in [Submissions -> Item]
    /\ ImportedCycles \in [Cycles -> Cycle]
    /\ ImportedRequests \in [RequestIds -> Request]
    /\ \A c \in Cycles : ImportedCycles[c].status # "settled"
    /\ \A s \in Submissions, c \in Cycles : ImportedItems[s].cycle = c =>
          /\ ImportedCycles[c].status = "locked"
          /\ nextSettlementAt(ImportedItems[s].reviewedAt) <= ImportedCycles[c].due

-----------------------------------------------------------------------------
(* Eligibility: candidateIdQuery with the credited submissions included. *)

Eligible(s) ==
    /\ quality[s].status \in {"scored", "review_pending"}
    /\ quality[s].manual \/ quality[s].status = "scored"
    /\ quality[s].grade \in Passing
    /\ asset[s] = "active"
    /\ storage[s] = "available"
    /\ duplicates[s] = 0

Credited(s)  == item[s].cycle # NoCycle
Candidate(s) == Eligible(s) /\ ~Credited(s)

Locked(s)  == Credited(s) /\ cycle[item[s].cycle].status = "locked"
Settled(s) == Credited(s) /\ cycle[item[s].cycle].status = "settled"

-----------------------------------------------------------------------------
(* The wallet: WalletService and the balance side of PayoutService. *)

requireConsistentBalance(w) ==
    /\ \A part \in DOMAIN w : w[part] >= 0
    /\ w.total = w.settling + w.available + w.reserved + w.withdrawn

CanCredit(w, amount) ==
    /\ requireConsistentBalance(w)
    /\ w.total + amount >= 0
    /\ w.settling + amount >= 0

creditSettling(w, amount) ==
    [w EXCEPT !.total = @ + amount, !.settling = @ + amount]

CanSettle(w, amount) ==
    /\ requireConsistentBalance(w)
    /\ amount >= 0
    /\ w.settling >= amount

settleToAvailable(w, amount) ==
    [w EXCEPT !.settling  = @ - amount,
              !.available = @ + amount,
              !.total     = (w.settling - amount) + (w.available + amount)
                            + w.reserved + w.withdrawn]

-----------------------------------------------------------------------------
(* Totals over items and requests *)

TotalPoints(items, S)     == Sum([s \in S |-> items[s].points])
TotalAmounts(requests, R) == Sum([r \in R |-> requests[r].amount])

Points(S) == TotalPoints(item, S)

ItemsIn(c, o)  == {s \in Submissions : item[s].cycle = c /\ OwnerOf[s] = o}
PendingOf(o)   == {s \in Submissions : Locked(s) /\ OwnerOf[s] = o}
SettledOf(o)   == {s \in Submissions : Settled(s) /\ OwnerOf[s] = o}

CyclePoints(c, o) == Points(ItemsIn(c, o))
PendingPoints(o)  == Points(PendingOf(o))
SettledPoints(o)  == Points(SettledOf(o))

\* What settling cycle c pays an owner, and what it takes back from them first.
Payable(c, o)  == Points({s \in ItemsIn(c, o) : Eligible(s)})
Reversed(c, o) == Points({s \in ItemsIn(c, o) : ~Eligible(s)})

RequestsIn(S, o)  == {r \in RequestIds : r[1] = o /\ request[r].status \in S}
RequestedIn(S, o) == TotalAmounts(request, RequestsIn(S, o))

-----------------------------------------------------------------------------
(* Initial states: a database migrated to automatic accrual and next-day    *)
(* settlement, with approved submissions nobody credited, grouped cycles    *)
(* and old withdrawal requests; the balances add up, or it is not started.  *)

Init ==
    /\ clock = 0
    /\ item = ImportedItems
    /\ cycle = ImportedCycles
    /\ request = ImportedRequests
    /\ quality = ImportedQuality
    /\ asset = [s \in Submissions |-> "active"]
    /\ storage = [s \in Submissions |-> "available"]
    /\ duplicates \in [Submissions -> 0..MaxDuplicates]
    /\ evaluating = [s \in Submissions |-> 0]
    /\ wallet = [o \in Owners |->
          LET settling  == PendingPoints(o)
              reserved  == RequestedIn(Open, o)
              withdrawn == RequestedIn({"paid"}, o)
          IN  [total |-> settling + Opening[o], settling |-> settling,
               available |-> Opening[o] - reserved - withdrawn,
               reserved |-> reserved, withdrawn |-> withdrawn]]
    /\ \A o \in Owners : wallet[o].available >= 0
    /\ ledger = [c \in Cycles |-> [o \in Owners |-> CyclePoints(c, o)]]
    /\ retention = {}
    /\ scheduler = [p \in Schedulers |-> Idle]
    /\ crashes = 0

-----------------------------------------------------------------------------
(* Accrual.  It runs inside its caller's transaction, on the rows that the  *)
(* caller has already written: hence the primed eligibility.                *)

\* Mutant: the candidate query forgets that the submission has an item.
accrueSubmissionAgain(s) ==
    IF Eligible(s)' /\ quality'[s].grade \in Accruing
    THEN \E c \in Cycles :
           LET q == quality'[s]
               o == OwnerOf[s]
           IN  /\ cycle[c].status = "absent"
               /\ cycle' = [cycle EXCEPT ![c] =
                     [status |-> "locked", due |-> nextSettlementAt(q.approvedAt)]]
               /\ item' = [item EXCEPT ![s] =
                     [cycle |-> c, grade |-> q.grade, points |-> PointsOf[q.grade],
                      reviewedAt |-> q.approvedAt]]
               /\ wallet' = [wallet EXCEPT ![o] = creditSettling(@, PointsOf[q.grade])]
               /\ ledger' = [ledger EXCEPT ![c][o] = @ + PointsOf[q.grade]]
    ELSE UNCHANGED accountVars

accrueSubmission(s) ==
    IF Eligible(s)' /\ ~Credited(s) /\ quality'[s].grade \in Accruing
    THEN \E c \in Cycles :
           LET q == quality'[s]
               o == OwnerOf[s]
           IN  /\ cycle[c].status = "absent"
               /\ CanCredit(wallet[o], PointsOf[q.grade])
               /\ cycle' = [cycle EXCEPT ![c] =
                     [status |-> "locked", due |-> nextSettlementAt(q.approvedAt)]]
               /\ item' = [item EXCEPT ![s] =
                     [cycle |-> c, grade |-> q.grade, points |-> PointsOf[q.grade],
                      reviewedAt |-> q.approvedAt]]
               /\ wallet' = [wallet EXCEPT ![o] = creditSettling(@, PointsOf[q.grade])]
               /\ ledger' = [ledger EXCEPT ![c][o] = @ + PointsOf[q.grade]]
    ELSE UNCHANGED accountVars

-----------------------------------------------------------------------------
(* The AI worker: AiQualityAnalysisService.process, cut where its           *)
(* transactions are.  Its advisory lock allows one call per submission;     *)
(* EvaluationsOf[s] = 2 lets a second call start after the session that     *)
(* held the lock is lost, while the first still runs.                       *)

begin(s) ==
    /\ evaluating[s] < EvaluationsOf[s]
    /\ quality[s].status \notin Terminal
    /\ quality' = [quality EXCEPT ![s].status = "ai_processing"]
    /\ evaluating' = [evaluating EXCEPT ![s] = @ + 1]
    /\ UNCHANGED <<clock, asset, storage, duplicates, accountVars, request,
                   retention, scheduler, crashes>>

\* A manual score and its review date survive the verdict; the score of a
\* verdict other than "scored" is never used, and is left out.
complete(s) ==
    /\ evaluating[s] > 0
    /\ \E verdict \in Completed, g \in Grades :
         quality' = [quality EXCEPT ![s] =
            IF @.manual THEN [@ EXCEPT !.status = verdict]
            ELSE [status |-> verdict, grade |-> IF verdict = "scored" THEN g ELSE NoGrade,
                  manual |-> FALSE, approvedAt |-> clock]]
    /\ \E sensitive \in BOOLEAN :
         asset' = IF sensitive THEN [asset EXCEPT ![s] = "quarantined"] ELSE asset
    /\ evaluating' = [evaluating EXCEPT ![s] = @ - 1]
    /\ UNCHANGED <<storage, duplicates>>
    /\ accrueSubmission(s)
    /\ UNCHANGED <<clock, request, retention, scheduler, crashes>>

\* markTerminalFailure and markRetryPending: neither looks at the current status.
evaluationFails(s) ==
    /\ evaluating[s] > 0
    /\ \E status \in {"system_failed", "awaiting_ai"} :
         quality' = [quality EXCEPT ![s].status = status]
    /\ evaluating' = [evaluating EXCEPT ![s] = @ - 1]
    /\ UNCHANGED <<clock, asset, storage, duplicates, accountVars, request,
                   retention, scheduler, crashes>>

workerDies(s) ==
    /\ evaluating[s] > 0
    /\ evaluating' = [evaluating EXCEPT ![s] = @ - 1]
    /\ UNCHANGED <<clock, quality, asset, storage, duplicates, accountVars, request,
                   retention, scheduler, crashes>>

\* The reclaimer sees a stale heartbeat; the evaluation may still be running.
reclaimTimedOutTask(s) ==
    /\ quality[s].status \in {"ai_processing", "stuck"}
    /\ \E status \in {"stuck", "awaiting_ai"} \ {quality[s].status} :
         quality' = [quality EXCEPT ![s].status = status]
    /\ UNCHANGED <<clock, asset, storage, duplicates, evaluating, accountVars, request,
                   retention, scheduler, crashes>>

-----------------------------------------------------------------------------
(* Administrators: SubmissionsService and PointCyclesService. *)

\* input.quarantine may set, lift or leave the quarantine.
reviewQuality(s) ==
    /\ quality[s].status \in {"scored", "review_pending"}
    /\ ~Credited(s)
    /\ \E g \in Grades :
         quality' = [quality EXCEPT ![s] =
            [@ EXCEPT !.grade = g, !.manual = TRUE, !.approvedAt = clock]]
    /\ \E status \in {"active", "quarantined"} : asset' = [asset EXCEPT ![s] = status]
    /\ UNCHANGED <<storage, duplicates, evaluating>>
    /\ accrueSubmission(s)
    /\ UNCHANGED <<clock, request, retention, scheduler, crashes>>

rerunAiQuality(s) ==
    /\ quality[s].status # "ai_processing"
    /\ ~Credited(s)
    /\ quality' = [quality EXCEPT ![s] = Unjudged]
    /\ asset' = [asset EXCEPT ![s] = "active"]
    /\ UNCHANGED <<clock, storage, duplicates, evaluating, accountVars, request,
                   retention, scheduler, crashes>>

clearDuplicateCandidate(s) ==
    /\ duplicates[s] > 0
    /\ duplicates' = [duplicates EXCEPT ![s] = @ - 1]
    /\ UNCHANGED <<quality, asset, storage, evaluating>>
    /\ accrueSubmission(s)
    /\ UNCHANGED <<clock, request, retention, scheduler, crashes>>

\* delete_pending and deleted disqualify alike; a credited submission may be deleted.
deleteObjects(s) ==
    /\ storage[s] = "available"
    /\ quality[s].status \notin {"awaiting_ai", "ai_processing"}
    /\ storage' = [storage EXCEPT ![s] = "deleted"]
    /\ UNCHANGED <<clock, quality, asset, duplicates, evaluating, accountVars, request,
                   retention, scheduler, crashes>>

\* Mutant: a correction reaches a settled cycle.
adjustItemSettled(s) ==
    /\ Credited(s)
    /\ \E g \in Grades \ {item[s].grade} :
         LET delta == PointsOf[g] - item[s].points
         IN  /\ CanCredit(wallet[OwnerOf[s]], delta)
             /\ item' = [item EXCEPT ![s].grade = g, ![s].points = PointsOf[g]]
             /\ wallet' = [wallet EXCEPT ![OwnerOf[s]] = creditSettling(@, delta)]
             /\ ledger' = [ledger EXCEPT ![item[s].cycle][OwnerOf[s]] = @ + delta]
    /\ UNCHANGED <<clock, verdictVars, cycle, request, retention, scheduler, crashes>>

\* Mutant: the wallet is corrected and the adjustment of the item is lost.
adjustItemLost(s) ==
    /\ Locked(s)
    /\ \E g \in Grades \ {item[s].grade} :
         LET delta == PointsOf[g] - item[s].points
         IN  /\ CanCredit(wallet[OwnerOf[s]], delta)
             /\ wallet' = [wallet EXCEPT ![OwnerOf[s]] = creditSettling(@, delta)]
             /\ ledger' = [ledger EXCEPT ![item[s].cycle][OwnerOf[s]] = @ + delta]
    /\ UNCHANGED <<clock, verdictVars, item, cycle, request, retention, scheduler, crashes>>

\* A correction appends an adjustment to the item and its delta to the wallet.
adjustItem(s) ==
    /\ Locked(s)
    /\ \E g \in Grades \ {item[s].grade} :
         LET o     == OwnerOf[s]
             delta == PointsOf[g] - item[s].points
         IN  /\ CanCredit(wallet[o], delta)
             /\ item' = [item EXCEPT ![s].grade = g, ![s].points = PointsOf[g]]
             /\ wallet' = [wallet EXCEPT ![o] = creditSettling(@, delta)]
             /\ ledger' = [ledger EXCEPT ![item[s].cycle][o] = @ + delta]
    /\ UNCHANGED <<clock, verdictVars, cycle, request, retention, scheduler, crashes>>

-----------------------------------------------------------------------------
(* Withdrawals: PayoutService.  Repeating a submission with its key returns *)
(* the first request, and confirming a paid request shows it: neither       *)
(* changes anything.                                                        *)

\* Mutant: the balance is not checked under the lock.
submitUnchecked(o, k) ==
    /\ request[<<o, k>>].status = "none"
    /\ \E cents \in Withdrawals :
         /\ request' = [request EXCEPT ![<<o, k>>] = [status |-> "pending", amount |-> cents]]
         /\ wallet' = [wallet EXCEPT ![o].available = @ - cents, ![o].reserved = @ + cents]
    /\ UNCHANGED <<clock, verdictVars, cycle, item, ledger, retention, scheduler, crashes>>

submit(o, k) ==
    /\ request[<<o, k>>].status = "none"
    /\ \E cents \in Withdrawals :
         /\ wallet[o].available >= cents
         /\ request' = [request EXCEPT ![<<o, k>>] = [status |-> "pending", amount |-> cents]]
         /\ wallet' = [wallet EXCEPT ![o].available = @ - cents, ![o].reserved = @ + cents]
    /\ UNCHANGED <<clock, verdictVars, cycle, item, ledger, retention, scheduler, crashes>>

moveReserve(o, cents) ==
    /\ wallet[o].reserved >= cents
    /\ wallet' = [wallet EXCEPT ![o].reserved = @ - cents, ![o].withdrawn = @ + cents]

\* Mutant: whatever is not paid yet is confirmed, a rejected request too.
confirmRefused(o, k) ==
    /\ request[<<o, k>>].status \notin {"none", "paid"}
    /\ moveReserve(o, request[<<o, k>>].amount)
    /\ request' = [request EXCEPT ![<<o, k>>].status = "paid"]
    /\ UNCHANGED <<clock, verdictVars, cycle, item, ledger, retention, scheduler, crashes>>

confirm(o, k) ==
    /\ request[<<o, k>>].status \in Open
    /\ moveReserve(o, request[<<o, k>>].amount)
    /\ request' = [request EXCEPT ![<<o, k>>].status = "paid"]
    /\ UNCHANGED <<clock, verdictVars, cycle, item, ledger, retention, scheduler, crashes>>

-----------------------------------------------------------------------------
(* Settlement of one cycle: reverse the items that no longer qualify, move  *)
(* the rest of the cycle to the available balance, close the cycle.         *)

\* Mutant: a reversed item releases its source as well.
AllSubmissionsOf(c) == {s \in Submissions : item'[s].cycle = c}

PaidSubmissions(c) == {s \in Submissions : item'[s].cycle = c /\ item'[s].points > 0}

settleCycle(c, now) ==
    LET members == {s \in Submissions : item[s].cycle = c}
        owners  == {OwnerOf[s] : s \in members}
    IN  /\ cycle[c].due <= now
        /\ \A o \in owners :
             /\ CanCredit(wallet[o], -Reversed(c, o))
             /\ CanSettle(creditSettling(wallet[o], -Reversed(c, o)), Payable(c, o))
        /\ item' = [s \in Submissions |->
              IF s \in members /\ ~Eligible(s) THEN [item[s] EXCEPT !.points = 0] ELSE item[s]]
        /\ wallet' = [o \in Owners |->
              IF o \in owners
              THEN settleToAvailable(creditSettling(wallet[o], -Reversed(c, o)), Payable(c, o))
              ELSE wallet[o]]
        /\ ledger' = [ledger EXCEPT ![c] = [o \in Owners |-> @[o] - Reversed(c, o)]]
        /\ cycle' = [cycle EXCEPT ![c].status = "settled"]
        /\ retention' = retention \cup PaidSubmissions(c)

-----------------------------------------------------------------------------
(* The settlement scheduler.  A tick scans for candidates, accrues them one *)
(* transaction at a time, then scans for due cycles at the instant it keeps *)
(* as "now" and settles them one by one.                                    *)

\* Mutant: only approvals accrue; the scan does not look for missed ones.
tickWithoutReconcile(p) ==
    /\ scheduler[p].phase = "idle"
    /\ scheduler' = [scheduler EXCEPT ![p] = [phase |-> "accruing", ids |-> {}, asOf |-> 0]]
    /\ UNCHANGED <<clock, verdictVars, accountVars, request, retention, crashes>>

tick(p) ==
    /\ scheduler[p].phase = "idle"
    /\ scheduler' = [scheduler EXCEPT ![p] =
          [phase |-> "accruing", ids |-> {s \in Submissions : Candidate(s)}, asOf |-> 0]]
    /\ UNCHANGED <<clock, verdictVars, accountVars, request, retention, crashes>>

Done(p, id) == scheduler' = [scheduler EXCEPT ![p].ids = @ \ {id}]

reconcileAccrual(p, s) ==
    /\ scheduler[p].phase = "accruing" /\ s \in scheduler[p].ids
    /\ Done(p, s)
    /\ UNCHANGED verdictVars
    /\ accrueSubmission(s)
    /\ UNCHANGED <<clock, request, retention, crashes>>

settleDueCycles(p) ==
    /\ scheduler[p].phase = "accruing" /\ scheduler[p].ids = {}
    /\ scheduler' = [scheduler EXCEPT ![p] =
          [phase |-> "settling", asOf |-> clock,
           ids |-> {c \in Cycles : cycle[c].status = "locked" /\ cycle[c].due <= clock}]]
    /\ UNCHANGED <<clock, verdictVars, accountVars, request, retention, crashes>>

\* Mutant: the cycle's status is not read again under its lock.
settleDueCycleStale(p, c) ==
    /\ scheduler[p].phase = "settling" /\ c \in scheduler[p].ids
    /\ Done(p, c)
    /\ settleCycle(c, scheduler[p].asOf)
    /\ UNCHANGED <<clock, verdictVars, request, crashes>>

settleDueCycle(p, c) ==
    /\ scheduler[p].phase = "settling" /\ c \in scheduler[p].ids
    /\ Done(p, c)
    /\ IF cycle[c].status = "locked"
       THEN settleCycle(c, scheduler[p].asOf)
       ELSE UNCHANGED <<accountVars, retention>>   \* another scheduler was faster
    /\ UNCHANGED <<clock, verdictVars, request, crashes>>

\* One transaction of the scan fails; the scan goes on with the next.
transactionFails(p) ==
    /\ \E id \in scheduler[p].ids : Done(p, id)
    /\ UNCHANGED <<clock, verdictVars, accountVars, request, retention, crashes>>

\* Mutant: the flag "running" is not cleared when the scan ends.
endTickRunning(p) ==
    /\ scheduler[p].phase = "settling" /\ scheduler[p].ids = {}
    /\ UNCHANGED vars

endTick(p) ==
    /\ scheduler[p].phase = "settling" /\ scheduler[p].ids = {}
    /\ scheduler' = [scheduler EXCEPT ![p] = Idle]
    /\ UNCHANGED <<clock, verdictVars, accountVars, request, retention, crashes>>

\* The process stops; its scan is lost and onModuleInit starts a new one.
restart(p) ==
    /\ crashes < MaxCrashes /\ scheduler[p].phase # "idle"
    /\ crashes' = crashes + 1
    /\ scheduler' = [scheduler EXCEPT ![p] = Idle]
    /\ UNCHANGED <<clock, verdictVars, accountVars, request, retention>>

timePasses ==
    /\ clock < MaxClock
    /\ clock' = clock + 1
    /\ UNCHANGED <<verdictVars, accountVars, request, retention, scheduler, crashes>>

-----------------------------------------------------------------------------
worker(s) == begin(s) \/ complete(s) \/ evaluationFails(s) \/ workerDies(s)

administrator(s) ==
    \/ reviewQuality(s) \/ rerunAiQuality(s) \/ clearDuplicateCandidate(s)
    \/ deleteObjects(s) \/ adjustItem(s) \/ reclaimTimedOutTask(s)

scan(p) ==
    \/ tick(p) \/ settleDueCycles(p) \/ transactionFails(p) \/ endTick(p) \/ restart(p)
    \/ \E s \in Submissions : reconcileAccrual(p, s)
    \/ \E c \in Cycles : settleDueCycle(p, c)

Next ==
    \/ timePasses
    \/ \E s \in Submissions : worker(s) \/ administrator(s)
    \/ \E o \in Owners, k \in Keys : submit(o, k) \/ confirm(o, k)
    \/ \E p \in Schedulers : scan(p)

Spec == Init /\ [][Next]_vars

\* The interval timer ticks, and a running scan goes on.  A transaction may
\* fail any number of times, but not for ever: the next scans try it again.
Fairness ==
    /\ WF_vars(timePasses)
    /\ \A p \in Schedulers :
         /\ WF_vars(tick(p) \/ settleDueCycles(p) \/ endTick(p) \/ transactionFails(p))
         /\ \A s \in Submissions : SF_vars(reconcileAccrual(p, s))
         /\ \A c \in Cycles : SF_vars(settleDueCycle(p, c))

FairSpec == Spec /\ Fairness

-----------------------------------------------------------------------------
(* Properties *)

\* Every variable keeps the shape of its table.
TypeOK ==
    /\ clock \in Nat
    /\ quality \in [Submissions -> Quality]
    /\ asset \in [Submissions -> {"active", "quarantined"}]
    /\ storage \in [Submissions -> {"available", "deleted"}]
    /\ duplicates \in [Submissions -> Nat]
    /\ evaluating \in [Submissions -> Nat]
    /\ cycle \in [Cycles -> Cycle]
    /\ item \in [Submissions -> Item]
    /\ wallet \in [Owners -> Wallet]
    /\ ledger \in [Cycles -> [Owners -> Int]]
    /\ request \in [RequestIds -> Request]
    /\ retention \subseteq Submissions
    /\ scheduler \in [Schedulers -> Scan]
    /\ crashes \in Nat

\* The settling balance is what the items of the owner's locked cycles are
\* worth, corrections included: no credit is lost or given twice, however
\* verdicts, reviews, scans and settlements interleave.
PendingBacked == \A o \in Owners : wallet[o].settling = PendingPoints(o)

\* What was settled, before the model starts or since, is available, reserved
\* for a request, or withdrawn.
SettledBacked ==
    \A o \in Owners :
        wallet[o].available + wallet[o].reserved + wallet[o].withdrawn
            = Opening[o] + SettledPoints(o)

\* The reserve is the open requests, and what was withdrawn the paid ones:
\* confirming twice, or confirming a refused request, would break it.
RequestsBacked ==
    \A o \in Owners :
        /\ wallet[o].reserved = RequestedIn(Open, o)
        /\ wallet[o].withdrawn = RequestedIn({"paid"}, o)

\* Of a cycle, the lock transactions sum to what its items are worth now, be
\* it corrected, reversed or settled: the history explains the balances.
LedgerExplainsItems ==
    \A c \in Cycles, o \in Owners : ledger[c][o] = CyclePoints(c, o)

\* The inductive invariant of the books: an item's cycle exists, and a wallet's
\* total is the sum of its parts.
CyclesExist == \A s \in Submissions : Credited(s) => cycle[item[s].cycle].status # "absent"
Balanced    == \A o \in Owners : requireConsistentBalance(wallet[o])

Accounts ==
    /\ CyclesExist
    /\ Balanced
    /\ PendingBacked
    /\ SettledBacked
    /\ RequestsBacked
    /\ LedgerExplainsItems

\* Mutant: cycles whose lock transactions sum to nothing are announced too.
nextSettlementsUnsummed(o) ==
    {cycle[c].due : c \in {c \in Cycles : cycle[c].status = "locked"
                                            /\ \E s \in ItemsIn(c, o) : TRUE}}

\* The due dates among which the wallet view takes the next settlement.
nextSettlements(o) ==
    {cycle[c].due : c \in {c \in Cycles : cycle[c].status = "locked" /\ ledger[c][o] > 0}}

\* The wallet view announces a next settlement exactly when money is settling.
NextSettlementShown ==
    \A o \in Owners : wallet[o].settling > 0 <=> nextSettlements(o) # {}

\* The wallet never refuses a settlement: the checks of creditSettling and
\* settleToAvailable, which would roll it back at every scan, hold for every
\* locked cycle at any moment, whatever was disqualified since it was credited.
SettlementNeverRefused ==
    \A c \in Cycles : cycle[c].status = "locked" =>
        \A o \in Owners :
            /\ CanCredit(wallet[o], -Reversed(c, o))
            /\ CanSettle(creditSettling(wallet[o], -Reversed(c, o)), Payable(c, o))

\* Money becomes available on a later local day than the approval, and on the
\* very next one only from the settlement hour on.
NeverEarly ==
    \A s \in Submissions : Settled(s) =>
        LET approved == LocalDay(item[s].reviewedAt)
        IN  \/ LocalDay(clock) > approved + 1
            \/ LocalDay(clock) = approved + 1 /\ LocalHour(clock) >= SettleHour

\* Why: a cycle is due no earlier than its items, and settled no earlier than due;
\* the instant a scan works with is never in the future.
Timely ==
    /\ \A s \in Submissions : Credited(s) =>
          /\ nextSettlementAt(item[s].reviewedAt) <= cycle[item[s].cycle].due
          /\ Settled(s) => cycle[item[s].cycle].due <= clock
    /\ \A p \in Schedulers : scheduler[p].asOf <= clock

\* Settled history is immutable: neither a correction, nor a new verdict, nor
\* another scheduler's settlement touches the item again.
SettledIsFinal ==
    [][\A s \in Submissions : Settled(s) => item'[s] = item[s] /\ Settled(s)']_vars

\* The source of a submission is released for deletion only when a settlement
\* has paid for it: a reversal to zero emits no retention event.
RetentionOnlyPaid ==
    \A s \in retention : Settled(s) /\ item[s].points > 0

\* A submission that stays entitled is credited, by a scan if its approval missed it.
EntitledIsCredited ==
    \A s \in Submissions :
        (Candidate(s) /\ quality[s].grade \in Accruing)
            ~> (Credited(s) \/ ~Eligible(s))

\* A due cycle is settled, whichever process dies and whatever fails meanwhile.
DueIsSettled ==
    \A c \in Cycles :
        (cycle[c].status = "locked" /\ cycle[c].due <= clock) ~> (cycle[c].status = "settled")

-----------------------------------------------------------------------------
(* Settlement keeps the promise of Earnings. *)

EarningOf(s) ==
    [state  |-> CASE ~Credited(s) -> "none" [] Locked(s) -> "pending" [] OTHER -> "final",
     amount |-> item[s].points]

ClaimOf(r) ==
    LET status == request[r].status
    IN  [state  |-> CASE status \in Open -> "open"
                      [] status \in {"rejected", "failed"} -> "refused"
                      [] OTHER -> status,
         amount |-> request[r].amount]

Promise == INSTANCE Earnings WITH
    earning <- [s \in Submissions |-> EarningOf(s)],
    claim   <- [r \in RequestIds |-> ClaimOf(r)]

\* Every operation on the money is one the promise allows: credited once,
\* corrected only while pending, final for ever, and claimed within what is final.
KeepsPromise == Promise!Spec
=============================================================================
