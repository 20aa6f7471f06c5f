----------------------- MODULE SettlementSafety_proofs -----------------------
(***************************************************************************)
(* What follows from balanced books and from the calendar: settlement is   *)
(* never refused, never early and never undone, the wallet announces it,   *)
(* it releases only what it has paid for, and the whole of it implements   *)
(* the promise of Earnings.                                                *)
(***************************************************************************)
EXTENDS SettlementAccounts_proofs

-----------------------------------------------------------------------------
(* The wallet accepts every settlement, and announces it. *)

\* In balanced books no check of the wallet can refuse a locked cycle.
LEMMA NeverRefused == TypeOK /\ Accounts => SettlementNeverRefused
<1> SUFFICES ASSUME TypeOK, Accounts, NEW c \in Cycles, cycle[c].status = "locked",
                    NEW o \in Owners
             PROVE  /\ CanCredit(wallet[o], -Reversed(c, o))
                    /\ CanSettle(creditSettling(wallet[o], -Reversed(c, o)), Payable(c, o))
  BY DEF SettlementNeverRefused
<1> DEFINE w == wallet[o]
           v == creditSettling(w, -Reversed(c, o))
<1>1. w \in Wallet /\ requireConsistentBalance(w)
  BY DEF TypeOK, Accounts, Balanced
<1>2. w.total = w.settling + w.available + w.reserved + w.withdrawn
  BY <1>1, Consistency
<1>3. /\ Payable(c, o) \in Nat /\ Reversed(c, o) \in Nat
      /\ w.settling >= Payable(c, o) + Reversed(c, o)
  <2>1. /\ Payable(c, o) \in Nat /\ Reversed(c, o) \in Nat
        /\ CyclePoints(c, o) = Payable(c, o) + Reversed(c, o)
    BY PayableAndReversed
  <2>2. PICK rest \in Nat : w.settling = rest + CyclePoints(c, o)
    BY CyclePending DEF Accounts, PendingBacked
  <2> QED
    BY <2>1, <2>2
<1>4. /\ w.total \in Nat /\ w.settling \in Nat /\ w.available \in Nat
      /\ w.reserved \in Nat /\ w.withdrawn \in Nat
  BY <1>1 DEF Wallet
<1>5. CanCredit(w, -Reversed(c, o))
  BY <1>1, <1>2, <1>3, <1>4 DEF CanCredit
<1>6. v \in Wallet
  BY <1>1, <1>3, <1>5, CreditType
<1>7. /\ v.total = w.total - Reversed(c, o) /\ v.settling = w.settling - Reversed(c, o)
      /\ v.available = w.available /\ v.reserved = w.reserved /\ v.withdrawn = w.withdrawn
  BY <1>1, <1>3 DEF creditSettling, Wallet
<1>8. v.total = v.settling + v.available + v.reserved + v.withdrawn
  BY <1>2, <1>3, <1>4, <1>7
<1>9. requireConsistentBalance(v)
  BY <1>6, <1>8, Consistency
<1>10. CanSettle(v, Payable(c, o))
  <2>1. v.settling >= Payable(c, o)
    BY <1>3, <1>4, <1>7
  <2> HIDE DEF v
  <2> QED
    BY <1>3, <1>9, <2>1 DEF CanSettle
<1> QED
  BY <1>5, <1>10

\* WalletService accepts the settlement of any locked cycle, at any moment.
THEOREM SettlementAccepted == Spec => []SettlementNeverRefused
BY TypeCorrect, AccountsBalance, NeverRefused, PTL

\* Items are worth something together exactly when one of them is.
LEMMA PointsPositive ==
    ASSUME NEW items \in [Submissions -> Item], NEW S \in SUBSET Submissions
    PROVE  TotalPoints(items, S) > 0 <=> \E s \in S : items[s].points > 0
<1> DEFINE f == [s \in S |-> items[s].points]
<1>1. f \in [S -> Amount] /\ \A s \in S : f[s] = items[s].points
  BY DEF Item
<1>2. IsFiniteSet(S)
  BY FiniteTables
<1>3. Sum(f) > 0 <=> \E s \in S : f[s] > 0
  <2> HIDE DEF f
  <2> QED
    BY <1>1, <1>2, SumPositive
<1> QED
  BY <1>1, <1>3 DEF TotalPoints

\* In balanced books, money is settling exactly when some lock transactions of a
\* locked cycle sum to more than nothing.
LEMMA AlwaysShown == TypeOK /\ Accounts => NextSettlementShown
<1> SUFFICES ASSUME TypeOK, Accounts, NEW o \in Owners
             PROVE  wallet[o].settling > 0 <=> nextSettlements(o) # {}
  BY DEF NextSettlementShown
<1>1. item \in [Submissions -> Item]
  BY DEF TypeOK
<1>2. wallet[o].settling > 0 <=> \E s \in PendingOf(o) : item[s].points > 0
  <2>1. PendingOf(o) \in SUBSET Submissions
    BY DEF PendingOf
  <2> QED
    BY <1>1, <2>1, PointsPositive DEF Accounts, PendingBacked, PendingPoints, Points
<1>3. \A c \in Cycles : ledger[c][o] > 0 <=> \E s \in ItemsIn(c, o) : item[s].points > 0
  <2>1. \A c \in Cycles : ItemsIn(c, o) \in SUBSET Submissions
    BY DEF ItemsIn
  <2> QED
    BY <1>1, <2>1, PointsPositive DEF Accounts, LedgerExplainsItems, CyclePoints, Points
<1>4. nextSettlements(o) # {} <=> \E c \in Cycles : cycle[c].status = "locked" /\ ledger[c][o] > 0
  BY DEF nextSettlements
<1>5. \A s \in Submissions : s \in PendingOf(o) <=>
        \E c \in Cycles : cycle[c].status = "locked" /\ s \in ItemsIn(c, o)
  BY <1>1, SettlementAssumption DEF PendingOf, ItemsIn, Locked, Credited, Item
<1> QED
  BY <1>2, <1>3, <1>4, <1>5 DEF PendingOf, ItemsIn

\* The wallet view announces a next settlement exactly when money is settling.
THEOREM SettlementShown == Spec => []NextSettlementShown
BY TypeCorrect, AccountsBalance, AlwaysShown, PTL

-----------------------------------------------------------------------------
(* Settled history is final. *)

\* Accrual never reaches a settled item: it starts from no item, with a new cycle.
LEMMA AccrualFinal ==
    ASSUME TypeOK, Accounts, NEW x \in Submissions, accrueSubmission(x),
           NEW s \in Submissions, Settled(s)
    PROVE  item'[s] = item[s] /\ Settled(s)'
<1>1. /\ item \in [Submissions -> Item] /\ cycle \in [Cycles -> Cycle]
      /\ item[s].cycle \in Cycles
  BY DEF TypeOK, Settled, Credited, Item
<1>2. CASE UNCHANGED accountVars
  BY <1>2 DEF accountVars, Settled, Credited
<1>3. ASSUME ~Credited(x),
             NEW c \in Cycles, cycle[c].status = "absent",
             \E record : cycle' = [cycle EXCEPT ![c] = record],
             \E record : item' = [item EXCEPT ![x] = record]
      PROVE  item'[s] = item[s] /\ Settled(s)'
  <2>1. x # s /\ c # item[s].cycle
    BY <1>3 DEF Settled
  <2>2. item'[s] = item[s] /\ cycle'[item[s].cycle] = cycle[item[s].cycle]
    BY <1>1, <1>3, <2>1
  <2> QED
    BY <2>2 DEF Settled, Credited
<1> QED
  BY <1>2, <1>3 DEF accrueSubmission

\* No step touches a settled item.
LEMMA StepFinal ==
    ASSUME TypeOK, Accounts, [Next]_vars, NEW s \in Submissions, Settled(s)
    PROVE  item'[s] = item[s] /\ Settled(s)'
<1>0. ASSUME UNCHANGED <<item, cycle>> PROVE item'[s] = item[s] /\ Settled(s)'
  BY <1>0 DEF Settled, Credited
<1>1. CASE timePasses \/ UNCHANGED vars
  BY <1>0, <1>1 DEF timePasses, vars, accountVars
<1>2. ASSUME NEW x \in Submissions, worker(x) PROVE item'[s] = item[s] /\ Settled(s)'
  <2>1. CASE begin(x) \/ evaluationFails(x) \/ workerDies(x)
    BY <1>0, <2>1 DEF begin, evaluationFails, workerDies, accountVars
  <2>2. CASE complete(x)
    BY <2>2, AccrualFinal DEF complete
  <2> QED
    BY <1>2, <2>1, <2>2 DEF worker
<1>3. ASSUME NEW x \in Submissions, administrator(x) PROVE item'[s] = item[s] /\ Settled(s)'
  <2>1. CASE rerunAiQuality(x) \/ deleteObjects(x) \/ reclaimTimedOutTask(x)
    BY <1>0, <2>1 DEF rerunAiQuality, deleteObjects, reclaimTimedOutTask, accountVars
  <2>2. CASE reviewQuality(x) \/ clearDuplicateCandidate(x)
    BY <2>2, AccrualFinal DEF reviewQuality, clearDuplicateCandidate
  <2>3. CASE adjustItem(x)
    <3>1. x # s
      BY <2>3 DEF adjustItem, Locked, Settled
    <3>2. UNCHANGED cycle /\ item'[s] = item[s]
      BY <2>3, <3>1 DEF adjustItem, TypeOK
    <3> QED
      BY <3>2 DEF Settled, Credited
  <2> QED
    BY <1>3, <2>1, <2>2, <2>3 DEF administrator
<1>4. ASSUME NEW o \in Owners, NEW k \in Keys, submit(o, k) \/ confirm(o, k)
      PROVE  item'[s] = item[s] /\ Settled(s)'
  BY <1>0, <1>4 DEF submit, confirm
<1>5. ASSUME NEW p \in Schedulers, scan(p) PROVE item'[s] = item[s] /\ Settled(s)'
  <2>1. CASE tick(p) \/ settleDueCycles(p) \/ transactionFails(p) \/ endTick(p) \/ restart(p)
    BY <1>0, <2>1
    DEF tick, settleDueCycles, transactionFails, endTick, restart, accountVars
  <2>2. ASSUME NEW x \in Submissions, reconcileAccrual(p, x)
        PROVE  item'[s] = item[s] /\ Settled(s)'
    BY <2>2, AccrualFinal DEF reconcileAccrual
  <2>3. ASSUME NEW c \in Cycles, settleDueCycle(p, c)
        PROVE  item'[s] = item[s] /\ Settled(s)'
    <3>1. CASE cycle[c].status = "locked"
      <4>1. settleCycle(c, scheduler[p].asOf)
        BY <2>3, <3>1 DEF settleDueCycle
      <4>2. item[s].cycle # c
        BY <3>1 DEF Settled
      <4>3. item'[s] = item[s] /\ cycle'[item[s].cycle] = cycle[item[s].cycle]
        BY <4>1, <4>2 DEF settleCycle, TypeOK
      <4> QED
        BY <4>3 DEF Settled, Credited
    <3>2. CASE cycle[c].status # "locked"
      BY <1>0, <2>3, <3>2 DEF settleDueCycle, accountVars
    <3> QED
      BY <3>1, <3>2
  <2> QED
    BY <1>5, <2>1, <2>2, <2>3 DEF scan
<1> QED
  BY <1>1, <1>2, <1>3, <1>4, <1>5 DEF Next

\* Once settled, an item keeps its points and its cycle stays settled for ever.
THEOREM SettledForEver == Spec => SettledIsFinal
<1>1. TypeOK /\ Accounts /\ [Next]_vars
        => [\A s \in Submissions : Settled(s) => item'[s] = item[s] /\ Settled(s)']_vars
  BY StepFinal
<1> QED
  BY <1>1, TypeCorrect, AccountsBalance, PTL DEF Spec, SettledIsFinal

-----------------------------------------------------------------------------
(* Sources are released only for what was paid. *)

\* A settlement releases the sources of the items it leaves with points.
LEMMA StepRetention ==
    ASSUME TypeOK, Accounts, [Next]_vars, RetentionOnlyPaid
    PROVE  RetentionOnlyPaid'
<1>1. ASSUME NEW s \in Submissions, Settled(s), item[s].points > 0
      PROVE  Settled(s)' /\ item'[s].points > 0
  BY <1>1, StepFinal
<1>2. CASE retention' = retention
  BY <1>1, <1>2 DEF RetentionOnlyPaid, TypeOK
<1>3. ASSUME NEW c \in Cycles, NEW now, settleCycle(c, now)
      PROVE  RetentionOnlyPaid'
  <2> SUFFICES ASSUME NEW s \in retention' PROVE Settled(s)' /\ item'[s].points > 0
    BY DEF RetentionOnlyPaid
  <2>1. CASE s \in retention
    BY <1>1, <2>1 DEF RetentionOnlyPaid, TypeOK
  <2>2. CASE s \in PaidSubmissions(c)
    <3>1. s \in Submissions /\ item'[s].cycle = c /\ item'[s].points > 0
      BY <2>2 DEF PaidSubmissions
    <3>2. cycle'[c].status = "settled" /\ c # NoCycle
      BY <1>3, SettlementAssumption DEF settleCycle, TypeOK, Cycle
    <3> QED
      BY <3>1, <3>2 DEF Settled, Credited
  <2> QED
    BY <1>3, <2>1, <2>2 DEF settleCycle
<1>4. retention' = retention \/ \E c \in Cycles, now \in Int : settleCycle(c, now)
  <2>1. CASE timePasses \/ UNCHANGED vars
    BY <2>1 DEF timePasses, vars
  <2>2. ASSUME NEW s \in Submissions, worker(s) \/ administrator(s)
        PROVE  retention' = retention
    BY <2>2 DEF worker, administrator, begin, complete, evaluationFails, workerDies,
                reviewQuality, rerunAiQuality, clearDuplicateCandidate, deleteObjects,
                adjustItem, reclaimTimedOutTask
  <2>3. ASSUME NEW o \in Owners, NEW k \in Keys, submit(o, k) \/ confirm(o, k)
        PROVE  retention' = retention
    BY <2>3 DEF submit, confirm
  <2>4. ASSUME NEW p \in Schedulers, scan(p)
        PROVE  retention' = retention \/ \E c \in Cycles, now \in Int : settleCycle(c, now)
    <3>1. CASE tick(p) \/ settleDueCycles(p) \/ transactionFails(p) \/ endTick(p) \/ restart(p)
      BY <3>1 DEF tick, settleDueCycles, transactionFails, endTick, restart
    <3>2. ASSUME NEW s \in Submissions, reconcileAccrual(p, s) PROVE retention' = retention
      BY <3>2 DEF reconcileAccrual
    <3>3. ASSUME NEW c \in Cycles, settleDueCycle(p, c)
          PROVE  retention' = retention \/ settleCycle(c, scheduler[p].asOf)
      BY <3>3 DEF settleDueCycle
    <3>4. scheduler[p].asOf \in Int
      BY DEF TypeOK, Scan, Instant
    <3> QED
      BY <2>4, <3>1, <3>2, <3>3, <3>4 DEF scan
  <2> QED
    BY <2>1, <2>2, <2>3, <2>4 DEF Next
<1> QED
  BY <1>2, <1>3, <1>4

\* The outbox asks for the deletion of a source only after its points were paid.
THEOREM ReleasedOnlyPaid == Spec => []RetentionOnlyPaid
<1>1. Init => RetentionOnlyPaid
  BY DEF Init, RetentionOnlyPaid
<1>2. TypeOK /\ Accounts /\ [Next]_vars /\ RetentionOnlyPaid => RetentionOnlyPaid'
  BY StepRetention
<1> QED
  BY <1>1, <1>2, TypeCorrect, AccountsBalance, PTL DEF Spec

-----------------------------------------------------------------------------
(* Settlement is never early. *)

\* A credit is due when the next settlement of its approval is.
LEMMA AccrualTimely ==
    ASSUME TypeOK, Accounts, Timely, NEW x \in Submissions, accrueSubmission(x),
           clock' = clock, (quality \in [Submissions -> Quality])',
           NEW s \in Submissions, Credited(s)'
    PROVE  /\ nextSettlementAt(item'[s].reviewedAt) <= cycle'[item'[s].cycle].due
           /\ Settled(s)' => cycle'[item'[s].cycle].due <= clock'
<1>1. CASE UNCHANGED accountVars
  BY <1>1 DEF accountVars, Timely, Settled, Credited
<1>2. CASE ~UNCHANGED accountVars
  <2> DEFINE q == quality'[x]
             due == nextSettlementAt(q.approvedAt)
  <2>1. PICK c \in Cycles, points \in {PointsOf[q.grade]} :
          /\ cycle[c].status = "absent"
          /\ cycle' = [cycle EXCEPT ![c] = [status |-> "locked", due |-> due]]
          /\ item' = [item EXCEPT ![x] = [cycle |-> c, grade |-> q.grade, points |-> points,
                                          reviewedAt |-> q.approvedAt]]
    BY <1>2 DEF accrueSubmission
  <2>2. item \in [Submissions -> Item] /\ cycle \in [Cycles -> Cycle] /\ due \in Int
    BY NextSettlementType DEF TypeOK, Quality, Instant
  <2>3. CASE s = x
    <3>1. /\ item'[s].cycle = c /\ item'[s].reviewedAt = q.approvedAt
          /\ cycle'[c].due = due /\ cycle'[c].status = "locked"
      BY <2>1, <2>2, <2>3
    <3> QED
      BY <2>2, <3>1 DEF Settled
  <2>4. CASE s # x
    <3>1. item'[s] = item[s] /\ Credited(s)
      BY <2>1, <2>2, <2>4 DEF Credited
    <3>2. item[s].cycle # c
      BY <2>1, <3>1 DEF Accounts, CyclesExist
    <3>3. cycle'[item[s].cycle] = cycle[item[s].cycle]
      BY <2>1, <2>2, <3>1, <3>2 DEF Credited, Item
    <3> QED
      BY <3>1, <3>3 DEF Timely, Settled, Credited
  <2> QED
    BY <2>3, <2>4
<1> QED
  BY <1>1, <1>2

\* Every step keeps the due dates.
LEMMA StepTimely ==
    ASSUME TypeOK, TypeOK', Accounts, Timely, [Next]_vars
    PROVE  Timely'
<1> DEFINE ItemTimely(s) ==
             Credited(s) => /\ nextSettlementAt(item[s].reviewedAt) <= cycle[item[s].cycle].due
                            /\ Settled(s) => cycle[item[s].cycle].due <= clock
           Frozen == UNCHANGED <<item, cycle>> /\ clock' >= clock
<1>0. ASSUME Frozen, NEW s \in Submissions PROVE ItemTimely(s)'
  <2>1. cycle[item[s].cycle].due \in Int \/ ~Credited(s)
    BY DEF TypeOK, Credited, Item, Cycle, Instant
  <2> QED
    BY <1>0, <2>1 DEF Timely, TypeOK, Settled, Credited
<1>1. ASSUME UNCHANGED <<clock, scheduler>>, NEW p \in Schedulers
      PROVE  scheduler'[p].asOf <= clock'
  BY <1>1 DEF Timely
<1>2. CASE timePasses
  <2>1. Frozen /\ UNCHANGED scheduler /\ clock' = clock + 1 /\ clock \in Nat
    BY <1>2 DEF timePasses, accountVars, TypeOK
  <2>2. ASSUME NEW p \in Schedulers PROVE scheduler'[p].asOf <= clock'
    BY <2>1 DEF Timely, TypeOK, Scan, Instant
  <2> QED
    BY <1>0, <2>1, <2>2 DEF Timely
<1>3. CASE UNCHANGED vars
  BY <1>0, <1>1, <1>3 DEF vars, accountVars, Timely, TypeOK
<1>4. ASSUME NEW x \in Submissions, worker(x) \/ administrator(x) PROVE Timely'
  <2>1. UNCHANGED <<clock, scheduler>>
    BY <1>4 DEF worker, administrator, begin, complete, evaluationFails, workerDies,
                reviewQuality, rerunAiQuality, clearDuplicateCandidate, deleteObjects,
                adjustItem, reclaimTimedOutTask
  <2>2. CASE accrueSubmission(x)
    BY <1>1, <2>1, <2>2, AccrualTimely DEF Timely, TypeOK
  <2>3. CASE UNCHANGED <<item, cycle>>
    BY <1>0, <1>1, <2>1, <2>3 DEF Timely, TypeOK
  <2>4. CASE adjustItem(x)
    <3>1. /\ UNCHANGED cycle
          /\ \A s \in Submissions : item'[s].cycle = item[s].cycle
                                    /\ item'[s].reviewedAt = item[s].reviewedAt
      BY <2>4 DEF adjustItem, TypeOK, Item
    <3>2. ASSUME NEW s \in Submissions PROVE ItemTimely(s)'
      BY <2>1, <3>1 DEF Timely, Settled, Credited
    <3> QED
      BY <1>1, <2>1, <3>2 DEF Timely
  <2>5. accrueSubmission(x) \/ adjustItem(x) \/ UNCHANGED <<item, cycle>>
    BY <1>4 DEF worker, administrator, begin, complete, evaluationFails, workerDies,
                reviewQuality, rerunAiQuality, clearDuplicateCandidate, deleteObjects,
                reclaimTimedOutTask, accountVars
  <2> QED
    BY <2>2, <2>3, <2>4, <2>5
<1>5. ASSUME NEW o \in Owners, NEW k \in Keys, submit(o, k) \/ confirm(o, k) PROVE Timely'
  <2>1. UNCHANGED <<clock, scheduler, item, cycle>>
    BY <1>5 DEF submit, confirm
  <2> QED
    BY <1>0, <1>1, <2>1 DEF Timely, TypeOK
<1>6. ASSUME NEW p \in Schedulers, scan(p) PROVE Timely'
  <2>1. UNCHANGED clock
    BY <1>6 DEF scan, tick, settleDueCycles, transactionFails, endTick, restart,
                reconcileAccrual, settleDueCycle
  <2>2. ASSUME NEW r \in Schedulers PROVE scheduler'[r].asOf <= clock'
    <3>1. \A id : Done(p, id) => scheduler'[r].asOf = scheduler[r].asOf
      BY DEF Done, TypeOK, Scan
    <3>2. CASE tick(p) \/ endTick(p) \/ restart(p) \/ settleDueCycles(p)
      <4>1. /\ clock \in Nat /\ scheduler \in [Schedulers -> Scan]
            /\ scheduler[r].asOf <= clock
        BY DEF Timely, TypeOK
      <4>2. \/ scheduler'[r] = scheduler[r]
            \/ scheduler'[r].asOf = 0
            \/ scheduler'[r].asOf = clock
        BY <3>2, <4>1 DEF tick, endTick, restart, settleDueCycles, Idle
      <4> QED
        BY <2>1, <4>1, <4>2
    <3>3. CASE \E id : Done(p, id)
      BY <2>1, <3>1, <3>3 DEF Timely
    <3> QED
      BY <1>6, <3>2, <3>3 DEF scan, transactionFails, reconcileAccrual, settleDueCycle
  <2>3. ASSUME NEW s \in Submissions PROVE ItemTimely(s)'
    <3>1. CASE UNCHANGED <<item, cycle>>
      BY <1>0, <2>1, <3>1 DEF TypeOK
    <3>2. ASSUME NEW x \in Submissions, accrueSubmission(x) PROVE ItemTimely(s)'
      BY <2>1, <3>2, AccrualTimely DEF TypeOK
    <3>3. ASSUME NEW c \in Cycles, settleCycle(c, scheduler[p].asOf) PROVE ItemTimely(s)'
      <4>1. cycle[c].due <= clock
        BY <3>3 DEF settleCycle, Timely, TypeOK, Scan, Cycle, Instant
      <4>2. /\ item'[s].cycle = item[s].cycle /\ item'[s].reviewedAt = item[s].reviewedAt
            /\ \A d \in Cycles : cycle'[d].due = cycle[d].due
            /\ \A d \in Cycles \ {c} : cycle'[d] = cycle[d]
        BY <3>3 DEF settleCycle, TypeOK, Item, Cycle
      <4>3. Credited(s) => item[s].cycle \in Cycles
        BY DEF Credited, TypeOK, Item
      <4> QED
        BY <2>1, <4>1, <4>2, <4>3 DEF Timely, Settled, Credited
    <3> QED
      BY <1>6, <3>1, <3>2, <3>3
      DEF scan, tick, settleDueCycles, transactionFails, endTick, restart, reconcileAccrual,
          settleDueCycle, accountVars
  <2> QED
    BY <2>2, <2>3 DEF Timely
<1> QED
  BY <1>2, <1>3, <1>4, <1>5, <1>6 DEF Next

\* The hour of the next settlement is on the next local day, at the settlement hour.
LEMMA NextDay ==
    ASSUME NEW approvedAt \in Instant, NEW now \in Instant,
           nextSettlementAt(approvedAt) <= now
    PROVE  \/ LocalDay(now) > LocalDay(approvedAt) + 1
           \/ LocalDay(now) = LocalDay(approvedAt) + 1 /\ LocalHour(now) >= SettleHour
<1> DEFINE H == HoursPerDay
           day == LocalDay(now)
           hour == LocalHour(now)
           next == LocalDay(approvedAt) + 1
<1>1. H \in Nat /\ H > 0 /\ SettleHour \in Nat /\ ZoneOffset \in Nat
  BY CalendarAssumption
<1>2. day \in Int /\ next \in Int /\ hour \in 0..(H - 1) /\ now + ZoneOffset = day * H + hour
  <2>1. now + ZoneOffset \in Int
    BY <1>1 DEF Instant
  <2>2. ASSUME NEW t \in Int
        PROVE  t \div H \in Int /\ t % H \in 0..(H - 1) /\ t = (t \div H) * H + (t % H)
    <3> DEFINE whole == (t \div H) * H
               left  == t % H
    <3>1. t \div H \in Int
      BY <1>1
    <3>2. left \in 0..(H - 1)
      BY <1>1
    <3>3. left = t - whole
      BY <1>1
    <3>4. whole \in Int
      BY <1>1, <3>1
    <3>5. t = whole + left
      <4> HIDE DEF whole, left
      <4> QED
        BY <1>1, <3>2, <3>3, <3>4
    <3> QED
      BY <3>1, <3>2, <3>5
  <2>3. approvedAt + ZoneOffset \in Int
    BY <1>1 DEF Instant
  <2>4. (now + ZoneOffset) \div H = day /\ (now + ZoneOffset) % H = hour
    BY DEF LocalDay, LocalHour
  <2>5. day \in Int /\ hour \in 0..(H - 1) /\ now + ZoneOffset = day * H + hour
    <3>1. LET t == now + ZoneOffset
          IN  t \div H \in Int /\ t % H \in 0..(H - 1) /\ t = (t \div H) * H + (t % H)
      BY <2>1, <2>2
    <3> HIDE DEF day, hour
    <3> QED
      BY <2>4, <3>1
  <2>6. (approvedAt + ZoneOffset) \div H \in Int
    BY <2>2, <2>3
  <2>7. next \in Int
    BY <2>6 DEF LocalDay
  <2> QED
    BY <2>5, <2>7
<1>3. next * H + SettleHour <= day * H + hour
  <2>1. next * H + SettleHour - ZoneOffset <= now
    BY DEF nextSettlementAt
  <2>2. next * H \in Int /\ day * H \in Int
    BY <1>1, <1>2
  <2> HIDE DEF next, day, hour
  <2> QED
    BY <1>1, <1>2, <2>1, <2>2 DEF Instant
<1> HIDE DEF H, day, hour, next
<1>4. day >= next
  <2> SUFFICES ASSUME day <= next - 1 PROVE FALSE
    BY <1>2
  <2>1. day * H <= (next - 1) * H
    BY <1>1, <1>2
  <2>2. (next - 1) * H = next * H - H
    BY <1>1, <1>2
  <2>3. day * H \in Int /\ next * H \in Int
    BY <1>1, <1>2
  <2> QED
    BY <1>1, <1>2, <1>3, <2>1, <2>2, <2>3
<1>5. day = next => hour >= SettleHour
  BY <1>1, <1>2, <1>3
<1>6. day > next \/ (day = next /\ hour >= SettleHour)
  BY <1>2, <1>4, <1>5
<1> QED
  BY <1>6 DEF day, hour, next

\* No money is available before 02:00 of the local day after its approval.
THEOREM SettledNeverEarly == Spec => []NeverEarly
<1>1. Init => Timely
  <2> SUFFICES ASSUME Init PROVE Timely
    OBVIOUS
  <2>1. TypeOK
    BY InitType
  <2>2. ASSUME NEW s \in Submissions, Credited(s)
        PROVE  /\ nextSettlementAt(item[s].reviewedAt) <= cycle[item[s].cycle].due
               /\ ~Settled(s)
    BY <2>1, <2>2, ImportAssumption DEF Init, TypeOK, Settled, Credited, Item
  <2>3. ASSUME NEW p \in Schedulers PROVE scheduler[p].asOf <= clock
    BY DEF Init, Idle
  <2> QED
    BY <2>2, <2>3 DEF Timely
<1>2. TypeOK /\ TypeOK' /\ Accounts /\ Timely /\ [Next]_vars => Timely'
  BY StepTimely
<1>3. TypeOK /\ Timely => NeverEarly
  <2> SUFFICES ASSUME TypeOK, Timely, NEW s \in Submissions, Settled(s)
               PROVE  \/ LocalDay(clock) > LocalDay(item[s].reviewedAt) + 1
                      \/ /\ LocalDay(clock) = LocalDay(item[s].reviewedAt) + 1
                         /\ LocalHour(clock) >= SettleHour
    BY DEF NeverEarly
  <2>1. /\ item[s].reviewedAt \in Instant /\ clock \in Instant
        /\ cycle[item[s].cycle].due \in Int
    BY DEF TypeOK, Settled, Credited, Item, Cycle, Instant
  <2>2. nextSettlementAt(item[s].reviewedAt) <= clock
    <3>1. /\ nextSettlementAt(item[s].reviewedAt) <= cycle[item[s].cycle].due
          /\ cycle[item[s].cycle].due <= clock
      BY DEF Timely, Settled
    <3> QED
      BY <2>1, <3>1, NextSettlementType DEF Instant
  <2> QED
    BY <2>1, <2>2, NextDay
<1> QED
  BY <1>1, <1>2, <1>3, TypeCorrect, AccountsBalance, PTL DEF Spec

-----------------------------------------------------------------------------
(* The money core implements the promise of Earnings. *)

\* A total is a total, here and in the promise.
LEMMA SameSum == \A f : Promise!Sum(f) = Sum(f)
<1>1. \A S : Promise!Cardinality(S) = Cardinality(S)
  BY Zenon DEF Promise!Cardinality, Cardinality
<1>2. \A f : Promise!Units(f) = Units(f)
  BY DEF Promise!Units, Units
<1> QED
  BY <1>1, <1>2 DEF Promise!Sum, Sum

\* The earning of a submission, by what became of its item.
LEMMA EarningCases ==
    ASSUME TypeOK, Accounts, NEW s \in Submissions
    PROVE  /\ EarningOf(s).amount = item[s].points
           /\ ~Credited(s) => EarningOf(s).state = "none"
           /\ Locked(s) => EarningOf(s).state = "pending"
           /\ Settled(s) => EarningOf(s).state = "final"
           /\ ~Credited(s) \/ Locked(s) \/ Settled(s)
<1>1. Credited(s) => Locked(s) \/ Settled(s)
  BY DEF TypeOK, Accounts, CyclesExist, Credited, Locked, Settled, Item, Cycle
<1>2. Locked(s) => Credited(s) /\ ~Settled(s)
  BY DEF Locked, Settled
<1>3. Settled(s) => Credited(s)
  BY DEF Settled
<1> QED
  BY <1>1, <1>2, <1>3 DEF EarningOf

\* The claim of a request, by its status.
LEMMA ClaimCases ==
    ASSUME TypeOK, NEW r \in RequestIds
    PROVE  /\ ClaimOf(r).amount = request[r].amount
           /\ ClaimOf(r).state = "none" <=> request[r].status = "none"
           /\ ClaimOf(r).state = "open" <=> request[r].status \in Open
           /\ ClaimOf(r).state = "paid" <=> request[r].status = "paid"
           /\ ClaimOf(r) \in Promise!Claim
<1>1. request[r] \in Request
  BY DEF TypeOK
<1>2. /\ request[r].status \in Open \cup {"none", "paid", "rejected", "failed"}
      /\ request[r].amount \in Amount
  BY <1>1 DEF Request
<1> QED
  BY <1>2 DEF ClaimOf, Open, Promise!Claim, Promise!Amount, Amount

\* What is claimed is reserved or withdrawn, and what was made final is what was
\* settled: in balanced books nobody has claimed more than was made final.
LEMMA ClaimedAndEarned ==
    ASSUME TypeOK, Accounts, NEW o \in Owners
    PROVE  /\ Promise!Claimed(o) = wallet[o].reserved + wallet[o].withdrawn
           /\ Promise!Earned(o) = wallet[o].available + wallet[o].reserved + wallet[o].withdrawn
<1> DEFINE open == RequestsIn(Open, o)
           paid == RequestsIn({"paid"}, o)
           claimed == {r \in RequestIds : r[1] = o /\ ClaimOf(r).state \in {"open", "paid"}}
           final == {s \in Submissions : EarningOf(s).state = "final" /\ OwnerOf[s] = o}
<1>1. /\ open \in SUBSET RequestIds /\ paid \in SUBSET RequestIds
      /\ open \cap paid = {} /\ claimed = open \cup paid
  BY ClaimCases DEF RequestsIn, Open
<1>2. final = SettledOf(o)
  BY EarningCases DEF SettledOf, Locked, Settled
<1>3. Promise!Claimed(o) = TotalAmounts(request, claimed)
  <2>1. [r \in claimed |-> ClaimOf(r).amount] = [r \in claimed |-> request[r].amount]
    BY ClaimCases
  <2>2. Promise!Claimed(o) = Sum([r \in claimed |-> ClaimOf(r).amount])
    <3>1. Promise!Claimed(o)
            = Promise!Sum([r \in {r \in RequestIds :
                  r[1] = o /\ [x \in RequestIds |-> ClaimOf(x)][r].state \in {"open", "paid"}}
                |-> [x \in RequestIds |-> ClaimOf(x)][r].amount])
      BY DEF Promise!Claimed, Promise!ClaimIds, RequestIds
    <3> QED
      BY <3>1, SameSum
  <2> QED
    BY <2>1, <2>2 DEF TotalAmounts
<1>4. Promise!Earned(o) = Opening[o] + TotalPoints(item, final)
  <2>1. [s \in final |-> EarningOf(s).amount] = [s \in final |-> item[s].points]
    BY EarningCases
  <2>2. Promise!Earned(o) = Opening[o] + Sum([s \in final |-> EarningOf(s).amount])
    <3>1. Promise!Earned(o)
            = Opening[o] + Promise!Sum([s \in {s \in Submissions :
                  [x \in Submissions |-> EarningOf(x)][s].state = "final" /\ OwnerOf[s] = o}
                |-> [x \in Submissions |-> EarningOf(x)][s].amount])
      BY DEF Promise!Earned
    <3> QED
      BY <3>1, SameSum
  <2> QED
    BY <2>1, <2>2 DEF TotalPoints
<1>5. request \in [RequestIds -> Request]
  BY DEF TypeOK
<1>6. TotalAmounts(request, claimed) = TotalAmounts(request, open) + TotalAmounts(request, paid)
  <2> HIDE DEF open, paid, claimed
  <2> QED
    BY <1>1, <1>5, AmountsSplit
<1>7. /\ wallet[o].reserved = TotalAmounts(request, open)
      /\ wallet[o].withdrawn = TotalAmounts(request, paid)
      /\ wallet[o].available + wallet[o].reserved + wallet[o].withdrawn
           = Opening[o] + TotalPoints(item, SettledOf(o))
  BY DEF Accounts, RequestsBacked, SettledBacked, RequestedIn, SettledPoints, Points
<1> HIDE DEF open, paid, claimed, final
<1> QED
  BY <1>2, <1>3, <1>4, <1>6, <1>7

\* The migrated database is an initial state of the promise.
LEMMA InitPromise ==
    ASSUME TypeOK, Accounts
    PROVE  Promise!Init
<1>1. ASSUME NEW s \in Submissions PROVE EarningOf(s) \in Promise!Earning
  <2>1. item[s].points \in Amount
    BY DEF TypeOK, Item
  <2>2. EarningOf(s) = [state |-> EarningOf(s).state, amount |-> item[s].points]
    BY DEF EarningOf
  <2>3. EarningOf(s).state \in {"none", "pending", "final"}
    BY EarningCases
  <2> QED
    BY <2>1, <2>2, <2>3 DEF Promise!Earning, Promise!Amount, Amount
<1>2. \A r \in RequestIds : ClaimOf(r) \in Promise!Claim
  BY ClaimCases
<1>3. Promise!TypeOK
  BY <1>1, <1>2 DEF Promise!TypeOK, Promise!ClaimIds, RequestIds
<1>4. ASSUME NEW o \in Owners PROVE Promise!Claimed(o) <= Promise!Earned(o)
  <2>1. wallet[o] \in Wallet
    BY DEF TypeOK
  <2> QED
    BY <2>1, ClaimedAndEarned DEF Wallet
<1> QED
  BY <1>3, <1>4 DEF Promise!Init, Promise!Solvent

\* Items, cycles and requests are all the promise looks at.
LEMMA PromiseFrame ==
    ASSUME UNCHANGED <<item, cycle, request>>
    PROVE  UNCHANGED Promise!vars
<1>1. \A s \in Submissions : EarningOf(s)' = EarningOf(s)
  BY DEF EarningOf, Credited, Locked
<1>2. \A r \in RequestIds : ClaimOf(r)' = ClaimOf(r)
  BY DEF ClaimOf
<1> QED
  BY <1>1, <1>2 DEF Promise!vars

\* Without a new request, a step is about earnings only.
LEMMA ClaimsFrame ==
    ASSUME UNCHANGED request
    PROVE  [r \in RequestIds |-> ClaimOf(r)]' = [r \in RequestIds |-> ClaimOf(r)]
<1>1. \A r \in RequestIds : ClaimOf(r)' = ClaimOf(r)
  BY DEF ClaimOf
<1> QED
  BY <1>1

\* An earning whose item and cycle stay as they are stays as it is.
LEMMA EarningFrame ==
    ASSUME NEW s \in Submissions, item'[s] = item[s],
           Credited(s) => cycle'[item[s].cycle] = cycle[item[s].cycle]
    PROVE  EarningOf(s)' = EarningOf(s)
BY DEF EarningOf, Credited, Locked

\* An accrual earns.
LEMMA AccrualEarns ==
    ASSUME TypeOK, TypeOK', Accounts, Accounts', UNCHANGED request,
           NEW s \in Submissions, accrueSubmission(s)
    PROVE  Promise!Earn(s) \/ UNCHANGED Promise!vars
<1>1. CASE UNCHANGED accountVars
  BY <1>1, PromiseFrame DEF accountVars
<1>2. CASE ~UNCHANGED accountVars
  <2> DEFINE g == quality'[s].grade
  <2>1. PICK c \in Cycles :
          /\ ~Credited(s) /\ g \in Accruing
          /\ cycle[c].status = "absent"
          /\ cycle' = [cycle EXCEPT ![c] =
                [status |-> "locked", due |-> nextSettlementAt(quality'[s].approvedAt)]]
          /\ item' = [item EXCEPT ![s] = [cycle |-> c, grade |-> g, points |-> PointsOf[g],
                                          reviewedAt |-> quality'[s].approvedAt]]
    BY <1>2 DEF accrueSubmission
  <2>2. /\ item \in [Submissions -> Item] /\ cycle \in [Cycles -> Cycle]
        /\ PointsOf[g] \in Amount /\ c # NoCycle
    BY <2>1, SettlementAssumption DEF TypeOK
  <2>3. ASSUME NEW x \in Submissions \ {s} PROVE EarningOf(x)' = EarningOf(x)
    <3>1. item'[x] = item[x]
      BY <2>1, <2>2
    <3>2. Credited(x) => item[x].cycle # c /\ item[x].cycle \in Cycles
      BY <2>1, <2>2 DEF Accounts, CyclesExist, Credited, Item
    <3> QED
      BY <2>1, <2>2, <3>1, <3>2, EarningFrame
  <2>4. EarningOf(s).state = "none"
    BY <2>1, EarningCases
  <2>5. EarningOf(s)' = [state |-> "pending", amount |-> PointsOf[g]]
    <3>1. item'[s].cycle = c /\ item'[s].points = PointsOf[g] /\ cycle'[c].status = "locked"
      BY <2>1, <2>2
    <3> QED
      BY <2>2, <3>1 DEF EarningOf, Credited, Locked
  <2>6. [x \in Submissions |-> EarningOf(x)]'
          = [[x \in Submissions |-> EarningOf(x)] EXCEPT
                ![s] = [state |-> "pending", amount |-> PointsOf[g]]]
    BY <2>3, <2>5
  <2> QED
    BY <2>2, <2>4, <2>6, ClaimsFrame DEF Promise!Earn, Promise!Amount, Amount
<1> QED
  BY <1>1, <1>2

\* A correction corrects what is pending.
LEMMA AdjustmentCorrects ==
    ASSUME TypeOK, Accounts, NEW s \in Submissions, adjustItem(s)
    PROVE  Promise!Correct(s)
<1>1. PICK g \in Grades : item' = [item EXCEPT ![s].grade = g, ![s].points = PointsOf[g]]
  BY DEF adjustItem
<1>2. /\ item \in [Submissions -> Item] /\ UNCHANGED <<cycle, request>> /\ Locked(s)
      /\ PointsOf[g] \in Amount
  BY SettlementAssumption DEF adjustItem, TypeOK
<1>3. /\ item'[s].cycle = item[s].cycle /\ item'[s].points = PointsOf[g]
      /\ \A x \in Submissions \ {s} : item'[x] = item[x]
  BY <1>1, <1>2 DEF Item
<1>4. ASSUME NEW x \in Submissions \ {s} PROVE EarningOf(x)' = EarningOf(x)
  BY <1>2, <1>3, EarningFrame
<1>5. EarningOf(s).state = "pending"
  BY <1>2, EarningCases
<1>6. EarningOf(s)' = [EarningOf(s) EXCEPT !.amount = PointsOf[g]]
  BY <1>2, <1>3 DEF EarningOf, Credited, Locked
<1>7. [x \in Submissions |-> EarningOf(x)]'
        = [[x \in Submissions |-> EarningOf(x)] EXCEPT ![s].amount = PointsOf[g]]
  BY <1>4, <1>6
<1> QED
  BY <1>2, <1>5, <1>7, ClaimsFrame DEF Promise!Correct, Promise!Amount, Amount

\* A settlement makes the cycle's earnings final, those it reverses with nothing.
LEMMA SettlementFinalises ==
    ASSUME TypeOK, Accounts, NEW c \in Cycles, NEW now, cycle[c].status = "locked",
           settleCycle(c, now), UNCHANGED request
    PROVE  \E S \in SUBSET Submissions : \E V \in SUBSET S : Promise!Finalise(S, V)
<1> DEFINE S == {s \in Submissions : item[s].cycle = c}
           V == {s \in S : ~Eligible(s)}
<1>1. /\ item \in [Submissions -> Item] /\ cycle \in [Cycles -> Cycle] /\ c # NoCycle
  BY SettlementAssumption DEF TypeOK
<1>2. /\ item' = [s \in Submissions |->
            IF s \in S /\ ~Eligible(s) THEN [item[s] EXCEPT !.points = 0] ELSE item[s]]
      /\ cycle' = [cycle EXCEPT ![c].status = "settled"]
  BY DEF settleCycle
<1>3. ASSUME NEW s \in S PROVE EarningOf(s).state = "pending"
  BY <1>1, EarningCases DEF Locked, Credited
<1>4. ASSUME NEW s \in Submissions \ S PROVE EarningOf(s)' = EarningOf(s)
  <2>1. item'[s] = item[s] /\ item[s].cycle # c
    BY <1>2
  <2>2. Credited(s) => item[s].cycle \in Cycles
    BY <1>1 DEF Credited, Item
  <2> QED
    BY <1>1, <1>2, <2>1, <2>2, EarningFrame
<1>5. ASSUME NEW s \in S
      PROVE  EarningOf(s)' = [state |-> "final",
                              amount |-> IF s \in V THEN 0 ELSE EarningOf(s).amount]
  <2>1. /\ item'[s].cycle = c /\ cycle'[c].status = "settled"
        /\ item'[s].points = IF s \in V THEN 0 ELSE item[s].points
    BY <1>1, <1>2 DEF Item
  <2>2. EarningOf(s).amount = item[s].points
    BY DEF EarningOf
  <2> QED
    BY <1>1, <2>1, <2>2 DEF EarningOf, Credited, Locked
<1>6. [s \in Submissions |-> EarningOf(s)]'
        = [s \in Submissions |->
             IF s \notin S THEN [x \in Submissions |-> EarningOf(x)][s]
             ELSE [state |-> "final",
                   amount |-> IF s \in V THEN 0
                              ELSE [x \in Submissions |-> EarningOf(x)][s].amount]]
  <2> HIDE DEF V
  <2> QED
    BY <1>4, <1>5
<1>7. Promise!Finalise(S, V)
  <2>1. S \in SUBSET Submissions
    OBVIOUS
  <2> HIDE DEF S, V
  <2> QED
    BY <1>3, <1>6, <2>1, ClaimsFrame DEF Promise!Finalise
<1>8. S \in SUBSET Submissions /\ V \in SUBSET S
  OBVIOUS
<1> QED
  BY <1>7, <1>8

\* A request asks for what is final and not claimed yet, a confirmation pays it.
LEMMA PayoutClaims ==
    ASSUME TypeOK, Accounts, NEW o \in Owners, NEW k \in Keys, submit(o, k) \/ confirm(o, k)
    PROVE  Promise!Ask(o, k) \/ Promise!Pay(o, k)
<1> DEFINE r == <<o, k>>
<1>1. /\ r \in RequestIds /\ request \in [RequestIds -> Request] /\ wallet[o] \in Wallet
  BY DEF RequestIds, TypeOK
<1>2. /\ UNCHANGED <<item, cycle>>
  BY DEF submit, confirm
<1>3. [s \in Submissions |-> EarningOf(s)]' = [s \in Submissions |-> EarningOf(s)]
  <2>1. \A s \in Submissions : EarningOf(s)' = EarningOf(s)
    BY <1>2 DEF EarningOf, Credited, Locked
  <2> QED
    BY <2>1
<1>4. ASSUME NEW x \in RequestIds, request'[x] = request[x] PROVE ClaimOf(x)' = ClaimOf(x)
  BY <1>4 DEF ClaimOf
<1>5. CASE submit(o, k)
  <2>1. PICK cents \in Withdrawals :
          /\ wallet[o].available >= cents
          /\ request' = [request EXCEPT ![r] = [status |-> "pending", amount |-> cents]]
    BY <1>5 DEF submit
  <2>2. cents \in Amount \ {0}
    BY SettlementAssumption
  <2>3. Promise!Claimed(o) + cents <= Promise!Earned(o)
    BY <1>1, <2>1, <2>2, ClaimedAndEarned, MaxAmountAssumption DEF Wallet, Amount
  <2>4. ClaimOf(r)' = [state |-> "open", amount |-> cents]
    <3>1. request'[r].status = "pending" /\ request'[r].amount = cents
      BY <1>1, <2>1
    <3> QED
      BY <3>1 DEF ClaimOf, Open
  <2>5. [x \in RequestIds |-> ClaimOf(x)]'
          = [[x \in RequestIds |-> ClaimOf(x)] EXCEPT ![r] = [state |-> "open", amount |-> cents]]
    <3>1. \A x \in RequestIds \ {r} : request'[x] = request[x]
      BY <1>1, <2>1
    <3> HIDE DEF r
    <3> QED
      BY <1>1, <1>4, <2>4, <3>1
  <2>6. ClaimOf(r).state = "none"
    BY <1>1, <1>5, ClaimCases DEF submit
  <2> QED
    BY <1>1, <1>3, <2>2, <2>3, <2>5, <2>6 DEF Promise!Ask, Promise!Amount, Amount
<1>6. CASE confirm(o, k)
  <2>1. /\ request[r].status \in Open
        /\ request' = [request EXCEPT ![r].status = "paid"]
    BY <1>6 DEF confirm
  <2>2. ClaimOf(r).state = "open"
    BY <1>1, <2>1, ClaimCases
  <2>3. ClaimOf(r)' = [ClaimOf(r) EXCEPT !.state = "paid"]
    <3>1. request'[r].status = "paid" /\ request'[r].amount = request[r].amount
      BY <1>1, <2>1 DEF Request
    <3> QED
      BY <3>1 DEF ClaimOf, Open
  <2>4. [x \in RequestIds |-> ClaimOf(x)]'
          = [[x \in RequestIds |-> ClaimOf(x)] EXCEPT ![r].state = "paid"]
    <3>1. \A x \in RequestIds \ {r} : request'[x] = request[x]
      BY <1>1, <2>1
    <3> HIDE DEF r
    <3> QED
      BY <1>1, <1>4, <2>3, <3>1
  <2> QED
    BY <1>1, <1>3, <2>2, <2>4 DEF Promise!Pay
<1> QED
  BY <1>5, <1>6

\* Every step of the services is a step of the promise, or none.
LEMMA StepPromise ==
    ASSUME TypeOK, TypeOK', Accounts, Accounts', [Next]_vars
    PROVE  [Promise!Next]_(Promise!vars)
<1>1. CASE timePasses \/ UNCHANGED vars
  BY <1>1, PromiseFrame DEF timePasses, vars, accountVars
<1>2. ASSUME NEW s \in Submissions, worker(s) PROVE [Promise!Next]_(Promise!vars)
  <2>1. CASE begin(s) \/ evaluationFails(s) \/ workerDies(s)
    BY <2>1, PromiseFrame DEF begin, evaluationFails, workerDies, accountVars
  <2>2. CASE complete(s)
    BY <2>2, AccrualEarns DEF complete, Promise!Next
  <2> QED
    BY <1>2, <2>1, <2>2 DEF worker
<1>3. ASSUME NEW s \in Submissions, administrator(s) PROVE [Promise!Next]_(Promise!vars)
  <2>1. CASE rerunAiQuality(s) \/ deleteObjects(s) \/ reclaimTimedOutTask(s)
    BY <2>1, PromiseFrame DEF rerunAiQuality, deleteObjects, reclaimTimedOutTask, accountVars
  <2>2. CASE reviewQuality(s) \/ clearDuplicateCandidate(s)
    BY <2>2, AccrualEarns DEF reviewQuality, clearDuplicateCandidate, Promise!Next
  <2>3. CASE adjustItem(s)
    BY <2>3, AdjustmentCorrects DEF Promise!Next
  <2> QED
    BY <1>3, <2>1, <2>2, <2>3 DEF administrator
<1>4. ASSUME NEW o \in Owners, NEW k \in Keys, submit(o, k) \/ confirm(o, k)
      PROVE  [Promise!Next]_(Promise!vars)
  BY <1>4, PayoutClaims DEF Promise!Next
<1>5. ASSUME NEW p \in Schedulers, scan(p) PROVE [Promise!Next]_(Promise!vars)
  <2>1. CASE tick(p) \/ settleDueCycles(p) \/ transactionFails(p) \/ endTick(p) \/ restart(p)
    BY <2>1, PromiseFrame
    DEF tick, settleDueCycles, transactionFails, endTick, restart, accountVars
  <2>2. ASSUME NEW s \in Submissions, reconcileAccrual(p, s)
        PROVE  [Promise!Next]_(Promise!vars)
    BY <2>2, AccrualEarns DEF reconcileAccrual, Promise!Next
  <2>3. ASSUME NEW c \in Cycles, settleDueCycle(p, c) PROVE [Promise!Next]_(Promise!vars)
    <3>1. CASE cycle[c].status = "locked"
      BY <2>3, <3>1, SettlementFinalises DEF settleDueCycle, Promise!Next
    <3>2. CASE cycle[c].status # "locked"
      BY <2>3, <3>2, PromiseFrame DEF settleDueCycle, accountVars
    <3> QED
      BY <3>1, <3>2
  <2> QED
    BY <1>5, <2>1, <2>2, <2>3 DEF scan
<1> QED
  BY <1>1, <1>2, <1>3, <1>4, <1>5 DEF Next

\* What the platform does with money is what it promises a collector: an earning
\* is credited once, corrected only while pending, final for ever, and claimed
\* within what is final.
THEOREM PromiseKept == Spec => KeepsPromise
<1>1. Init => Promise!Init
  BY InitType, InitAccounts, InitPromise
<1>2. TypeOK /\ TypeOK' /\ Accounts /\ Accounts' /\ [Next]_vars => [Promise!Next]_(Promise!vars)
  BY StepPromise
<1> QED
  BY <1>1, <1>2, TypeCorrect, AccountsBalance, PTL DEF Spec, KeepsPromise, Promise!Spec

\* Nobody has ever asked for more money than was made final for them, whatever
\* settlements, requests and confirmations overlap.
THEOREM NobodyOverdraws == Spec => []Promise!Solvent
<1>1. TypeOK /\ Accounts => Promise!Solvent
  <2> SUFFICES ASSUME TypeOK, Accounts, NEW o \in Owners
               PROVE  Promise!Claimed(o) <= Promise!Earned(o)
    BY DEF Promise!Solvent
  <2>1. wallet[o].available \in Nat /\ wallet[o].reserved \in Nat /\ wallet[o].withdrawn \in Nat
    BY DEF TypeOK, Wallet
  <2>2. QED
    BY <2>1, ClaimedAndEarned
<1>2. QED
  BY <1>1, TypeCorrect, AccountsBalance, PTL
=============================================================================
