-------------------------- MODULE Settlement_proofs --------------------------
(***************************************************************************)
(* Theorems about Settlement, for any number of submissions, owners,       *)
(* cycles, keys and schedulers, any calendar and any prices.               *)
(***************************************************************************)
EXTENDS Settlement, SumTheorems

-----------------------------------------------------------------------------
(* Totals over items and requests.  They are stated over a constant table,  *)
(* so that they apply to a state and to its successor alike.                *)

\* A set of submissions is finite, and so is a set of requests.
LEMMA FiniteTables ==
    /\ \A S \in SUBSET Submissions : IsFiniteSet(S)
    /\ \A R \in SUBSET RequestIds : IsFiniteSet(R)
<1>1. IsFiniteSet(RequestIds)
  BY SettlementAssumption, FS_Product DEF RequestIds
<1> QED
  BY <1>1, SettlementAssumption, FS_Subset

\* The points of any items are a natural number.
LEMMA PointsType ==
    ASSUME NEW items \in [Submissions -> Item], NEW S \in SUBSET Submissions
    PROVE  TotalPoints(items, S) \in Nat
<1>1. [s \in S |-> items[s].points] \in [S -> Amount]
  BY DEF Item
<1> QED
  BY <1>1, FiniteTables, SumType DEF TotalPoints

\* Disjoint sets of items are worth the sum of what each is worth.
LEMMA PointsSplit ==
    ASSUME NEW items \in [Submissions -> Item],
           NEW S \in SUBSET Submissions, NEW T \in SUBSET Submissions, S \cap T = {}
    PROVE  TotalPoints(items, S \cup T) = TotalPoints(items, S) + TotalPoints(items, T)
<1> DEFINE f == [s \in S \cup T |-> items[s].points]
<1>1. f \in [S \cup T -> Amount]
  BY DEF Item
<1>2. Sum(f) = Sum([s \in S |-> f[s]]) + Sum([s \in T |-> f[s]])
  <2> HIDE DEF f
  <2> QED
    BY <1>1, FiniteTables, SumDisjoint
<1>3. [s \in S |-> f[s]] = [s \in S |-> items[s].points]
  OBVIOUS
<1>4. [s \in T |-> f[s]] = [s \in T |-> items[s].points]
  OBVIOUS
<1> QED
  BY <1>2, <1>3, <1>4 DEF TotalPoints

\* Items whose points are equal are worth the same.
LEMMA PointsFrame ==
    ASSUME NEW items, NEW others, NEW S,
           \A s \in S : items[s].points = others[s].points
    PROVE  TotalPoints(items, S) = TotalPoints(others, S)
<1>1. [s \in S |-> items[s].points] = [s \in S |-> others[s].points]
  OBVIOUS
<1> QED
  BY <1>1 DEF TotalPoints

\* No item is worth nothing, one item is worth its points.
LEMMA PointsOfFew ==
    ASSUME NEW items \in [Submissions -> Item]
    PROVE  /\ TotalPoints(items, {}) = 0
           /\ \A s \in Submissions : TotalPoints(items, {s}) = items[s].points
<1>1. TotalPoints(items, {}) = 0
  <2>1. [s \in {} |-> items[s].points] \in [{} -> Amount]
    OBVIOUS
  <2> QED
    BY <2>1, SumEmpty DEF TotalPoints
<1>2. ASSUME NEW s \in Submissions
      PROVE  TotalPoints(items, {s}) = items[s].points
  <2> DEFINE f == [x \in {s} |-> items[x].points]
  <2>1. f \in [{s} -> Amount] /\ f[s] = items[s].points
    BY DEF Item
  <2>2. Sum(f) = f[s]
    <3> HIDE DEF f
    <3> QED
      BY <2>1, SumSingle
  <2> QED
    BY <2>1, <2>2 DEF TotalPoints
<1> QED
  BY <1>1, <1>2

\* One more item adds its points.
LEMMA PointsInsert ==
    ASSUME NEW items \in [Submissions -> Item],
           NEW S \in SUBSET Submissions, NEW s \in Submissions, s \notin S
    PROVE  TotalPoints(items, S \cup {s}) = TotalPoints(items, S) + items[s].points
<1>1. {s} \in SUBSET Submissions /\ S \cap {s} = {}
  OBVIOUS
<1> QED
  BY <1>1, PointsSplit, PointsOfFew

-----------------------------------------------------------------------------
(* The same for the amounts of requests. *)

\* The amounts of any requests are a natural number.
LEMMA AmountsType ==
    ASSUME NEW requests \in [RequestIds -> Request], NEW R \in SUBSET RequestIds
    PROVE  TotalAmounts(requests, R) \in Nat
<1>1. [r \in R |-> requests[r].amount] \in [R -> Amount]
  BY DEF Request
<1> QED
  BY <1>1, FiniteTables, SumType DEF TotalAmounts

\* Requests whose amounts are equal total the same.
LEMMA AmountsFrame ==
    ASSUME NEW requests, NEW others, NEW R,
           \A r \in R : requests[r].amount = others[r].amount
    PROVE  TotalAmounts(requests, R) = TotalAmounts(others, R)
<1>1. [r \in R |-> requests[r].amount] = [r \in R |-> others[r].amount]
  OBVIOUS
<1> QED
  BY <1>1 DEF TotalAmounts

\* Disjoint sets of requests total the sum of what each totals.
LEMMA AmountsSplit ==
    ASSUME NEW requests \in [RequestIds -> Request],
           NEW Q \in SUBSET RequestIds, NEW R \in SUBSET RequestIds, Q \cap R = {}
    PROVE  TotalAmounts(requests, Q \cup R) = TotalAmounts(requests, Q) + TotalAmounts(requests, R)
<1> DEFINE f == [r \in Q \cup R |-> requests[r].amount]
<1>0. IsFiniteSet(Q) /\ IsFiniteSet(R)
  BY FiniteTables
<1>1. f \in [Q \cup R -> Amount]
  BY DEF Request
<1>2. Sum(f) = Sum([r \in Q |-> f[r]]) + Sum([r \in R |-> f[r]])
  <2> HIDE DEF f
  <2> QED
    BY <1>0, <1>1, SumDisjoint
<1>3. [r \in Q |-> f[r]] = [r \in Q |-> requests[r].amount]
  OBVIOUS
<1>4. [r \in R |-> f[r]] = [r \in R |-> requests[r].amount]
  OBVIOUS
<1> QED
  BY <1>2, <1>3, <1>4 DEF TotalAmounts

\* One request totals its amount.
LEMMA AmountsOfOne ==
    ASSUME NEW requests \in [RequestIds -> Request], NEW r \in RequestIds
    PROVE  TotalAmounts(requests, {r}) = requests[r].amount
<1> DEFINE f == [x \in {r} |-> requests[x].amount]
<1>1. f \in [{r} -> Amount] /\ f[r] = requests[r].amount
  BY DEF Request
<1>2. Sum(f) = f[r]
  <2> HIDE DEF f
  <2> QED
    BY <1>1, SumSingle
<1> QED
  BY <1>1, <1>2 DEF TotalAmounts

\* One more request adds its amount.
LEMMA AmountsInsert ==
    ASSUME NEW requests \in [RequestIds -> Request],
           NEW R \in SUBSET RequestIds, NEW r \in RequestIds, r \notin R
    PROVE  TotalAmounts(requests, R \cup {r}) = TotalAmounts(requests, R) + requests[r].amount
<1>1. {r} \in SUBSET RequestIds /\ R \cap {r} = {}
  OBVIOUS
<1> QED
  BY <1>1, AmountsSplit, AmountsOfOne

-----------------------------------------------------------------------------
(* Type correctness *)

\* The next settlement of an approval is an instant.
LEMMA NextSettlementType == \A t \in Instant : nextSettlementAt(t) \in Instant
BY CalendarAssumption DEF nextSettlementAt, LocalDay, Instant

\* A credit that the wallet accepts leaves a wallet.
LEMMA CreditType ==
    ASSUME NEW w \in Wallet, NEW amount \in Int, CanCredit(w, amount)
    PROVE  creditSettling(w, amount) \in Wallet
<1>1. w.total + amount \in Nat /\ w.settling + amount \in Nat
  BY DEF CanCredit, Wallet
<1> QED
  BY <1>1 DEF creditSettling, Wallet

\* A settlement that the wallet accepts leaves a wallet.
LEMMA SettleType ==
    ASSUME NEW w \in Wallet, NEW amount \in Int, CanSettle(w, amount)
    PROVE  settleToAvailable(w, amount) \in Wallet
<1>1. w.settling - amount \in Nat /\ w.available + amount \in Nat
  BY DEF CanSettle, Wallet
<1>2. (w.settling - amount) + (w.available + amount) + w.reserved + w.withdrawn \in Nat
  BY <1>1 DEF Wallet
<1> QED
  BY <1>1, <1>2 DEF settleToAvailable, Wallet

\* Accruing one submission keeps the shape of the account tables.
LEMMA AccrualType ==
    ASSUME TypeOK, NEW s \in Submissions, (quality \in [Submissions -> Quality])',
           accrueSubmission(s)
    PROVE  /\ (cycle \in [Cycles -> Cycle])'
           /\ (item \in [Submissions -> Item])'
           /\ (wallet \in [Owners -> Wallet])'
           /\ (ledger \in [Cycles -> [Owners -> Int]])'
<1>1. CASE Eligible(s)' /\ ~Credited(s) /\ quality'[s].grade \in Accruing
  <2> DEFINE q == quality'[s]
             o == OwnerOf[s]
             paid == PointsOf[q.grade]
  <2>1. PICK c \in Cycles :
          /\ CanCredit(wallet[o], paid)
          /\ cycle' = [cycle EXCEPT ![c] =
                [status |-> "locked", due |-> nextSettlementAt(q.approvedAt)]]
          /\ item' = [item EXCEPT ![s] = [cycle |-> c, grade |-> q.grade, points |-> paid,
                                          reviewedAt |-> q.approvedAt]]
          /\ wallet' = [wallet EXCEPT ![o] = creditSettling(@, paid)]
          /\ ledger' = [ledger EXCEPT ![c][o] = @ + paid]
    BY <1>1 DEF accrueSubmission
  <2>2. q \in Quality /\ q.approvedAt \in Instant /\ o \in Owners
    BY SettlementAssumption DEF Quality
  <2>3. q.grade \in Grades /\ paid \in Amount
    BY <1>1, SettlementAssumption
  <2>4. (cycle \in [Cycles -> Cycle])'
    BY <2>1, <2>2, NextSettlementType DEF TypeOK, Cycle
  <2>5. (item \in [Submissions -> Item])'
    BY <2>1, <2>2, <2>3 DEF TypeOK, Item
  <2>6. (wallet \in [Owners -> Wallet])'
    <3>1. creditSettling(wallet[o], paid) \in Wallet
      BY <2>1, <2>2, <2>3, CreditType, MaxAmountAssumption DEF TypeOK, Amount
    <3> QED
      BY <2>1, <2>2, <3>1 DEF TypeOK
  <2>7. (ledger \in [Cycles -> [Owners -> Int]])'
    BY <2>1, <2>2, <2>3, MaxAmountAssumption DEF TypeOK, Amount
  <2> QED
    BY <2>4, <2>5, <2>6, <2>7
<1>2. CASE ~(Eligible(s)' /\ ~Credited(s) /\ quality'[s].grade \in Accruing)
  BY <1>2 DEF accrueSubmission, accountVars, TypeOK
<1> QED
  BY <1>1, <1>2

\* Settling one cycle keeps the shape of the account tables.
LEMMA SettlementType ==
    ASSUME TypeOK, NEW c \in Cycles, NEW now, settleCycle(c, now)
    PROVE  /\ (cycle \in [Cycles -> Cycle])'
           /\ (item \in [Submissions -> Item])'
           /\ (wallet \in [Owners -> Wallet])'
           /\ (ledger \in [Cycles -> [Owners -> Int]])'
           /\ (retention \subseteq Submissions)'
<1> DEFINE members == {s \in Submissions : item[s].cycle = c}
           owners  == {OwnerOf[s] : s \in members}
<1>1. \A o \in Owners : Payable(c, o) \in Nat /\ Reversed(c, o) \in Nat
  BY PointsType DEF TypeOK, Payable, Reversed, Points, ItemsIn
<1>2. (cycle \in [Cycles -> Cycle])'
  BY DEF settleCycle, TypeOK, Cycle
<1>3. (item \in [Submissions -> Item])'
  <2>1. 0 \in Amount
    BY MaxAmountAssumption DEF Amount
  <2>2. ASSUME NEW s \in Submissions
        PROVE  [item[s] EXCEPT !.points = 0] \in Item
    BY <2>1 DEF TypeOK, Item
  <2> QED
    BY <2>2 DEF settleCycle, TypeOK
<1>4. (wallet \in [Owners -> Wallet])'
  <2>1. ASSUME NEW o \in Owners, o \in owners
        PROVE  settleToAvailable(creditSettling(wallet[o], -Reversed(c, o)), Payable(c, o))
                 \in Wallet
    <3>1. /\ CanCredit(wallet[o], -Reversed(c, o))
          /\ CanSettle(creditSettling(wallet[o], -Reversed(c, o)), Payable(c, o))
      BY <2>1 DEF settleCycle
    <3>2. creditSettling(wallet[o], -Reversed(c, o)) \in Wallet
      BY <1>1, <3>1, CreditType DEF TypeOK
    <3> QED
      BY <1>1, <3>1, <3>2, SettleType
  <2> QED
    BY <2>1 DEF settleCycle, TypeOK
<1>5. (ledger \in [Cycles -> [Owners -> Int]])'
  BY <1>1 DEF settleCycle, TypeOK
<1>6. (retention \subseteq Submissions)'
  BY DEF settleCycle, TypeOK, PaidSubmissions
<1> QED
  BY <1>2, <1>3, <1>4, <1>5, <1>6

\* The migrated database has the shape of the tables.
LEMMA InitType == Init => TypeOK
<1> SUFFICES ASSUME Init PROVE TypeOK
  OBVIOUS
<1>1. item \in [Submissions -> Item] /\ request \in [RequestIds -> Request]
  BY ImportAssumption DEF Init
<1>2. \A o \in Owners : /\ PendingPoints(o) \in Nat
                        /\ RequestedIn(Open, o) \in Nat
                        /\ RequestedIn({"paid"}, o) \in Nat
  <2>1. ASSUME NEW o \in Owners PROVE PendingPoints(o) \in Nat
    BY <1>1, PointsType DEF PendingPoints, PendingOf, Points
  <2>2. ASSUME NEW o \in Owners, NEW S PROVE RequestedIn(S, o) \in Nat
    BY <1>1, AmountsType DEF RequestedIn, RequestsIn
  <2> QED
    BY <2>1, <2>2
<1>3. wallet \in [Owners -> Wallet]
  <2>1. ASSUME NEW o \in Owners PROVE wallet[o] \in Wallet
    <3>1. /\ Opening[o] \in Nat
          /\ wallet[o].available >= 0
          /\ wallet[o] = [total |-> PendingPoints(o) + Opening[o], settling |-> PendingPoints(o),
                available |-> Opening[o] - RequestedIn(Open, o) - RequestedIn({"paid"}, o),
                reserved |-> RequestedIn(Open, o), withdrawn |-> RequestedIn({"paid"}, o)]
      BY SettlementAssumption DEF Init
    <3> QED
      BY <1>2, <3>1 DEF Wallet
  <2>2. wallet = [o \in Owners |-> wallet[o]]
    BY DEF Init
  <2> QED
    BY <2>1, <2>2
<1>4. ledger \in [Cycles -> [Owners -> Int]]
  <2>1. \A c \in Cycles, o \in Owners : CyclePoints(c, o) \in Nat
    BY <1>1, PointsType DEF CyclePoints, ItemsIn, Points
  <2> QED
    BY <2>1 DEF Init
<1>5. scheduler \in [Schedulers -> Scan]
  BY DEF Init, Idle, Scan, Instant
<1>6. /\ quality \in [Submissions -> Quality] /\ cycle \in [Cycles -> Cycle]
      /\ clock \in Nat /\ crashes \in Nat /\ retention \subseteq Submissions
      /\ asset \in [Submissions -> {"active", "quarantined"}]
      /\ storage \in [Submissions -> {"available", "deleted"}]
      /\ evaluating \in [Submissions -> Nat]
  BY ImportAssumption DEF Init
<1>7. duplicates \in [Submissions -> Nat]
  BY SettlementAssumption DEF Init
<1> QED
  BY <1>1, <1>3, <1>4, <1>5, <1>6, <1>7 DEF TypeOK

\* A verdict stays one when its status, or its review, changes.
LEMMA VerdictType ==
    ASSUME NEW q \in Quality
    PROVE  /\ \A status \in Statuses : [q EXCEPT !.status = status] \in Quality
           /\ \A g \in Grades, t \in Instant :
                 [q EXCEPT !.grade = g, !.manual = TRUE, !.approvedAt = t] \in Quality
BY DEF Quality

\* The worker's steps keep the shape of the tables.
LEMMA WorkerType ==
    ASSUME TypeOK, NEW s \in Submissions, worker(s)
    PROVE  TypeOK'
<1>1. CASE begin(s)
  <2>1. (quality \in [Submissions -> Quality])'
    BY <1>1, VerdictType DEF begin, TypeOK, Statuses
  <2> QED
    BY <1>1, <2>1 DEF begin, accountVars, TypeOK
<1>2. CASE complete(s)
  <2>1. (quality \in [Submissions -> Quality])'
    <3>1. PICK verdict \in Completed, g \in Grades :
            quality' = [quality EXCEPT ![s] =
              IF @.manual THEN [@ EXCEPT !.status = verdict]
              ELSE [status |-> verdict, grade |-> IF verdict = "scored" THEN g ELSE NoGrade,
                    manual |-> FALSE, approvedAt |-> clock]]
      BY <1>2 DEF complete
    <3>2. verdict \in Statuses
      BY DEF Completed, Statuses
    <3>3. [quality[s] EXCEPT !.status = verdict] \in Quality
      BY <3>2 DEF TypeOK, Quality
    <3>4. [status |-> verdict, grade |-> IF verdict = "scored" THEN g ELSE NoGrade,
           manual |-> FALSE, approvedAt |-> clock] \in Quality
      BY <3>2 DEF TypeOK, Quality, Instant
    <3> QED
      BY <3>1, <3>3, <3>4 DEF TypeOK
  <2>2. (asset \in [Submissions -> {"active", "quarantined"}])'
    BY <1>2 DEF complete, TypeOK
  <2>3. (evaluating \in [Submissions -> Nat])'
    BY <1>2 DEF complete, TypeOK
  <2>4. accrueSubmission(s)
    BY <1>2 DEF complete
  <2> QED
    BY <1>2, <2>1, <2>2, <2>3, <2>4, AccrualType DEF complete, TypeOK
<1>3. CASE evaluationFails(s)
  <2>1. (quality \in [Submissions -> Quality])'
    <3>1. PICK status \in Statuses : quality' = [quality EXCEPT ![s].status = status]
      BY <1>3 DEF evaluationFails, Statuses
    <3> QED
      BY <3>1, VerdictType DEF TypeOK
  <2> QED
    BY <1>3, <2>1 DEF evaluationFails, accountVars, TypeOK
<1>4. CASE workerDies(s)
  BY <1>4 DEF workerDies, accountVars, TypeOK
<1> QED
  BY <1>1, <1>2, <1>3, <1>4 DEF worker

\* The administrator's and the reclaimer's steps keep the shape of the tables.
LEMMA AdministratorType ==
    ASSUME TypeOK, NEW s \in Submissions, administrator(s)
    PROVE  TypeOK'
<1>1. CASE reviewQuality(s)
  <2>1. (quality \in [Submissions -> Quality])'
    <3>1. PICK g \in Grades : quality' = [quality EXCEPT ![s] =
            [@ EXCEPT !.grade = g, !.manual = TRUE, !.approvedAt = clock]]
      BY <1>1 DEF reviewQuality
    <3>2. [quality[s] EXCEPT !.grade = g, !.manual = TRUE, !.approvedAt = clock] \in Quality
      <4>1. quality[s] \in Quality /\ clock \in Instant
        BY DEF TypeOK, Instant
      <4> QED
        BY <4>1, VerdictType
    <3> QED
      BY <3>1, <3>2 DEF TypeOK
  <2>2. (asset \in [Submissions -> {"active", "quarantined"}])'
    BY <1>1 DEF reviewQuality, TypeOK
  <2>3. accrueSubmission(s)
    BY <1>1 DEF reviewQuality
  <2> QED
    BY <1>1, <2>1, <2>2, <2>3, AccrualType DEF reviewQuality, TypeOK
<1>2. CASE rerunAiQuality(s)
  <2>1. Unjudged \in Quality
    BY DEF Unjudged, Quality, Statuses, Instant
  <2> QED
    BY <1>2, <2>1 DEF rerunAiQuality, accountVars, TypeOK
<1>3. CASE clearDuplicateCandidate(s)
  <2>1. (duplicates \in [Submissions -> Nat])'
    BY <1>3 DEF clearDuplicateCandidate, TypeOK
  <2>2. (quality \in [Submissions -> Quality])' /\ accrueSubmission(s)
    BY <1>3 DEF clearDuplicateCandidate, TypeOK
  <2> QED
    BY <1>3, <2>1, <2>2, AccrualType DEF clearDuplicateCandidate, TypeOK
<1>4. CASE deleteObjects(s)
  BY <1>4 DEF deleteObjects, accountVars, TypeOK
<1>5. CASE adjustItem(s)
  <2>1. PICK g \in Grades \ {item[s].grade} :
          /\ CanCredit(wallet[OwnerOf[s]], PointsOf[g] - item[s].points)
          /\ item' = [item EXCEPT ![s].grade = g, ![s].points = PointsOf[g]]
          /\ wallet' = [wallet EXCEPT ![OwnerOf[s]] =
                creditSettling(@, PointsOf[g] - item[s].points)]
          /\ ledger' = [ledger EXCEPT ![item[s].cycle][OwnerOf[s]] =
                @ + (PointsOf[g] - item[s].points)]
    BY <1>5 DEF adjustItem
  <2>2. /\ OwnerOf[s] \in Owners /\ PointsOf[g] \in Amount /\ item[s].points \in Amount
        /\ PointsOf[g] - item[s].points \in Int
    BY SettlementAssumption, MaxAmountAssumption DEF TypeOK, Item, Amount
  <2>3. (item \in [Submissions -> Item])'
    <3>1. [item[s] EXCEPT !.grade = g, !.points = PointsOf[g]] \in Item
      BY <2>2 DEF TypeOK, Item
    <3>2. item' = [item EXCEPT ![s] = [item[s] EXCEPT !.grade = g, !.points = PointsOf[g]]]
      BY <2>1 DEF TypeOK
    <3> QED
      BY <3>1, <3>2 DEF TypeOK
  <2>4. (wallet \in [Owners -> Wallet])'
    BY <2>1, <2>2, CreditType DEF TypeOK
  <2>5. (ledger \in [Cycles -> [Owners -> Int]])'
    <3>1. item[s].cycle \in Cycles
      BY <1>5 DEF adjustItem, Locked, Credited, TypeOK, Item
    <3> QED
      BY <2>1, <2>2, <3>1 DEF TypeOK
  <2> QED
    BY <1>5, <2>3, <2>4, <2>5 DEF adjustItem, verdictVars, TypeOK
<1>6. CASE reclaimTimedOutTask(s)
  <2>1. (quality \in [Submissions -> Quality])'
    <3>1. PICK status \in Statuses : quality' = [quality EXCEPT ![s].status = status]
      BY <1>6 DEF reclaimTimedOutTask, Statuses
    <3> QED
      BY <3>1, VerdictType DEF TypeOK
  <2> QED
    BY <1>6, <2>1 DEF reclaimTimedOutTask, accountVars, TypeOK
<1> QED
  BY <1>1, <1>2, <1>3, <1>4, <1>5, <1>6 DEF administrator

\* Withdrawals keep the shape of the tables.
LEMMA PayoutType ==
    ASSUME TypeOK, NEW o \in Owners, NEW k \in Keys, submit(o, k) \/ confirm(o, k)
    PROVE  TypeOK'
<1>0. <<o, k>> \in RequestIds
  BY DEF RequestIds
<1>1. CASE submit(o, k)
  <2>1. PICK cents \in Withdrawals :
          /\ wallet[o].available >= cents
          /\ request' = [request EXCEPT ![<<o, k>>] = [status |-> "pending", amount |-> cents]]
          /\ wallet' = [wallet EXCEPT ![o].available = @ - cents, ![o].reserved = @ + cents]
    BY <1>1 DEF submit
  <2>2. cents \in Amount /\ cents \in Nat
    BY SettlementAssumption, MaxAmountAssumption DEF Amount
  <2>3. (request \in [RequestIds -> Request])'
    BY <1>0, <2>1, <2>2 DEF TypeOK, Request, Open
  <2>4. (wallet \in [Owners -> Wallet])'
    <3>1. wallet[o].available - cents \in Nat /\ wallet[o].reserved + cents \in Nat
      BY <2>1, <2>2 DEF TypeOK, Wallet
    <3> QED
      BY <2>1, <3>1 DEF TypeOK, Wallet
  <2> QED
    BY <1>1, <2>3, <2>4 DEF submit, verdictVars, TypeOK
<1>2. CASE confirm(o, k)
  <2>1. request[<<o, k>>].amount \in Nat
    BY <1>0, MaxAmountAssumption DEF TypeOK, Request, Amount
  <2>2. (request \in [RequestIds -> Request])'
    BY <1>0, <1>2 DEF confirm, TypeOK, Request
  <2>3. (wallet \in [Owners -> Wallet])'
    <3> DEFINE cents == request[<<o, k>>].amount
    <3>1. wallet[o].reserved - cents \in Nat /\ wallet[o].withdrawn + cents \in Nat
      BY <1>2, <2>1 DEF confirm, moveReserve, TypeOK, Wallet
    <3>2. [wallet[o] EXCEPT !.reserved = @ - cents, !.withdrawn = @ + cents] \in Wallet
      BY <3>1 DEF TypeOK, Wallet
    <3>3. wallet' = [wallet EXCEPT ![o] =
                       [wallet[o] EXCEPT !.reserved = @ - cents, !.withdrawn = @ + cents]]
      BY <1>2 DEF confirm, moveReserve, TypeOK
    <3> QED
      BY <3>2, <3>3 DEF TypeOK
  <2> QED
    BY <1>2, <2>2, <2>3 DEF confirm, verdictVars, TypeOK
<1> QED
  BY <1>1, <1>2

\* The scheduler's steps keep the shape of the tables.
LEMMA ScanType ==
    ASSUME TypeOK, NEW p \in Schedulers, scan(p)
    PROVE  TypeOK'
<1>0. ASSUME NEW id, Done(p, id) PROVE (scheduler \in [Schedulers -> Scan])'
  BY <1>0 DEF Done, TypeOK, Scan
<1>1. CASE tick(p)
  BY <1>1 DEF tick, verdictVars, accountVars, TypeOK, Scan, Instant
<1>2. CASE settleDueCycles(p)
  BY <1>2 DEF settleDueCycles, verdictVars, accountVars, TypeOK, Scan, Instant
<1>3. CASE transactionFails(p)
  BY <1>0, <1>3 DEF transactionFails, verdictVars, accountVars, TypeOK
<1>4. CASE endTick(p)
  BY <1>4 DEF endTick, verdictVars, accountVars, TypeOK, Scan, Idle, Instant
<1>5. CASE restart(p)
  BY <1>5 DEF restart, verdictVars, accountVars, TypeOK, Scan, Idle, Instant
<1>6. ASSUME NEW s \in Submissions, reconcileAccrual(p, s) PROVE TypeOK'
  <2>1. (quality \in [Submissions -> Quality])' /\ accrueSubmission(s)
    BY <1>6 DEF reconcileAccrual, verdictVars, TypeOK
  <2> QED
    BY <1>0, <1>6, <2>1, AccrualType DEF reconcileAccrual, verdictVars, TypeOK
<1>7. ASSUME NEW c \in Cycles, settleDueCycle(p, c) PROVE TypeOK'
  <2>1. CASE cycle[c].status = "locked"
    BY <1>0, <1>7, <2>1, SettlementType DEF settleDueCycle, verdictVars, TypeOK
  <2>2. CASE cycle[c].status # "locked"
    BY <1>0, <1>7, <2>2 DEF settleDueCycle, verdictVars, accountVars, TypeOK
  <2> QED
    BY <2>1, <2>2
<1> QED
  BY <1>1, <1>2, <1>3, <1>4, <1>5, <1>6, <1>7 DEF scan

\* No step of the system leaves the shape of its tables: in particular no
\* balance of a wallet is ever negative.
LEMMA StepType == TypeOK /\ [Next]_vars => TypeOK'
<1> SUFFICES ASSUME TypeOK, [Next]_vars PROVE TypeOK'
  OBVIOUS
<1>1. CASE timePasses
  BY <1>1 DEF timePasses, verdictVars, accountVars, TypeOK
<1>2. CASE UNCHANGED vars
  BY <1>2 DEF vars, verdictVars, accountVars, TypeOK
<1> QED
  BY <1>1, <1>2, WorkerType, AdministratorType, PayoutType, ScanType DEF Next

\* Every reachable state has the shape of the tables; the balances are naturals.
THEOREM TypeCorrect == Spec => []TypeOK
<1> QED
  BY InitType, StepType, PTL DEF Spec
=============================================================================
