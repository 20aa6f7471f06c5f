---------------------- MODULE SettlementAccounts_proofs ----------------------
(***************************************************************************)
(* The books balance.  Accounts is inductive: each operation that moves    *)
(* money changes the wallet, the items, the lock transactions and the      *)
(* requests by the same amount, and every other operation leaves all four  *)
(* alone.  What the scheduler and the wallet view rely on follows.         *)
(***************************************************************************)
EXTENDS Settlement_proofs

-----------------------------------------------------------------------------
(* More on totals *)

\* Items that are all worth nothing are worth nothing together.
LEMMA PointsZero ==
    ASSUME NEW items \in [Submissions -> Item], NEW S \in SUBSET Submissions,
           \A s \in S : items[s].points = 0
    PROVE  TotalPoints(items, S) = 0
<1> DEFINE f == [s \in S |-> items[s].points]
<1>1. f \in [S -> Amount] /\ \A s \in S : f[s] = 0
  BY DEF Item
<1>2. Sum(f) \in Nat /\ ~(Sum(f) > 0)
  <2>1. IsFiniteSet(S)
    BY FiniteTables
  <2> HIDE DEF f
  <2> QED
    BY <1>1, <2>1, SumType, SumPositive
<1> QED
  BY <1>2 DEF TotalPoints

\* Changing the points of one item changes what it is counted in by the difference.
LEMMA PointsChange ==
    ASSUME NEW items \in [Submissions -> Item], NEW others \in [Submissions -> Item],
           NEW S \in SUBSET Submissions, NEW s \in S,
           \A x \in S \ {s} : items[x].points = others[x].points
    PROVE  TotalPoints(others, S) = TotalPoints(items, S) + (others[s].points - items[s].points)
<1> DEFINE R == S \ {s}
<1>1. R \in SUBSET Submissions /\ s \in Submissions /\ s \notin R /\ S = R \cup {s}
  OBVIOUS
<1>2. /\ TotalPoints(items, S) = TotalPoints(items, R) + items[s].points
      /\ TotalPoints(others, S) = TotalPoints(others, R) + others[s].points
  <2> HIDE DEF R
  <2> QED
    BY <1>1, PointsInsert
<1>3. TotalPoints(items, R) = TotalPoints(others, R)
  BY PointsFrame
<1>4. TotalPoints(items, R) \in Nat
  BY <1>1, PointsType
<1>5. items[s].points \in Nat /\ others[s].points \in Nat
  BY <1>1, MaxAmountAssumption DEF Item, Amount
<1> QED
  BY <1>2, <1>3, <1>4, <1>5

\* A wallet is consistent when its total is the sum of its parts.
LEMMA Consistency ==
    ASSUME NEW w \in Wallet
    PROVE  requireConsistentBalance(w)
              <=> w.total = w.settling + w.available + w.reserved + w.withdrawn
BY DEF requireConsistentBalance, Wallet

\* What a cycle is worth to an owner is what it would pay and what it would reverse.
LEMMA PayableAndReversed ==
    ASSUME TypeOK, NEW c \in Cycles, NEW o \in Owners
    PROVE  /\ Payable(c, o) \in Nat /\ Reversed(c, o) \in Nat
           /\ CyclePoints(c, o) = Payable(c, o) + Reversed(c, o)
<1> DEFINE good == {s \in ItemsIn(c, o) : Eligible(s)}
           bad  == {s \in ItemsIn(c, o) : ~Eligible(s)}
<1>1. /\ good \in SUBSET Submissions /\ bad \in SUBSET Submissions
      /\ good \cap bad = {} /\ ItemsIn(c, o) = good \cup bad
  BY DEF ItemsIn
<1>2. item \in [Submissions -> Item]
  BY DEF TypeOK
<1> HIDE DEF good, bad
<1>3. /\ TotalPoints(item, good) \in Nat /\ TotalPoints(item, bad) \in Nat
      /\ TotalPoints(item, ItemsIn(c, o)) = TotalPoints(item, good) + TotalPoints(item, bad)
  BY <1>1, <1>2, PointsType, PointsSplit
<1> QED
  BY <1>3 DEF good, bad, Payable, Reversed, CyclePoints, Points

\* What a locked cycle is worth to an owner is part of what is pending for them.
LEMMA CyclePending ==
    ASSUME TypeOK, NEW c \in Cycles, NEW o \in Owners, cycle[c].status = "locked"
    PROVE  /\ ItemsIn(c, o) \subseteq PendingOf(o)
           /\ TotalPoints(item, PendingOf(o) \ ItemsIn(c, o)) \in Nat
           /\ PendingPoints(o)
                = TotalPoints(item, PendingOf(o) \ ItemsIn(c, o)) + CyclePoints(c, o)
<1> DEFINE rest == PendingOf(o) \ ItemsIn(c, o)
<1>1. ItemsIn(c, o) \subseteq PendingOf(o)
  BY SettlementAssumption DEF ItemsIn, PendingOf, Locked, Credited
<1>2. /\ rest \in SUBSET Submissions /\ ItemsIn(c, o) \in SUBSET Submissions
      /\ rest \cap ItemsIn(c, o) = {} /\ PendingOf(o) = rest \cup ItemsIn(c, o)
  BY <1>1 DEF ItemsIn, PendingOf
<1>3. item \in [Submissions -> Item]
  BY DEF TypeOK
<1>4. /\ TotalPoints(item, rest) \in Nat
      /\ TotalPoints(item, PendingOf(o))
           = TotalPoints(item, rest) + TotalPoints(item, ItemsIn(c, o))
  <2> HIDE DEF rest
  <2> QED
    BY <1>2, <1>3, PointsType, PointsSplit
<1> QED
  BY <1>1, <1>4 DEF PendingPoints, CyclePoints, Points

-----------------------------------------------------------------------------
(* The operations that move money *)

\* Whatever leaves the items, cycles, wallets, lock transactions and requests
\* alone leaves the books alone.
LEMMA AccountsFrame == Accounts /\ UNCHANGED <<accountVars, request>> => Accounts'
<1> SUFFICES ASSUME Accounts, UNCHANGED <<accountVars, request>> PROVE Accounts'
  OBVIOUS
<1>1. UNCHANGED <<item, cycle, wallet, ledger, request>>
  BY DEF accountVars
<1>2. (CyclesExist /\ Balanced)'
  BY <1>1 DEF Accounts, CyclesExist, Credited, Balanced
<1>3. PendingBacked'
  BY <1>1 DEF Accounts, PendingBacked, PendingPoints, PendingOf, Locked, Credited, Points
<1>4. SettledBacked'
  BY <1>1 DEF Accounts, SettledBacked, SettledPoints, SettledOf, Settled, Credited, Points
<1>5. RequestsBacked'
  BY <1>1 DEF Accounts, RequestsBacked, RequestedIn, RequestsIn
<1>6. LedgerExplainsItems'
  BY <1>1 DEF Accounts, LedgerExplainsItems, CyclePoints, ItemsIn, Points
<1> QED
  BY <1>2, <1>3, <1>4, <1>5, <1>6 DEF Accounts

\* Requests are untouched by what only moves items.
LEMMA RequestsFrame ==
    ASSUME RequestsBacked, UNCHANGED request,
           \A o \in Owners : /\ wallet'[o].reserved = wallet[o].reserved
                             /\ wallet'[o].withdrawn = wallet[o].withdrawn
    PROVE  RequestsBacked'
BY DEF RequestsBacked, RequestedIn, RequestsIn

\* Accruing a submission opens a cycle for it alone, and credits its points.
LEMMA AccrualAccounts ==
    ASSUME TypeOK, TypeOK', Accounts, NEW s \in Submissions, accrueSubmission(s),
           UNCHANGED request
    PROVE  Accounts'
<1>1. CASE ~(Eligible(s)' /\ ~Credited(s) /\ quality'[s].grade \in Accruing)
  BY <1>1, AccountsFrame DEF accrueSubmission
<1>2. CASE Eligible(s)' /\ ~Credited(s) /\ quality'[s].grade \in Accruing
  <2> DEFINE q == quality'[s]
             owner == OwnerOf[s]
             paid == PointsOf[q.grade]
  <2>1. PICK c \in Cycles :
          /\ cycle[c].status = "absent"
          /\ CanCredit(wallet[owner], paid)
          /\ cycle' = [cycle EXCEPT ![c] =
                [status |-> "locked", due |-> nextSettlementAt(q.approvedAt)]]
          /\ item' = [item EXCEPT ![s] = [cycle |-> c, grade |-> q.grade, points |-> paid,
                                          reviewedAt |-> q.approvedAt]]
          /\ wallet' = [wallet EXCEPT ![owner] = creditSettling(@, paid)]
          /\ ledger' = [ledger EXCEPT ![c][owner] = @ + paid]
    BY <1>2 DEF accrueSubmission
  <2>2. /\ item \in [Submissions -> Item] /\ item' \in [Submissions -> Item]
        /\ cycle \in [Cycles -> Cycle] /\ wallet \in [Owners -> Wallet]
        /\ ledger \in [Cycles -> [Owners -> Int]]
        /\ owner \in Owners
    BY SettlementAssumption DEF TypeOK
  <2>3. paid \in Nat
    BY <1>2, SettlementAssumption, MaxAmountAssumption DEF Amount
  <2>4. /\ item'[s].cycle = c /\ item'[s].points = paid /\ c # NoCycle
        /\ \A x \in Submissions \ {s} : item'[x] = item[x] /\ item[x].cycle # c
        /\ item[s].cycle = NoCycle
    BY <1>2, <2>1, <2>2, SettlementAssumption DEF Accounts, CyclesExist, Credited
  <2>5. /\ cycle'[c].status = "locked"
        /\ \A d \in Cycles \ {c} : cycle'[d] = cycle[d]
    BY <2>1, <2>2
  <2>6. /\ wallet'[owner].total = wallet[owner].total + paid
        /\ wallet'[owner].settling = wallet[owner].settling + paid
        /\ wallet'[owner].available = wallet[owner].available
        /\ wallet'[owner].reserved = wallet[owner].reserved
        /\ wallet'[owner].withdrawn = wallet[owner].withdrawn
        /\ \A o \in Owners \ {owner} : wallet'[o] = wallet[o]
    BY <2>1, <2>2 DEF creditSettling, Wallet
  <2>7. \A S \in SUBSET (Submissions \ {s}) : TotalPoints(item', S) = TotalPoints(item, S)
    BY <2>4, PointsFrame
  <2>8. CyclesExist'
    BY <2>2, <2>4, <2>5 DEF Accounts, CyclesExist, Credited, Item
  <2>9. Balanced'
    <3> SUFFICES ASSUME NEW o \in Owners PROVE requireConsistentBalance(wallet'[o])
      BY DEF Balanced
    <3>1. wallet[o] \in Wallet /\ wallet'[o] \in Wallet
      BY DEF TypeOK
    <3>2. wallet[o].total = wallet[o].settling + wallet[o].available + wallet[o].reserved
                            + wallet[o].withdrawn
      BY <3>1, Consistency DEF Accounts, Balanced
    <3>3. wallet'[o].total = wallet'[o].settling + wallet'[o].available + wallet'[o].reserved
                             + wallet'[o].withdrawn
      BY <2>3, <2>6, <3>1, <3>2 DEF Wallet
    <3> QED
      BY <3>1, <3>3, Consistency
  <2>10. ASSUME NEW o \in Owners
         PROVE  wallet'[o].settling = PendingPoints(o)'
    <3>1. wallet[o].settling = TotalPoints(item, PendingOf(o))
      BY DEF Accounts, PendingBacked, PendingPoints, Points
    <3>2. PendingOf(o) \in SUBSET (Submissions \ {s})
      BY <2>4 DEF PendingOf, Locked, Credited
    <3>3. CASE o = owner
      <4>1. PendingOf(o)' = PendingOf(o) \cup {s}
        BY <2>2, <2>4, <2>5, <3>3 DEF PendingOf, Locked, Credited, Item
      <4>2. TotalPoints(item', PendingOf(o) \cup {s}) = TotalPoints(item', PendingOf(o)) + paid
        BY <2>2, <2>4, <3>2, PointsInsert
      <4> QED
        BY <2>6, <2>7, <3>1, <3>2, <3>3, <4>1, <4>2 DEF PendingPoints, Points
    <3>4. CASE o # owner
      <4>1. PendingOf(o)' = PendingOf(o)
        <5>1. \A x \in Submissions \ {s} : x \in PendingOf(o)' <=> x \in PendingOf(o)
          BY <2>2, <2>4, <2>5 DEF PendingOf, Locked, Credited, Item
        <5>2. s \notin PendingOf(o)' /\ s \notin PendingOf(o)
          BY <3>4 DEF PendingOf
        <5> QED
          BY <5>1, <5>2 DEF PendingOf
      <4> QED
        BY <2>6, <2>7, <3>1, <3>2, <3>4, <4>1 DEF PendingPoints, Points
    <3> QED
      BY <3>3, <3>4
  <2>11. ASSUME NEW o \in Owners
         PROVE  wallet'[o].available + wallet'[o].reserved + wallet'[o].withdrawn
                   = Opening[o] + SettledPoints(o)'
    <3>1. SettledOf(o) \in SUBSET (Submissions \ {s})
      BY <2>4 DEF SettledOf, Settled, Credited
    <3>2. SettledOf(o)' = SettledOf(o)
      BY <2>2, <2>4, <2>5 DEF SettledOf, Settled, Credited, Item
    <3>3. SettledPoints(o)' = SettledPoints(o)
      BY <2>7, <3>1, <3>2 DEF SettledPoints, Points
    <3> QED
      BY <2>6, <3>3 DEF Accounts, SettledBacked
  <2>12. RequestsBacked'
    BY <2>6, RequestsFrame DEF Accounts
  <2>13. ASSUME NEW d \in Cycles, NEW o \in Owners
         PROVE  ledger'[d][o] = CyclePoints(d, o)'
    <3>1. ledger[d][o] = TotalPoints(item, ItemsIn(d, o))
      BY DEF Accounts, LedgerExplainsItems, CyclePoints, Points
    <3>2. CASE d = c /\ o = owner
      <4>1. ItemsIn(d, o) = {} /\ ItemsIn(d, o)' = {s}
        BY <2>4, <3>2 DEF ItemsIn
      <4>2. ledger[d][o] = 0
        BY <2>2, <3>1, <4>1, PointsOfFew
      <4>3. CyclePoints(d, o)' = paid
        BY <2>2, <2>4, <4>1, PointsOfFew DEF CyclePoints, Points
      <4> QED
        BY <2>1, <2>2, <2>3, <3>2, <4>2, <4>3
    <3>3. CASE ~(d = c /\ o = owner)
      <4>1. ItemsIn(d, o) \in SUBSET (Submissions \ {s}) /\ ItemsIn(d, o)' = ItemsIn(d, o)
        BY <2>4, <3>3, SettlementAssumption DEF ItemsIn
      <4>2. ledger'[d][o] = ledger[d][o]
        BY <2>1, <2>2, <3>3
      <4> QED
        BY <2>7, <3>1, <4>1, <4>2 DEF CyclePoints, Points
    <3> QED
      BY <3>2, <3>3
  <2> QED
    BY <2>8, <2>9, <2>10, <2>11, <2>12, <2>13
    DEF Accounts, PendingBacked, SettledBacked, LedgerExplainsItems
<1> QED
  BY <1>1, <1>2

\* Correcting an item changes its cycle's worth and the wallet by the same difference.
LEMMA AdjustAccounts ==
    ASSUME TypeOK, TypeOK', Accounts, NEW s \in Submissions, adjustItem(s)
    PROVE  Accounts'
<1> DEFINE owner == OwnerOf[s]
           c == item[s].cycle
<1>1. PICK g \in Grades \ {item[s].grade} :
        /\ item' = [item EXCEPT ![s].grade = g, ![s].points = PointsOf[g]]
        /\ wallet' = [wallet EXCEPT ![owner] = creditSettling(@, PointsOf[g] - item[s].points)]
        /\ ledger' = [ledger EXCEPT ![c][owner] = @ + (PointsOf[g] - item[s].points)]
  BY DEF adjustItem
<1> DEFINE delta == PointsOf[g] - item[s].points
<1>2. UNCHANGED <<cycle, request>>
  BY DEF adjustItem
<1>3. /\ item \in [Submissions -> Item] /\ item' \in [Submissions -> Item]
      /\ wallet \in [Owners -> Wallet] /\ ledger \in [Cycles -> [Owners -> Int]]
      /\ owner \in Owners
  BY SettlementAssumption DEF TypeOK
<1>4. /\ item[s].points \in Nat /\ PointsOf[g] \in Nat /\ delta \in Int
  BY <1>3, SettlementAssumption, MaxAmountAssumption DEF Item, Amount
<1>5. /\ item'[s].points = PointsOf[g]
      /\ \A x \in Submissions : item'[x].cycle = item[x].cycle
      /\ \A x \in Submissions \ {s} : item'[x] = item[x]
  BY <1>1, <1>3 DEF Item
<1>6. c \in Cycles /\ c # NoCycle /\ cycle[c].status = "locked"
  BY <1>3 DEF adjustItem, Locked, Credited, Item
<1>7. /\ wallet'[owner].total = wallet[owner].total + delta
      /\ wallet'[owner].settling = wallet[owner].settling + delta
      /\ wallet'[owner].available = wallet[owner].available
      /\ wallet'[owner].reserved = wallet[owner].reserved
      /\ wallet'[owner].withdrawn = wallet[owner].withdrawn
      /\ \A o \in Owners \ {owner} : wallet'[o] = wallet[o]
  BY <1>1, <1>3 DEF creditSettling, Wallet
<1>8. /\ \A S \in SUBSET Submissions :
            s \notin S => TotalPoints(item', S) = TotalPoints(item, S)
      /\ \A S \in SUBSET Submissions :
            s \in S => TotalPoints(item', S) = TotalPoints(item, S) + delta
  <2>1. ASSUME NEW S \in SUBSET Submissions, s \notin S
        PROVE  TotalPoints(item', S) = TotalPoints(item, S)
    BY <1>5, <2>1, PointsFrame
  <2>2. ASSUME NEW S \in SUBSET Submissions, s \in S
        PROVE  TotalPoints(item', S) = TotalPoints(item, S) + delta
    BY <1>3, <1>5, <2>2, PointsChange
  <2> QED
    BY <2>1, <2>2
<1>9. CyclesExist'
  BY <1>2, <1>5 DEF Accounts, CyclesExist, Credited
<1>10. Balanced'
  <2> SUFFICES ASSUME NEW o \in Owners PROVE requireConsistentBalance(wallet'[o])
    BY DEF Balanced
  <2>1. wallet[o] \in Wallet /\ wallet'[o] \in Wallet
    BY DEF TypeOK
  <2>2. wallet[o].total = wallet[o].settling + wallet[o].available + wallet[o].reserved
                          + wallet[o].withdrawn
    BY <2>1, Consistency DEF Accounts, Balanced
  <2>3. wallet'[o].total = wallet'[o].settling + wallet'[o].available + wallet'[o].reserved
                           + wallet'[o].withdrawn
    BY <1>4, <1>7, <2>1, <2>2 DEF Wallet
  <2> QED
    BY <2>1, <2>3, Consistency
<1>11. ASSUME NEW o \in Owners
       PROVE  wallet'[o].settling = PendingPoints(o)'
  <2>1. wallet[o].settling = TotalPoints(item, PendingOf(o))
    BY DEF Accounts, PendingBacked, PendingPoints, Points
  <2>2. PendingOf(o)' = PendingOf(o)
    BY <1>2, <1>5 DEF PendingOf, Locked, Credited
  <2>3. PendingOf(o) \in SUBSET Submissions /\ (s \in PendingOf(o) <=> o = owner)
    BY <1>6 DEF PendingOf, Locked, Credited
  <2> QED
    BY <1>7, <1>8, <2>1, <2>2, <2>3 DEF PendingPoints, Points
<1>12. ASSUME NEW o \in Owners
       PROVE  wallet'[o].available + wallet'[o].reserved + wallet'[o].withdrawn
                 = Opening[o] + SettledPoints(o)'
  <2>1. SettledOf(o)' = SettledOf(o)
    BY <1>2, <1>5 DEF SettledOf, Settled, Credited
  <2>2. SettledOf(o) \in SUBSET Submissions /\ s \notin SettledOf(o)
    BY <1>6 DEF SettledOf, Settled
  <2>3. SettledPoints(o)' = SettledPoints(o)
    BY <1>8, <2>1, <2>2 DEF SettledPoints, Points
  <2> QED
    BY <1>7, <2>3 DEF Accounts, SettledBacked
<1>13. RequestsBacked'
  BY <1>2, <1>7, RequestsFrame DEF Accounts
<1>14. ASSUME NEW d \in Cycles, NEW o \in Owners
       PROVE  ledger'[d][o] = CyclePoints(d, o)'
  <2>1. ledger[d][o] = TotalPoints(item, ItemsIn(d, o))
    BY DEF Accounts, LedgerExplainsItems, CyclePoints, Points
  <2>2. ItemsIn(d, o)' = ItemsIn(d, o)
    BY <1>5 DEF ItemsIn
  <2>3. ItemsIn(d, o) \in SUBSET Submissions /\ (s \in ItemsIn(d, o) <=> d = c /\ o = owner)
    BY DEF ItemsIn
  <2>4. ledger'[d][o] = IF d = c /\ o = owner THEN ledger[d][o] + delta ELSE ledger[d][o]
    BY <1>1, <1>3
  <2> QED
    BY <1>8, <2>1, <2>2, <2>3, <2>4 DEF CyclePoints, Points
<1> QED
  BY <1>9, <1>10, <1>11, <1>12, <1>13, <1>14
  DEF Accounts, PendingBacked, SettledBacked, LedgerExplainsItems

\* A withdrawal moves its amount between the parts of one wallet, as its request does.
LEMMA PayoutAccounts ==
    ASSUME TypeOK, TypeOK', Accounts, NEW o \in Owners, NEW k \in Keys,
           submit(o, k) \/ confirm(o, k)
    PROVE  Accounts'
<1> DEFINE r == <<o, k>>
           cents == request'[r].amount
           opened == RequestsIn(Open, o)
           paid   == RequestsIn({"paid"}, o)
<1>1. /\ r \in RequestIds /\ r[1] = o
      /\ request \in [RequestIds -> Request] /\ request' \in [RequestIds -> Request]
      /\ wallet \in [Owners -> Wallet] /\ wallet' \in [Owners -> Wallet]
      /\ opened \in SUBSET RequestIds /\ paid \in SUBSET RequestIds
  BY DEF RequestIds, TypeOK, RequestsIn
<1>2. UNCHANGED <<item, cycle, ledger>>
  BY DEF submit, confirm
<1>3. cents \in Nat
  BY <1>1, MaxAmountAssumption DEF Request, Amount
<1>4. \A x \in RequestIds \ {r} : request'[x] = request[x]
  BY <1>1 DEF submit, confirm
<1>5. \A S, p : p \in Owners \ {o} => /\ RequestsIn(S, p)' = RequestsIn(S, p)
                                      /\ RequestedIn(S, p)' = RequestedIn(S, p)
  <2> SUFFICES ASSUME NEW S, NEW p \in Owners \ {o}
               PROVE  /\ RequestsIn(S, p)' = RequestsIn(S, p)
                      /\ RequestedIn(S, p)' = RequestedIn(S, p)
    OBVIOUS
  <2>1. \A x \in RequestsIn(S, p) : x \in RequestIds \ {r}
    BY <1>1 DEF RequestsIn
  <2>2. RequestsIn(S, p)' = RequestsIn(S, p)
    BY <1>1, <1>4 DEF RequestsIn
  <2>3. TotalAmounts(request', RequestsIn(S, p)) = TotalAmounts(request, RequestsIn(S, p))
    BY <1>4, <2>1, AmountsFrame
  <2> QED
    BY <2>2, <2>3 DEF RequestedIn
<1>6. /\ wallet[o].reserved = TotalAmounts(request, opened)
      /\ wallet[o].withdrawn = TotalAmounts(request, paid)
  BY DEF Accounts, RequestsBacked, RequestedIn
<1>7. \A R \in SUBSET (RequestIds \ {r}) : TotalAmounts(request', R) = TotalAmounts(request, R)
  BY <1>4, AmountsFrame
<1>8. /\ wallet'[o].total = wallet[o].total
      /\ wallet'[o].settling = wallet[o].settling
      /\ wallet'[o].available + wallet'[o].reserved + wallet'[o].withdrawn
            = wallet[o].available + wallet[o].reserved + wallet[o].withdrawn
      /\ wallet'[o].reserved = RequestedIn(Open, o)'
      /\ wallet'[o].withdrawn = RequestedIn({"paid"}, o)'
      /\ \A p \in Owners \ {o} : wallet'[p] = wallet[p]
  <2>1. CASE submit(o, k)
    <3>1. /\ request[r].status = "none" /\ request'[r].status = "pending"
          /\ wallet' = [wallet EXCEPT ![o].available = @ - cents, ![o].reserved = @ + cents]
      <4>1. PICK a \in Withdrawals :
              /\ request[r].status = "none"
              /\ request' = [request EXCEPT ![r] = [status |-> "pending", amount |-> a]]
              /\ wallet' = [wallet EXCEPT ![o].available = @ - a, ![o].reserved = @ + a]
        BY <2>1 DEF submit
      <4>2. request'[r].status = "pending" /\ cents = a
        BY <1>1, <4>1
      <4> QED
        BY <4>1, <4>2
    <3>2. /\ wallet'[o].total = wallet[o].total
          /\ wallet'[o].settling = wallet[o].settling
          /\ wallet'[o].available = wallet[o].available - cents
          /\ wallet'[o].reserved = wallet[o].reserved + cents
          /\ wallet'[o].withdrawn = wallet[o].withdrawn
          /\ \A p \in Owners \ {o} : wallet'[p] = wallet[p]
      BY <1>1, <3>1 DEF Wallet
    <3>3. /\ opened \in SUBSET (RequestIds \ {r}) /\ RequestsIn(Open, o)' = opened \cup {r}
          /\ paid \in SUBSET (RequestIds \ {r})   /\ RequestsIn({"paid"}, o)' = paid
      BY <1>1, <1>4, <3>1 DEF RequestsIn, Open
    <3>4. TotalAmounts(request', opened \cup {r}) = TotalAmounts(request', opened) + cents
      BY <1>1, <3>3, AmountsInsert
    <3>5. /\ wallet'[o].reserved = RequestedIn(Open, o)'
          /\ wallet'[o].withdrawn = RequestedIn({"paid"}, o)'
      BY <1>6, <1>7, <3>2, <3>3, <3>4 DEF RequestedIn
    <3> QED
      BY <1>1, <1>3, <3>2, <3>5 DEF Wallet
  <2>2. CASE confirm(o, k)
    <3>1. /\ request[r].status \in Open /\ request'[r].status = "paid"
          /\ request[r].amount = cents
          /\ wallet' = [wallet EXCEPT ![o].reserved = @ - cents, ![o].withdrawn = @ + cents]
      BY <1>1, <2>2 DEF confirm, moveReserve, Request
    <3>2. /\ wallet'[o].total = wallet[o].total
          /\ wallet'[o].settling = wallet[o].settling
          /\ wallet'[o].available = wallet[o].available
          /\ wallet'[o].reserved = wallet[o].reserved - cents
          /\ wallet'[o].withdrawn = wallet[o].withdrawn + cents
          /\ \A p \in Owners \ {o} : wallet'[p] = wallet[p]
      BY <1>1, <3>1 DEF Wallet
    <3> DEFINE left == opened \ {r}
    <3>3. /\ r \in opened /\ left \in SUBSET (RequestIds \ {r}) /\ opened = left \cup {r}
          /\ RequestsIn(Open, o)' = left
          /\ paid \in SUBSET (RequestIds \ {r}) /\ RequestsIn({"paid"}, o)' = paid \cup {r}
      BY <1>1, <1>4, <3>1 DEF RequestsIn, Open
    <3>4. /\ TotalAmounts(request, left \cup {r}) = TotalAmounts(request, left) + cents
          /\ TotalAmounts(request', paid \cup {r}) = TotalAmounts(request', paid) + cents
          /\ TotalAmounts(request, left) \in Nat
      <4>1. /\ left \in SUBSET RequestIds /\ r \notin left
            /\ paid \in SUBSET RequestIds /\ r \notin paid
        BY <3>3
      <4> HIDE DEF left
      <4>2. TotalAmounts(request, left \cup {r}) = TotalAmounts(request, left) + cents
        BY <1>1, <3>1, <4>1, AmountsInsert
      <4>3. TotalAmounts(request', paid \cup {r}) = TotalAmounts(request', paid) + cents
        BY <1>1, <4>1, AmountsInsert
      <4> QED
        BY <1>1, <4>1, <4>2, <4>3, AmountsType
    <3>5. wallet'[o].reserved = RequestedIn(Open, o)'
      <4>1. wallet[o].reserved = TotalAmounts(request, left) + cents
        BY <1>6, <3>3, <3>4
      <4>2. wallet'[o].reserved = TotalAmounts(request, left)
        BY <1>3, <3>2, <3>4, <4>1
      <4>3. TotalAmounts(request', left) = TotalAmounts(request, left)
        BY <1>7, <3>3
      <4> QED
        BY <3>3, <4>2, <4>3 DEF RequestedIn
    <3>6. wallet'[o].withdrawn = RequestedIn({"paid"}, o)'
      BY <1>6, <1>7, <3>2, <3>3, <3>4 DEF RequestedIn
    <3> QED
      BY <1>1, <1>3, <3>2, <3>5, <3>6 DEF Wallet
  <2> QED
    BY <2>1, <2>2
<1>9. (CyclesExist /\ LedgerExplainsItems)'
  BY <1>2 DEF Accounts, CyclesExist, Credited, LedgerExplainsItems, CyclePoints, ItemsIn, Points
<1>10. Balanced'
  <2> SUFFICES ASSUME NEW p \in Owners PROVE requireConsistentBalance(wallet'[p])
    BY DEF Balanced
  <2>1. wallet[p] \in Wallet /\ wallet'[p] \in Wallet
    BY <1>1
  <2>2. wallet[p].total = wallet[p].settling + wallet[p].available + wallet[p].reserved
                          + wallet[p].withdrawn
    BY <2>1, Consistency DEF Accounts, Balanced
  <2>3. wallet'[p].total = wallet'[p].settling + wallet'[p].available + wallet'[p].reserved
                           + wallet'[p].withdrawn
    BY <1>8, <2>1, <2>2 DEF Wallet
  <2> QED
    BY <2>1, <2>3, Consistency
<1>11. PendingBacked'
  BY <1>2, <1>8 DEF Accounts, PendingBacked, PendingPoints, PendingOf, Locked, Credited, Points
<1>12. SettledBacked'
  BY <1>2, <1>8 DEF Accounts, SettledBacked, SettledPoints, SettledOf, Settled, Credited, Points
<1>13. RequestsBacked'
  BY <1>5, <1>8 DEF Accounts, RequestsBacked
<1> QED
  BY <1>9, <1>10, <1>11, <1>12, <1>13 DEF Accounts

\* Settling a cycle takes its worth out of what is pending: what still qualifies
\* is paid into the available balance, and the rest is worth nothing from then on.
LEMMA SettlementAccounts ==
    ASSUME TypeOK, TypeOK', Accounts, NEW c \in Cycles, NEW now,
           cycle[c].status = "locked", settleCycle(c, now), UNCHANGED request
    PROVE  Accounts'
<1> DEFINE members == {s \in Submissions : item[s].cycle = c}
           owners  == {OwnerOf[s] : s \in members}
<1>1. /\ item \in [Submissions -> Item] /\ item' \in [Submissions -> Item]
      /\ cycle \in [Cycles -> Cycle] /\ ledger \in [Cycles -> [Owners -> Int]]
      /\ wallet \in [Owners -> Wallet] /\ wallet' \in [Owners -> Wallet]
      /\ c # NoCycle
  BY SettlementAssumption DEF TypeOK
<1>2. /\ cycle'[c].status = "settled"
      /\ \A d \in Cycles \ {c} : cycle'[d] = cycle[d]
  BY <1>1 DEF settleCycle, Cycle
<1>3. /\ \A s \in Submissions : item'[s].cycle = item[s].cycle
      /\ \A s \in Submissions : (item[s].cycle # c \/ Eligible(s)) => item'[s] = item[s]
      /\ \A s \in Submissions : (item[s].cycle = c /\ ~Eligible(s)) => item'[s].points = 0
  <2>1. ASSUME NEW s \in Submissions
        PROVE  item'[s] = IF item[s].cycle = c /\ ~Eligible(s)
                          THEN [item[s] EXCEPT !.points = 0] ELSE item[s]
    BY DEF settleCycle
  <2> QED
    BY <1>1, <2>1 DEF Item
<1>4. \A o \in Owners :
        /\ Payable(c, o) \in Nat /\ Reversed(c, o) \in Nat
        /\ CyclePoints(c, o) = Payable(c, o) + Reversed(c, o)
  BY PayableAndReversed
\* An owner without an item in the cycle is neither paid nor charged.
<1>5. ASSUME NEW o \in Owners, o \notin owners
      PROVE  Payable(c, o) = 0 /\ Reversed(c, o) = 0
  <2>1. /\ {s \in ItemsIn(c, o) : Eligible(s)} = {}
        /\ {s \in ItemsIn(c, o) : ~Eligible(s)} = {}
    BY <1>5 DEF ItemsIn
  <2>2. TotalPoints(item, {}) = 0
    BY <1>1, PointsOfFew
  <2> QED
    BY <2>1, <2>2 DEF Payable, Reversed, Points
<1>6. ASSUME NEW o \in Owners
      PROVE  /\ wallet'[o].settling = wallet[o].settling - Reversed(c, o) - Payable(c, o)
             /\ wallet'[o].available = wallet[o].available + Payable(c, o)
             /\ wallet'[o].reserved = wallet[o].reserved
             /\ wallet'[o].withdrawn = wallet[o].withdrawn
             /\ wallet'[o].total = wallet'[o].settling + wallet'[o].available
                                   + wallet'[o].reserved + wallet'[o].withdrawn
  <2>1. CASE o \in owners
    <3>1. wallet'[o] = settleToAvailable(creditSettling(wallet[o], -Reversed(c, o)), Payable(c, o))
      BY <2>1 DEF settleCycle
    <3>2. wallet[o] \in Wallet /\ Reversed(c, o) \in Int /\ Payable(c, o) \in Int
      BY <1>1, <1>4
    <3> QED
      BY <3>1, <3>2 DEF settleToAvailable, creditSettling, Wallet
  <2>2. CASE o \notin owners
    <3>1. wallet'[o] = wallet[o]
      BY <2>2 DEF settleCycle
    <3>2. wallet[o].total = wallet[o].settling + wallet[o].available + wallet[o].reserved
                            + wallet[o].withdrawn
      BY <1>1, Consistency DEF Accounts, Balanced
    <3> QED
      BY <1>1, <1>5, <2>2, <3>1, <3>2 DEF Wallet
  <2> QED
    BY <2>1, <2>2
\* Of the cycle, what qualifies keeps its points and the rest is worth nothing.
<1>7. ASSUME NEW o \in Owners
      PROVE  TotalPoints(item', ItemsIn(c, o)) = Payable(c, o)
  <2> DEFINE good == {s \in ItemsIn(c, o) : Eligible(s)}
             bad  == {s \in ItemsIn(c, o) : ~Eligible(s)}
  <2>1. /\ good \in SUBSET Submissions /\ bad \in SUBSET Submissions
        /\ good \cap bad = {} /\ ItemsIn(c, o) = good \cup bad
        /\ \A s \in good : item'[s] = item[s]
        /\ \A s \in bad : item'[s].points = 0
    BY <1>3 DEF ItemsIn
  <2>2. TotalPoints(item, good) = Payable(c, o)
    BY DEF Payable, Points
  <2> HIDE DEF good, bad
  <2>3. TotalPoints(item', bad) = 0
    BY <1>1, <2>1, PointsZero
  <2>4. TotalPoints(item', good) = TotalPoints(item, good)
    BY <2>1, PointsFrame
  <2>5. TotalPoints(item', good \cup bad) = TotalPoints(item', good) + TotalPoints(item', bad)
    BY <1>1, <2>1, PointsSplit
  <2> QED
    BY <1>4, <2>1, <2>2, <2>3, <2>4, <2>5
\* Every other item is worth what it was.
<1>8. ASSUME NEW S \in SUBSET Submissions, \A s \in S : item[s].cycle # c
      PROVE  TotalPoints(item', S) = TotalPoints(item, S)
  BY <1>3, <1>8, PointsFrame
<1>9. CyclesExist'
  BY <1>1, <1>2, <1>3 DEF Accounts, CyclesExist, Credited, Item
<1>10. Balanced'
  BY <1>1, <1>6, Consistency DEF Balanced
<1>11. ASSUME NEW o \in Owners
       PROVE  wallet'[o].settling = PendingPoints(o)'
  <2> DEFINE rest == PendingOf(o) \ ItemsIn(c, o)
  <2>1. /\ wallet[o].settling = TotalPoints(item, rest) + CyclePoints(c, o)
        /\ TotalPoints(item, rest) \in Nat
    BY CyclePending DEF Accounts, PendingBacked
  <2>2. PendingOf(o)' = rest
    BY <1>1, <1>2, <1>3 DEF PendingOf, ItemsIn, Locked, Credited, Item
  <2>3. TotalPoints(item', rest) = TotalPoints(item, rest)
    BY <1>8 DEF PendingOf, ItemsIn
  <2>4. wallet'[o].settling = TotalPoints(item, rest)
    BY <1>4, <1>6, <2>1
  <2> QED
    BY <2>2, <2>3, <2>4 DEF PendingPoints, Points
<1>12. ASSUME NEW o \in Owners
       PROVE  wallet'[o].available + wallet'[o].reserved + wallet'[o].withdrawn
                 = Opening[o] + SettledPoints(o)'
  <2>1. /\ SettledOf(o) \in SUBSET Submissions /\ ItemsIn(c, o) \in SUBSET Submissions
        /\ \A s \in SettledOf(o) : item[s].cycle # c
    BY DEF SettledOf, Settled, ItemsIn
  <2>2. SettledOf(o) \cap ItemsIn(c, o) = {}
    BY <2>1 DEF ItemsIn
  <2>3. SettledOf(o)' = SettledOf(o) \cup ItemsIn(c, o)
    BY <1>1, <1>2, <1>3 DEF SettledOf, ItemsIn, Settled, Credited, Item
  <2>4. TotalPoints(item', SettledOf(o)) = TotalPoints(item, SettledOf(o))
    BY <1>8, <2>1
  <2>5. SettledPoints(o)' = SettledPoints(o) + Payable(c, o)
    <3>1. TotalPoints(item', SettledOf(o) \cup ItemsIn(c, o))
            = TotalPoints(item', SettledOf(o)) + TotalPoints(item', ItemsIn(c, o))
      BY <1>1, <2>1, <2>2, PointsSplit
    <3> QED
      BY <1>7, <2>3, <2>4, <3>1 DEF SettledPoints, Points
  <2>6. SettledPoints(o) \in Nat
    BY <1>1, <2>1, PointsType DEF SettledPoints, Points
  <2>7. wallet[o].available + wallet[o].reserved + wallet[o].withdrawn
          = Opening[o] + SettledPoints(o)
    BY DEF Accounts, SettledBacked
  <2>8. Opening[o] \in Nat
    BY SettlementAssumption
  <2> QED
    <3>1. /\ wallet[o].available \in Nat /\ wallet[o].reserved \in Nat
          /\ wallet[o].withdrawn \in Nat /\ Payable(c, o) \in Nat
      BY <1>1, <1>4 DEF Wallet
    <3>2. /\ wallet'[o].available = wallet[o].available + Payable(c, o)
          /\ wallet'[o].reserved = wallet[o].reserved
          /\ wallet'[o].withdrawn = wallet[o].withdrawn
      BY <1>6
    <3> QED
      BY <2>5, <2>6, <2>7, <2>8, <3>1, <3>2
<1>13. RequestsBacked'
  BY <1>6, RequestsFrame DEF Accounts
<1>14. ASSUME NEW d \in Cycles, NEW o \in Owners
       PROVE  ledger'[d][o] = CyclePoints(d, o)'
  <2>1. ledger[d][o] = CyclePoints(d, o)
    BY DEF Accounts, LedgerExplainsItems
  <2>2. ItemsIn(d, o)' = ItemsIn(d, o) /\ ItemsIn(d, o) \in SUBSET Submissions
    BY <1>3 DEF ItemsIn
  <2>3. CASE d = c
    <3>1. ledger'[d][o] = ledger[d][o] - Reversed(c, o)
      BY <1>1, <2>3 DEF settleCycle
    <3> QED
      BY <1>4, <1>7, <2>1, <2>2, <2>3, <3>1 DEF CyclePoints, Points
  <2>4. CASE d # c
    <3>1. ledger'[d][o] = ledger[d][o]
      BY <1>1, <2>4 DEF settleCycle
    <3>2. \A s \in ItemsIn(d, o) : item[s].cycle # c
      BY <2>4 DEF ItemsIn
    <3> QED
      BY <1>8, <2>1, <2>2, <3>1, <3>2 DEF CyclePoints, Points
  <2> QED
    BY <2>3, <2>4
<1> QED
  BY <1>9, <1>10, <1>11, <1>12, <1>13, <1>14
  DEF Accounts, PendingBacked, SettledBacked, LedgerExplainsItems

-----------------------------------------------------------------------------
(* The books balance in every reachable state. *)

\* The migrated database balances.
LEMMA InitAccounts == Init => Accounts
<1> SUFFICES ASSUME Init PROVE Accounts
  OBVIOUS
<1>1. TypeOK
  BY InitType
<1>2. CyclesExist
  BY <1>1, ImportAssumption DEF Init, CyclesExist, Credited, TypeOK, Item
<1>3. ASSUME NEW o \in Owners
      PROVE  /\ wallet[o].settling = PendingPoints(o)
             /\ wallet[o].reserved = RequestedIn(Open, o)
             /\ wallet[o].withdrawn = RequestedIn({"paid"}, o)
             /\ wallet[o].total = PendingPoints(o) + Opening[o]
             /\ wallet[o].available = Opening[o] - RequestedIn(Open, o) - RequestedIn({"paid"}, o)
  BY DEF Init
<1>4. ASSUME NEW o \in Owners
      PROVE  wallet[o] \in Wallet /\ Opening[o] \in Nat /\ SettledPoints(o) = 0
  <2>1. SettledOf(o) = {}
    BY <1>1, ImportAssumption DEF Init, SettledOf, Settled, Credited, TypeOK, Item
  <2>2. SettledPoints(o) = 0
    BY <1>1, <2>1, PointsOfFew DEF SettledPoints, Points, TypeOK
  <2> QED
    BY <1>1, <2>2, SettlementAssumption DEF TypeOK
<1>5. ASSUME NEW o \in Owners
      PROVE  /\ wallet[o].total = wallet[o].settling + wallet[o].available
                                  + wallet[o].reserved + wallet[o].withdrawn
             /\ wallet[o].available + wallet[o].reserved + wallet[o].withdrawn
                   = Opening[o] + SettledPoints(o)
  <2>1. /\ wallet[o].total = wallet[o].settling + Opening[o]
        /\ wallet[o].available = Opening[o] - wallet[o].reserved - wallet[o].withdrawn
    BY <1>3
  <2> QED
    BY <1>4, <2>1 DEF Wallet
<1>6. Balanced
  BY <1>4, <1>5, Consistency DEF Balanced
<1>7. PendingBacked /\ SettledBacked /\ RequestsBacked
  BY <1>3, <1>5 DEF PendingBacked, SettledBacked, RequestsBacked
<1>8. LedgerExplainsItems
  BY DEF Init, LedgerExplainsItems
<1> QED
  BY <1>2, <1>6, <1>7, <1>8 DEF Accounts

\* Every step keeps the books balanced.
LEMMA StepAccounts == TypeOK /\ TypeOK' /\ Accounts /\ [Next]_vars => Accounts'
<1> SUFFICES ASSUME TypeOK, TypeOK', Accounts, [Next]_vars PROVE Accounts'
  OBVIOUS
<1>1. CASE timePasses \/ UNCHANGED vars
  BY <1>1, AccountsFrame DEF timePasses, vars
<1>2. ASSUME NEW s \in Submissions, worker(s) PROVE Accounts'
  <2>1. CASE begin(s) \/ evaluationFails(s) \/ workerDies(s)
    BY <2>1, AccountsFrame DEF begin, evaluationFails, workerDies
  <2>2. CASE complete(s)
    BY <2>2, AccrualAccounts DEF complete
  <2> QED
    BY <1>2, <2>1, <2>2 DEF worker
<1>3. ASSUME NEW s \in Submissions, administrator(s) PROVE Accounts'
  <2>1. CASE rerunAiQuality(s) \/ deleteObjects(s) \/ reclaimTimedOutTask(s)
    BY <2>1, AccountsFrame DEF rerunAiQuality, deleteObjects, reclaimTimedOutTask
  <2>2. CASE reviewQuality(s)
    BY <2>2, AccrualAccounts DEF reviewQuality
  <2>3. CASE clearDuplicateCandidate(s)
    BY <2>3, AccrualAccounts DEF clearDuplicateCandidate
  <2>4. CASE adjustItem(s)
    BY <2>4, AdjustAccounts
  <2> QED
    BY <1>3, <2>1, <2>2, <2>3, <2>4 DEF administrator
<1>4. ASSUME NEW o \in Owners, NEW k \in Keys, submit(o, k) \/ confirm(o, k) PROVE Accounts'
  BY <1>4, PayoutAccounts
<1>5. ASSUME NEW p \in Schedulers, scan(p) PROVE Accounts'
  <2>1. CASE tick(p) \/ settleDueCycles(p) \/ transactionFails(p) \/ endTick(p) \/ restart(p)
    BY <2>1, AccountsFrame DEF tick, settleDueCycles, transactionFails, endTick, restart
  <2>2. ASSUME NEW s \in Submissions, reconcileAccrual(p, s) PROVE Accounts'
    BY <2>2, AccrualAccounts DEF reconcileAccrual
  <2>3. ASSUME NEW c \in Cycles, settleDueCycle(p, c) PROVE Accounts'
    <3>1. CASE cycle[c].status = "locked"
      BY <2>3, <3>1, SettlementAccounts DEF settleDueCycle
    <3>2. CASE cycle[c].status # "locked"
      BY <2>3, <3>2, AccountsFrame DEF settleDueCycle
    <3> QED
      BY <3>1, <3>2
  <2> QED
    BY <1>5, <2>1, <2>2, <2>3 DEF scan
<1> QED
  BY <1>1, <1>2, <1>3, <1>4, <1>5 DEF Next

\* The books balance: wallets, items, lock transactions and requests agree.
THEOREM AccountsBalance == Spec => []Accounts
<1>1. Init => Accounts
  BY InitAccounts
<1>2. Spec => []TypeOK
  BY TypeCorrect
<1>3. TypeOK /\ TypeOK' /\ Accounts /\ [Next]_vars => Accounts'
  BY StepAccounts
<1> QED
  BY <1>1, <1>2, <1>3, PTL DEF Spec

\* The settling balance is what the items of locked cycles are worth.
THEOREM PendingIsBacked == Spec => []PendingBacked
BY AccountsBalance, PTL DEF Accounts

\* What was settled is available, reserved or withdrawn.
THEOREM SettledIsBacked == Spec => []SettledBacked
BY AccountsBalance, PTL DEF Accounts

\* The reserve is the open requests, and what was withdrawn the paid ones.
THEOREM RequestsAreBacked == Spec => []RequestsBacked
BY AccountsBalance, PTL DEF Accounts

\* The lock transactions of a cycle sum to what its items are worth.
THEOREM LedgerExplains == Spec => []LedgerExplainsItems
BY AccountsBalance, PTL DEF Accounts
=============================================================================
