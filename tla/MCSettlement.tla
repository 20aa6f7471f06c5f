---------------------------- MODULE MCSettlement ----------------------------
(* Instances of Settlement for TLC. *)
EXTENDS Settlement, TLC

CONSTANTS s1, s2, s3, owner, other, legacy, c1, c2, low, good, best, k1, k2, p1, p2

\* A two-hour day: approved at 0 is due at 2, approved at 1 or 2 at 4.
MCOwnerOf == [s \in Submissions |-> IF s = s3 THEN other ELSE owner]
MCPoints  == [g \in Grades |-> CASE g = low -> 0 [] g = good -> 1 [] g = best -> 2]

NoVerdicts == [s \in Submissions |-> Unjudged]
NoItems    == [s \in Submissions |-> NoItem]
NoCycles   == [c \in Cycles |-> NoSuchCycle]
NoRequests == [r \in RequestIds |-> NoRequest]

OneEvaluation  == [s \in Submissions |-> 1]
NoEvaluation   == [s \in Submissions |-> 0]
TwoEvaluations == [s \in Submissions |-> 2]

Approved(g, t) == [status |-> "scored", grade |-> g, manual |-> FALSE, approvedAt |-> t]

\* A grouped cycle from before next-day settlement: two items of two owners, approved
\* on different days, due when the later of them is, beside an approval that was never
\* credited; requests in statuses of the earlier payout process, with the balance that
\* the open one reserves.
GroupedGrade(s) == IF s = s1 THEN best ELSE good
GroupedTime(s)  == IF s = s1 THEN -1 ELSE 0
GroupedQuality  == [s \in Submissions |-> Approved(GroupedGrade(s), GroupedTime(s))]
GroupedItems    == [s \in Submissions |->
    IF s = s2 THEN NoItem
    ELSE [cycle |-> legacy, grade |-> GroupedGrade(s),
          points |-> MCPoints[GroupedGrade(s)], reviewedAt |-> GroupedTime(s)]]
GroupedCycle    == [c \in Cycles |->
    IF c = legacy THEN [status |-> "locked", due |-> 2] ELSE NoSuchCycle]
OldRequests == [r \in RequestIds |->
    CASE r = <<owner, k2>> -> [status |-> "review_pending", amount |-> 1]
      [] r[2] = k1 -> [status |-> "rejected", amount |-> 1]
      [] OTHER -> NoRequest]
OldBalance == [o \in Owners |-> IF o = owner THEN 1 ELSE 0]
NoBalance  == [o \in Owners |-> 0]

\* Approvals that were never credited: one of yesterday, one older.
MissedQuality == [s \in Submissions |-> Approved(good, IF s = s1 THEN -1 ELSE -2)]

FreshCycles   == Permutations({c1, c2})
TwoSchedulers == Permutations({p1, p2})
=============================================================================
