------------------------------- MODULE Earnings -------------------------------
(***************************************************************************)
(* What the platform promises a collector about money, without wallets,    *)
(* cycles, verdicts or schedulers.  An earning is given once per           *)
(* submission, may be corrected while it is pending, and becomes final     *)
(* with its amount or with nothing; a final earning never changes.  A      *)
(* collector may claim what is final and not yet claimed, and each claim   *)
(* is paid at most once.                                                   *)
(***************************************************************************)
EXTENDS Sums

CONSTANTS
    Submissions, Owners, OwnerOf, Keys,
    Opening     \* what was final before, per owner

VARIABLES earning, claim
vars == <<earning, claim>>

Earning == [state : {"none", "pending", "final"}, amount : Amount]
Claim   == [state : {"none", "open", "paid", "refused"}, amount : Amount]
ClaimIds == Owners \X Keys

Earned(o) ==
    Opening[o] + Sum([s \in {s \in Submissions : earning[s].state = "final" /\ OwnerOf[s] = o}
            |-> earning[s].amount])
Claimed(o) ==
    Sum([r \in {r \in ClaimIds : r[1] = o /\ claim[r].state \in {"open", "paid"}}
            |-> claim[r].amount])

\* Nobody has claimed more than was made final for them.
Solvent == \A o \in Owners : Claimed(o) <= Earned(o)

TypeOK ==
    /\ earning \in [Submissions -> Earning]
    /\ claim \in [ClaimIds -> Claim]

Init == TypeOK /\ Solvent

Earn(s) ==
    /\ earning[s].state = "none"
    /\ \E a \in Amount : earning' = [earning EXCEPT ![s] = [state |-> "pending", amount |-> a]]
    /\ UNCHANGED claim

Correct(s) ==
    /\ earning[s].state = "pending"
    /\ \E a \in Amount : earning' = [earning EXCEPT ![s].amount = a]
    /\ UNCHANGED claim

\* The earnings of S become final together, those of V with nothing.
Finalise(S, V) ==
    /\ \A s \in S : earning[s].state = "pending"
    /\ earning' = [s \in Submissions |->
          IF s \notin S THEN earning[s]
          ELSE [state |-> "final", amount |-> IF s \in V THEN 0 ELSE earning[s].amount]]
    /\ UNCHANGED claim

Ask(o, k) ==
    /\ claim[<<o, k>>].state = "none"
    /\ \E a \in Amount \ {0} :
         /\ Claimed(o) + a <= Earned(o)
         /\ claim' = [claim EXCEPT ![<<o, k>>] = [state |-> "open", amount |-> a]]
    /\ UNCHANGED earning

Pay(o, k) ==
    /\ claim[<<o, k>>].state = "open"
    /\ claim' = [claim EXCEPT ![<<o, k>>].state = "paid"]
    /\ UNCHANGED earning

Next ==
    \/ \E s \in Submissions : Earn(s) \/ Correct(s)
    \/ \E S \in SUBSET Submissions : \E V \in SUBSET S : Finalise(S, V)
    \/ \E o \in Owners, k \in Keys : Ask(o, k) \/ Pay(o, k)

Spec == Init /\ [][Next]_vars
=============================================================================
