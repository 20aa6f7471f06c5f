---------------------------- MODULE ArchiveRegister ----------------------------
(***************************************************************************)
(* What a register of archives promises, without workers, leases or        *)
(* uploads under way.  A task that is asked for is tried, as often as it   *)
(* takes; each try may store an archive under its own number, at once or   *)
(* long after.  The last try, and no other, may give the task its archive  *)
(* if it has stored it.  A task may be given up after its last allowed     *)
(* try.  Whatever is not the archive of its task may be removed.           *)
(***************************************************************************)
EXTENDS Naturals

CONSTANTS Tasks, MaxAttempts

VARIABLES
    stage,   \* how far each task is
    tries,   \* how many times it was tried
    named,   \* the try whose archive is the task's, or 0
    stored   \* the archives there are, each named by its task and its try

vars == <<stage, tries, named, stored>>

Init ==
    /\ stage = [t \in Tasks |-> "absent"]
    /\ tries = [t \in Tasks |-> 0]
    /\ named = [t \in Tasks |-> 0]
    /\ stored = {}

Ask(t) ==
    /\ stage[t] = "absent"
    /\ stage' = [stage EXCEPT ![t] = "asked"]
    /\ UNCHANGED <<tries, named, stored>>

Try(t) ==
    /\ stage[t] = "asked"
    /\ tries' = [tries EXCEPT ![t] = @ + 1]
    /\ UNCHANGED <<stage, named, stored>>

Store(t, k) ==
    /\ stored' = stored \cup {<<t, k>>}
    /\ UNCHANGED <<stage, tries, named>>

Remove(t, k) ==
    /\ named[t] # k
    /\ stored' = stored \ {<<t, k>>}
    /\ UNCHANGED <<stage, tries, named>>

Make(t) ==
    /\ stage[t] = "asked"
    /\ <<t, tries[t]>> \in stored
    /\ stage' = [stage EXCEPT ![t] = "made"]
    /\ named' = [named EXCEPT ![t] = tries[t]]
    /\ UNCHANGED <<tries, stored>>

GiveUp(t) ==
    /\ stage[t] = "asked"
    /\ tries[t] >= MaxAttempts
    /\ stage' = [stage EXCEPT ![t] = "failed"]
    /\ UNCHANGED <<tries, named, stored>>

Next ==
    \E t \in Tasks :
        \/ Ask(t) \/ Try(t) \/ Make(t) \/ GiveUp(t)
        \/ \E k \in 1..tries[t] : Store(t, k) \/ Remove(t, k)

Spec == Init /\ [][Next]_vars

----------------------------------------------------------------------------
TypeOK ==
    /\ stage \in [Tasks -> {"absent", "asked", "made", "failed"}]
    /\ tries \in [Tasks -> Nat]
    /\ named \in [Tasks -> Nat]

\* The archive of a task that has one is there and is that of its last try; one that
\* was given up was tried as often as it may be.
Sound ==
    \A t \in Tasks :
        /\ stage[t] = "made" => named[t] = tries[t] /\ <<t, named[t]>> \in stored
        /\ stage[t] = "failed" => tries[t] >= MaxAttempts
=============================================================================
