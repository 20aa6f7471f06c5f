---------------------------- MODULE EvaluationDesk ----------------------------
(***************************************************************************)
(* What the evaluation of tasks promises, without messages, handlers,      *)
(* locks, timeouts or deaths.  There is one desk for each task; what lies  *)
(* on it is judged, fails or is left, and an attempt that does not end it  *)
(* leaves the task to the next.  A task that is judged stays so until it   *)
(* is asked for again, and so does one that has failed, unless that was    *)
(* before its first evaluation had begun.                                  *)
(***************************************************************************)
CONSTANTS Tasks, Prompts, None

VARIABLES
    status,    \* processing_status of each task
    basis,     \* the prompt its attempts are to use, or None before the first
    verdict,   \* the prompt its verdict was reached by, or None
    desk,      \* the prompt it is being evaluated by, or None
    due        \* the tasks whose evaluation is to be announced

vars == <<status, basis, verdict, desk, due>>

Final(s) == \/ status[s] = "completed"
            \/ status[s] = "system_failed" /\ basis[s] # None

Init ==
    /\ status = [s \in Tasks |-> "awaiting_ai"]
    /\ basis = [s \in Tasks |-> None]
    /\ verdict = [s \in Tasks |-> None]
    /\ desk = [s \in Tasks |-> None]
    /\ due = Tasks

Announce(s) ==
    /\ s \in due
    /\ due' = due \ {s}
    /\ UNCHANGED <<status, basis, verdict, desk>>

Begin(s, v) ==
    /\ ~Final(s)
    /\ desk[s] = None
    /\ basis[s] \in {None, v}
    /\ status' = [status EXCEPT ![s] = "ai_processing"]
    /\ basis' = [basis EXCEPT ![s] = v]
    /\ desk' = [desk EXCEPT ![s] = v]
    /\ UNCHANGED <<verdict, due>>

Judge(s) ==
    /\ desk[s] # None
    /\ status' = [status EXCEPT ![s] = "completed"]
    /\ verdict' = [verdict EXCEPT ![s] = desk[s]]
    /\ desk' = [desk EXCEPT ![s] = None]
    /\ UNCHANGED <<basis, due>>

\* An attempt that is to be made again.
Return(s) ==
    /\ desk[s] # None
    /\ status' = [status EXCEPT ![s] = "awaiting_ai"]
    /\ desk' = [desk EXCEPT ![s] = None]
    /\ UNCHANGED <<basis, verdict, due>>

\* An attempt that fails for good, on the desk or before it got there.
Fail(s) ==
    /\ ~Final(s)
    /\ status' = [status EXCEPT ![s] = "system_failed"]
    /\ desk' = [desk EXCEPT ![s] = None]
    /\ UNCHANGED <<basis, verdict, due>>

\* Some evaluations just stop.
Leave(S) ==
    /\ desk' = [s \in Tasks |-> IF s \in S THEN None ELSE desk[s]]
    /\ UNCHANGED <<status, basis, verdict, due>>

\* Of the tasks that do not get on, those in S are announced again and those in T
\* set aside, whether or not they are still being evaluated.
PutBack(S, T) ==
    /\ \A s \in S : status[s] \in {"ai_processing", "stuck"}
    /\ \A s \in T : status[s] = "ai_processing"
    /\ status' = [s \in Tasks |-> IF s \in S THEN "awaiting_ai"
                                  ELSE IF s \in T THEN "stuck" ELSE status[s]]
    /\ due' = due \cup S
    /\ UNCHANGED <<basis, verdict, desk>>

Ask(s, v) ==
    /\ status[s] # "ai_processing"
    /\ status' = [status EXCEPT ![s] = "awaiting_ai"]
    /\ basis' = [basis EXCEPT ![s] = IF @ = None THEN None ELSE v]
    /\ verdict' = [verdict EXCEPT ![s] = None]
    /\ due' = due \cup {s}
    /\ UNCHANGED desk

Next ==
    \/ \E s \in Tasks : \/ Announce(s) \/ Judge(s) \/ Return(s) \/ Fail(s)
                        \/ \E v \in Prompts : Begin(s, v) \/ Ask(s, v)
    \/ \E S \in SUBSET Tasks : Leave(S) \/ \E T \in SUBSET Tasks : PutBack(S, T)

Spec == Init /\ [][Next]_vars

----------------------------------------------------------------------------
Statuses == {"awaiting_ai", "ai_processing", "stuck", "completed", "system_failed"}

TypeOK ==
    /\ status \in [Tasks -> Statuses]
    /\ basis \in [Tasks -> Prompts \cup {None}]
    /\ verdict \in [Tasks -> Prompts \cup {None}]
    /\ desk \in [Tasks -> Prompts \cup {None}]

\* A task is completed if and only if it has a verdict, and what has ended is not
\* being evaluated any more.
Sound ==
    \A s \in Tasks :
        /\ status[s] = "completed" <=> verdict[s] # None
        /\ status[s] \in {"completed", "system_failed"} => desk[s] = None
=============================================================================
