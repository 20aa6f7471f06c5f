----------------------------- MODULE VideoArchive -----------------------------
(***************************************************************************)
(* What is kept of an annotated video, without handlers, messages,         *)
(* refinements, transcoding or retries.  A task of a run is kept as a clip *)
(* or found to need none; a kept task keeps its clip.  Descriptions of a   *)
(* clip are published under numbers, each rendering the review in force at *)
(* that moment, and stand unchanged; one of them is current.  The original *)
(* is given up only when a run has a clip and a current description for    *)
(* every task that needs one, and nothing is lost by that afterwards.      *)
(***************************************************************************)
EXTENDS Naturals

CONSTANTS Runs, Tasks, RunOf, Clips, NoClip

VARIABLES
    review,     \* what counts as the review of each run
    task,       \* what became of each task
    footage,    \* the clip of each kept task
    numbered,   \* how many numbers have been given out for each task
    published,  \* the descriptions of each task, by number
    current,    \* the number of the one that is current, or 0
    source      \* the original is there

vars == <<review, task, footage, numbered, published, current, source>>

TasksOf(r) == {t \in Tasks : RunOf[t] = r}

Description(t) == [version |-> review[RunOf[t]], sha |-> footage[t]]

Described(t) == /\ current[t] \in DOMAIN published[t]
                /\ published[t][current[t]].sha = footage[t]

Init ==
    /\ review = [r \in Runs |-> 0]
    /\ task = [t \in Tasks |-> "open"]
    /\ footage = [t \in Tasks |-> NoClip]
    /\ numbered = [t \in Tasks |-> 0]
    /\ published = [t \in Tasks |-> << >>]
    /\ current = [t \in Tasks |-> 0]
    /\ source = TRUE

\* A review of the run counts from now on, or its tasks are looked at, and some of
\* those still open turn out to need no clip.
Judge(r, S) ==
    /\ \A t \in S : task[t] \in {"open", "resumed"}
    /\ review' \in {review, [review EXCEPT ![r] = 1]}
    /\ task' = [t \in Tasks |-> IF t \in S THEN "waived" ELSE task[t]]
    /\ UNCHANGED <<footage, numbered, published, current, source>>

Keep(t) ==
    /\ task[t] \in {"open", "resumed"}
    /\ task' = [task EXCEPT ![t] = "kept"]
    /\ \E c \in Clips : footage' = [footage EXCEPT ![t] = c]
    /\ UNCHANGED <<review, numbered, published, current, source>>

\* An administrator wants a clip after all.
Resume(t) ==
    /\ task[t] \in {"open", "waived"}
    /\ task' = [task EXCEPT ![t] = "resumed"]
    /\ UNCHANGED <<review, footage, numbered, published, current, source>>

Reserve(t) ==
    /\ task[t] = "kept"
    /\ numbered' = [numbered EXCEPT ![t] = @ + 1]
    /\ UNCHANGED <<review, task, footage, published, current, source>>

\* A number is used for one description only.
Publish(t, i) ==
    /\ task[t] = "kept"
    /\ i \in DOMAIN published[t] => published[t][i] = Description(t)
    /\ published' = [published EXCEPT ![t] =
          [k \in DOMAIN published[t] \cup {i} |-> IF k = i THEN Description(t)
                                                           ELSE published[t][k]]]
    /\ current' = [current EXCEPT ![t] = i]
    /\ UNCHANGED <<review, task, footage, numbered, source>>

Release(r) ==
    /\ \E t \in TasksOf(r) : task[t] = "kept"
    /\ \A t \in TasksOf(r) : task[t] = "waived" \/ (task[t] = "kept" /\ Described(t))
    /\ source' = FALSE
    /\ UNCHANGED <<review, task, footage, numbered, published, current>>

Next ==
    \/ \E r \in Runs : Release(r) \/ \E S \in SUBSET TasksOf(r) : Judge(r, S)
    \/ \E t \in Tasks : Keep(t) \/ Resume(t) \/ Reserve(t)
    \/ \E t \in Tasks : \E i \in 1..numbered[t] : Publish(t, i)

Spec == Init /\ [][Next]_vars

----------------------------------------------------------------------------
TypeOK ==
    /\ task \in [Tasks -> {"open", "waived", "resumed", "kept"}]
    /\ footage \in [Tasks -> Clips \cup {NoClip}]
    /\ DOMAIN numbered = Tasks
    /\ DOMAIN published = Tasks
    /\ DOMAIN current = Tasks
    /\ source \in BOOLEAN

\* Only a kept task is described, every description of it is of the clip it keeps, and
\* the current one is published.
DescriptionsFit ==
    \A t \in Tasks :
        /\ \A i \in DOMAIN published[t] : task[t] = "kept" /\ published[t][i].sha = footage[t]
        /\ current[t] # 0 => current[t] \in DOMAIN published[t]

\* The original is gone only after all tasks of a run were looked after and one of
\* them, at least, was kept and described.
SourceCovered ==
    ~source => \E r \in Runs : /\ \E t \in TasksOf(r) : task[t] = "kept" /\ Described(t)
                               /\ \A t \in TasksOf(r) : task[t] # "open"

Sound == DescriptionsFit /\ SourceCovered
=============================================================================
