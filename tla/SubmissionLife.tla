---------------------------- MODULE SubmissionLife ----------------------------
(***************************************************************************)
(* What a submission promises whoever works with it, without requests,     *)
(* handlers, messages, locks or retries.  Its video arrives once and is    *)
(* kept only if it is whole; it is studied once, after which it is not     *)
(* refused any more.  Runs of annotation are opened on a kept video, come  *)
(* to nothing or to an outcome once, and only of a studied video; at most  *)
(* one outcome is formal.  A deletion ends when the video is gone, and     *)
(* closes whatever is open.                                                *)
(***************************************************************************)
CONSTANTS Runs, Initial

VARIABLES
    stage,     \* how far the submission is
    video,     \* the video: awaited, whole or short, or gone
    studied,   \* it has been analysed
    work,      \* whether each run is open, set aside or over
    outcome    \* what each run has come to

vars == <<stage, video, studied, work, outcome>>

Init ==
    /\ stage = "uploading"
    /\ video = "awaited"
    /\ studied = FALSE
    /\ work = [r \in Runs |-> "none"]
    /\ outcome = [r \in Runs |-> "none"]

Arrive ==
    /\ stage = "uploading" /\ video = "awaited"
    /\ video' \in {"whole", "short"}
    /\ UNCHANGED <<stage, studied, work, outcome>>

Accept ==
    /\ stage = "uploading" /\ video = "whole"
    /\ stage' = "kept"
    /\ UNCHANGED <<video, studied, work, outcome>>

Refuse ==
    /\ \/ stage = "uploading" /\ video = "short"
       \/ stage = "kept" /\ ~studied
    /\ stage' = "refused"
    /\ UNCHANGED <<video, studied, work, outcome>>

\* An analysis under way when the deletion begins may end after it.
Study ==
    /\ stage \in {"kept", "delete_pending", "deleted"}
    /\ ~studied
    /\ studied' = TRUE
    /\ \/ UNCHANGED work
       \/ stage = "kept" /\ work[Initial] = "none" /\ work' = [work EXCEPT ![Initial] = "open"]
    /\ UNCHANGED <<stage, video, outcome>>

\* Not between the arrival of the video and the decision about it.
Delete ==
    /\ stage \in {"uploading", "kept", "refused", "deleted"}
    /\ stage = "uploading" => video \notin {"whole", "short"}
    /\ stage' = "delete_pending"
    /\ UNCHANGED <<video, studied, work, outcome>>

Lose ==
    /\ stage = "delete_pending"
    /\ video' = "gone"
    /\ UNCHANGED <<stage, studied, work, outcome>>

Unfinished(r) == work[r] \in {"open", "aside"}

\* Of the files, or of the submission with all that belongs to it.
EndDeletion ==
    /\ stage = "delete_pending" /\ video = "gone"
    /\ \/ /\ stage' = "deleted"
          /\ work' = [r \in Runs |-> IF Unfinished(r) THEN "cancelled" ELSE work[r]]
          /\ UNCHANGED <<studied, outcome>>
       \/ /\ stage' = "removed"
          /\ studied' = FALSE
          /\ work' = [r \in Runs |-> "none"]
          /\ outcome' = [r \in Runs |-> "none"]
    /\ UNCHANGED video

NoOther(r) == \A q \in Runs \ {r} : work[q] # "open"

Begun(r) == work' = [work EXCEPT ![r] = "open"]

Start(r) ==
    /\ stage \in {"kept", "refused"}
    /\ work[r] = "none" /\ NoOther(r)
    /\ \A q \in Runs : outcome[q] # "pending"
    /\ Begun(r)
    /\ UNCHANGED <<stage, video, studied, outcome>>

\* One that was set aside, or has failed, is opened again beside no other; what
\* still lay waiting for it may begin it at any time.
Resume(r) ==
    /\ \/ stage \in {"kept", "refused"} /\ work[r] \in {"aside", "failed"} /\ NoOther(r)
       \/ stage \notin {"deleted", "removed"} /\ work[r] = "aside" /\ NoOther(r)
       \/ stage = "kept" /\ studied /\ work[r] = "aside"
    /\ Begun(r)
    /\ UNCHANGED <<stage, video, studied, outcome>>

SetAside(r) ==
    /\ work[r] = "open"
    /\ work' = [work EXCEPT ![r] = "aside"]
    /\ UNCHANGED <<stage, video, studied, outcome>>

Fail(r) ==
    /\ Unfinished(r)
    /\ work' = [work EXCEPT ![r] = "failed"]
    /\ UNCHANGED <<stage, video, studied, outcome>>

Formal == {"formal", "audit"}

\* A formal outcome takes the place of the one before.
Succeeds(r, x) ==
    outcome' = [q \in Runs |-> IF q = r THEN x
                               ELSE IF outcome[q] \in Formal THEN "withdrawn" ELSE outcome[q]]

ComesOut(r) ==
    /\ stage \notin {"deleted", "removed"} /\ studied
    /\ Unfinished(r)
    /\ work' = [work EXCEPT ![r] = "done"]
    /\ \/ \E x \in Formal : Succeeds(r, x)
       \/ /\ \A q \in Runs : outcome[q] # "pending"
          /\ outcome' = [outcome EXCEPT ![r] = "pending"]
    /\ UNCHANGED <<stage, video, studied>>

Decide(r) ==
    /\ outcome[r] \in {"pending", "audit"}
    /\ Succeeds(r, "formal") \/ outcome' = [outcome EXCEPT ![r] = "withdrawn"]
    /\ UNCHANGED <<stage, video, studied, work>>

Next ==
    \/ Arrive \/ Accept \/ Refuse \/ Study \/ Delete \/ Lose \/ EndDeletion
    \/ \E r \in Runs : \/ Start(r) \/ Resume(r) \/ SetAside(r) \/ Fail(r)
                       \/ ComesOut(r) \/ Decide(r)

Spec == Init /\ [][Next]_vars

----------------------------------------------------------------------------
TypeOK ==
    /\ stage \in {"uploading", "kept", "refused", "delete_pending", "deleted", "removed"}
    /\ video \in {"awaited", "whole", "short", "gone"}
    /\ studied \in BOOLEAN
    /\ work \in [Runs -> {"none", "open", "aside", "failed", "done", "cancelled"}]
    /\ outcome \in [Runs -> {"none", "pending", "withdrawn"} \cup Formal]

\* What is kept is whole, and what is deleted is gone with nothing left open; a run
\* that has come to something is over and was about a studied video, and no two of
\* them are formal, or wait for a decision, at once.
Sound ==
    /\ stage = "kept" => video = "whole"
    /\ stage \in {"deleted", "removed"} => video = "gone" /\ \A r \in Runs : ~Unfinished(r)
    /\ \A r \in Runs : outcome[r] # "none" => studied /\ work[r] = "done"
    /\ \A q, r \in Runs : /\ outcome[q] \in Formal /\ outcome[r] \in Formal => q = r
                          /\ outcome[q] = "pending" /\ outcome[r] = "pending" => q = r
=============================================================================
