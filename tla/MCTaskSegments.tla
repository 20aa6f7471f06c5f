--------------------------- MODULE MCTaskSegments ---------------------------
(* Instances of TaskSegments for TLC. *)
EXTENDS TaskSegments

CONSTANTS r1, r2, t1, t2, u1, h1, h2

\* Tasks t1, t2 are of run r1 and u1 of run r2.
MCRunOf == [a \in Assets |-> IF a = u1 THEN r2 ELSE r1]

\* The two tasks of one run are alike.
TwoTasks == Permutations({t1, t2})
=============================================================================
