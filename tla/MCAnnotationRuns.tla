-------------------------- MODULE MCAnnotationRuns --------------------------
(* Instances of AnnotationRuns for TLC. *)
EXTENDS AnnotationRuns

CONSTANTS o1, o2, p1, p2, a1, a2, w1, w2
=============================================================================
