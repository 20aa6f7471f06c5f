---------------------------- MODULE MCAiQuality ----------------------------
(* Instances of AiQuality for TLC. *)
EXTENDS AiQuality

CONSTANTS s1, s2, p1, p2, a1, a2, b1, b2, v1, v2

\* Slots a1, a2 belong to process p1 and b1, b2 to p2.
MCProcessOf == [c \in Slots |-> IF c \in {a1, a2} THEN p1 ELSE p2]
=============================================================================
