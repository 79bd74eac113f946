----------------------------- MODULE MCNarration -----------------------------
(* Instances of Narration for TLC. *)
EXTENDS Narration

CONSTANTS r1, r2, j1, j2

\* The same flows documented by every run, and by two runs in opposite orders,
\* as their directory listings may name them.
Opposite == [r \in Runs |-> IF r = r1 THEN <<j1, j2>> ELSE <<j2, j1>>]
=============================================================================
