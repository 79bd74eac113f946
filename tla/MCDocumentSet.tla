--------------------------- MODULE MCDocumentSet ---------------------------
(* Instances of DocumentSet for TLC. *)
EXTENDS DocumentSet, TLC

CONSTANTS r0, r1, r2, f1, f2

\* An earlier run documented one flow; of the two that follow, one documents
\* that flow again and the other both.
Overlapping == (r0 :> {f1}) @@ (r1 :> {f1}) @@ (r2 :> {f1, f2})
Disjoint == (r1 :> {f1}) @@ (r2 :> {f2})
=============================================================================
