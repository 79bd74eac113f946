----------------------------- MODULE MCCaptureRun -----------------------------
(* Instances of CaptureRun for TLC. *)
EXTENDS CaptureRun

CONSTANTS r1, r2, f1, f2, k1, k2

\* f1 refers to k1, which refers to itself and back to f1; f2 refers to k2.  With
\* a budget of two the walk from either flow reaches the end, and from both not.
Cyclic ==
  [k \in Keys |-> CASE k = f1 -> <<k1>> [] k = f2 -> <<k2>>
                    [] k = k1 -> <<k1, f1>> [] k = k2 -> <<k2>>]
=============================================================================
