-------------------------- MODULE MCIncrementalUpdate --------------------------
(* Instances of IncrementalUpdate for TLC. *)
EXTENDS IncrementalUpdate

CONSTANTS r1, r2, f1, f2

\* The whole organization, and one flow by its id.
SomeScopes == {{f1, f2}, {f1}}
=============================================================================
