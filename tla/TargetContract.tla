--------------------------- MODULE TargetContract ---------------------------
(***************************************************************************)
(* What packages/storage promises about a promoted directory, as a reader  *)
(* of the target sees it: "old content" or "ENOENT" or "new content",      *)
(* never a mix.  `visible` is the target, `last` the content last          *)
(* published; contents are published in the order of their numbers.        *)
(***************************************************************************)
EXTENDS Naturals

CONSTANTS Versions, Absent

VARIABLES visible, last

Init == visible = Absent /\ last = Absent

\* The target is vacant and one version, newer than any before, fills it.
Publish ==
  /\ visible = Absent
  /\ \E v \in Versions :
       /\ visible' = {v} /\ last' = {v}
       /\ \A u \in last : u < v

\* The target vanishes while it is being replaced.
Vanish == visible = last /\ visible' = Absent /\ last' = last

\* A replacement is undone: what returns is what was last published.
Return == visible = Absent /\ visible' = last /\ last' = last

Next == Publish \/ Vanish \/ Return

Spec == Init /\ [][Next]_<<visible, last>>
=============================================================================
