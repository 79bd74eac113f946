-------------------------------- MODULE DiffFlow --------------------------------
(***************************************************************************)
(* createDiffFlow of packages/composition, behind genesys_flow_diff: two   *)
(* versions of a flow are loaded at once, normalized, compared and         *)
(* classified; the caller sees lists of ids, each cut at MaxListItems.     *)
(***************************************************************************)
EXTENDS FlowDiff

CONSTANTS
  MaxListItems,
  NormalizeFlow(_, _)   \* normalizeFlow of packages/normalization

VARIABLES
  captured, flow,       \* the flow as the version asked from and the one asked to have it
  report                \* Absent until the tool has answered

-----------------------------------------------------------------------------
(* What is said of an entry: ids and structure, never a name *)

Capped(items) ==
  IF Len(items) <= MaxListItems THEN items
  ELSE Append(SubSeq(items, 1, MaxListItems), <<"omitted", Len(items) - MaxListItems>>)

Of(op, entries) == InOrder({e \in entries : e.operation = op})
Label(kind, e) ==
  CASE kind = "node" -> <<e.id, IF e.operation = "changed" THEN MatchBasis(e.id) ELSE "unmatched">>
    [] kind = "variable" -> <<e.id, OneOf(e).secure>>
    [] kind = "dependency" -> <<e.operation, e.id, OneOf(e).type, e.changedFields>>
Labels(op, kind, entries) == [i \in DOMAIN Of(op, entries) |-> Label(kind, Of(op, entries)[i])]

-----------------------------------------------------------------------------
(* The answer *)

BasisNote(diff) == <<"diff basis", diff.overallBasis, diff.graphHashChanged, diff.positionalOnlyReorder>>

BlockNote(review) == IF review.blocksApproval THEN << <<"BLOCKED">> >> ELSE <<>>
DescribeClassifiedChange(entry) == <<"change", entry.change, entry.category>>

\* Mutant: the block is added when all changes are.
MaterialJourneyChanges_BlockLast(diff, review) ==
  <<BasisNote(diff)>>
  \o [i \in DOMAIN review.classified |-> DescribeClassifiedChange(review.classified[i])] \o BlockNote(review)
\* The basis of the comparison and the block come first: a cut list still has them.
MaterialJourneyChanges(diff, review) ==
  <<BasisNote(diff)>> \o BlockNote(review)
  \o [i \in DOMAIN review.classified |-> DescribeClassifiedChange(review.classified[i])]

FlowDiffOf(diff, review, before, after) ==
  [fromVersion |-> before.version, toVersion |-> after.version,
   addedNodes |-> Capped(Labels("added", "node", diff.nodes)),
   removedNodes |-> Capped(Labels("removed", "node", diff.nodes)),
   changedNodes |-> Capped(Labels("changed", "node", diff.nodes)),
   addedVariables |-> Capped(Labels("added", "variable", diff.variables)),
   removedVariables |-> Capped(Labels("removed", "variable", diff.variables)),
   dependencyChanges |-> Capped(Labels("added", "dependency", diff.dependencies)
                                \o Labels("removed", "dependency", diff.dependencies)
                                \o Labels("changed", "dependency", diff.dependencies)),
   promptChanges |-> Capped(InOrder(diff.prompts.added) \o InOrder(diff.prompts.removed)),
   materialJourneyChanges |-> Capped(MaterialJourneyChanges(diff, review))]

\* What the tool says of every version: the flow's id for a name, not secure.
Unnamed == [name |-> Absent, secure |-> FALSE, languages |-> Absent]
\* The normalized version, and the failure of one: the provider rejects it, its text is
\* not of the format it names, or it is no flow at all.
LoadSnapshot(config) == NormalizeFlow(config, Unnamed)
Failure(side) == [failed |-> side]

Answer(before, after) ==
  LET diff == DiffSnapshots(before, after)
  IN  [failed |-> Absent, before |-> before, after |-> after,
       answer |-> FlowDiffOf(diff, ClassifyChanges(diff.changes), before, after)]

\* Either load may fail, or both; one of the failures is the answer then, and never
\* a diff that shows nothing.
Compare ==
  /\ report = Absent
  /\ \/ \E side \in {"from", "to"} : report' = Failure(side)
     \/ report' = Answer(LoadSnapshot(captured), LoadSnapshot(flow))
  /\ UNCHANGED <<captured, flow>>

=============================================================================
