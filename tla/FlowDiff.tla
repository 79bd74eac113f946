-------------------------------- MODULE FlowDiff --------------------------------
(***************************************************************************)
(* diffSnapshots and classifyChanges of packages/analysis: the semantic    *)
(* changes between two snapshots of a flow and the review each needs.      *)
(* The lists of entries are one set; an entry pairs the two sides, Absent  *)
(* where there is none, and names the list it is in.                       *)
(***************************************************************************)
EXTENDS Integers, Sequences, SequencesExt, FiniteSets

CONSTANTS
  Absent,
  CoverageCodes,     \* the warning codes isCoverageWarningCode matches
  AuthTypes          \* the dependency types AUTH_RELATED_DEPENDENCY_TYPE matches

Has(entry, f) == f \in entry.changedFields
OneOf(e) == IF e.operation = "removed" THEN e.before ELSE e.after
\* Entries are sorted by the ids they are about: the one order of a set.
InOrder(entries) == FoldSet(LAMBDA e, list : Append(list, e), <<>>, entries)

-----------------------------------------------------------------------------
(* Nodes, variables and dependencies, matched by id *)

\* How strong the claim is that two nodes of one id are the same: an id that Architect
\* gave, or one derived from where the node is.
MatchBasis(n) == IF Len(n) = 1 THEN "trackingId" ELSE "derivedIdentity"
OverallBasis(before, after) ==
  LET bases == {MatchBasis(n) : n \in DOMAIN before \cap DOMAIN after}
  IN  IF bases = {} THEN "none" ELSE IF Cardinality(bases) > 1 THEN "mixed" ELSE CHOOSE b \in bases : TRUE

\* The fields in which two records differ; lists are compared as the sets they are.
ChangedFields(before, after) == {f \in DOMAIN before : before[f] # after[f]}

Entry(operation, before, after, fields, id) ==
  [id |-> id, operation |-> operation, before |-> before, after |-> after, changedFields |-> fields]

DiffById(before, after) ==
  {Entry("added", Absent, after[n], {}, n) : n \in DOMAIN after \ DOMAIN before}
  \cup {Entry("removed", before[n], Absent, {}, n) : n \in DOMAIN before \ DOMAIN after}
  \cup {Entry("changed", before[n], after[n], ChangedFields(before[n], after[n]), n) :
          n \in {m \in DOMAIN before \cap DOMAIN after : before[m] # after[m]}}

DiffVariables(before, after) == DiffById(before, after)
DiffDependencies(before, after) == DiffById(before, after)

-----------------------------------------------------------------------------
(* Edges *)

EdgeId(e) == <<e.from, e.to, e.role, e.site>>
Slot(e) == <<e.from, e.role>>

\* An edge on both sides is compared by its label; of the others, the only one a
\* slot lost and the only one it gained are one rerouted edge.
DiffEdges(before, after) ==
  LET kept == {p \in before \X after : EdgeId(p[1]) = EdgeId(p[2])}
      lost == before \ {p[1] : p \in kept}
      gained == after \ {p[2] : p \in kept}
      alone(e, es) == \A x \in es : Slot(x) = Slot(e) => x = e
      rerouted == {p \in lost \X gained :
                     Slot(p[1]) = Slot(p[2]) /\ alone(p[1], lost) /\ alone(p[2], gained)}
  IN  {Entry("changed", p[1], p[2], {"label"}, EdgeId(p[2])) :
         p \in {q \in kept : q[1].label # q[2].label}}
      \cup {Entry("changed", p[1], p[2], {f \in {"to", "condition", "label"} : p[1][f] # p[2][f]}, EdgeId(p[2])) :
              p \in rerouted}
      \cup {Entry("added", Absent, a, {}, EdgeId(a)) : a \in gained \ {p[2] : p \in rerouted}}
      \cup {Entry("removed", b, Absent, {}, EdgeId(b)) : b \in lost \ {p[1] : p \in rerouted}}

-----------------------------------------------------------------------------
(* The changes *)

Change(category, about, operation, aspect) ==
  [category |-> category, about |-> about, operation |-> operation, aspect |-> aspect]

MetadataChanges(before, after) ==
  {Change(IF f = "languages" THEN "prompt-reference-changed" ELSE "flow-metadata-changed",
          <<"flow">>, "changed", f) : f \in ChangedFields(before.meta, after.meta)}

EntryChanges(before, after) ==
  {Change("entry-point-changed", n, "added", "entry") : n \in after.entryNodeIds \ before.entryNodeIds}
  \cup {Change("entry-point-changed", n, "removed", "entry") : n \in before.entryNodeIds \ after.entryNodeIds}

OutcomeRoles == {"success", "failure", "timeout", "no_input", "no_match"}
StructuralRoles == {"entry", "next", "transfer-menu", "transfer-task", "menu-choice"}

\* Mutant: a choice that leads elsewhere under the same label is relabelled.
ClassifyEdgeChange_Labels(e) ==
  LET edge == OneOf(e)
      aspect == IF e.operation # "changed" THEN "presence"
                ELSE IF Has(e, "to") /\ Has(e, "label") THEN "route" ELSE "label"
  IN  CASE edge.role = "menu-choice" -> Change("menu-choice-changed", edge.from, e.operation, aspect)
        [] edge.role \in OutcomeRoles -> Change("outcome-path-changed", edge.from, e.operation, edge.role)
        [] OTHER -> Change("action-changed", edge.from, e.operation,
                           IF aspect = "label" THEN "relabeled" ELSE "position")

ClassifyEdgeChange(e) ==
  LET edge == OneOf(e)
      op == e.operation
      moved == op # "changed" \/ Has(e, "to")
      aspect(yes) == IF moved THEN yes ELSE "relabeled"
  IN  CASE edge.role = "menu-choice" ->
             Change("menu-choice-changed", edge.from, op,
                    IF op # "changed" THEN "presence" ELSE IF moved THEN "route" ELSE "label")
        [] edge.role \in OutcomeRoles -> Change("outcome-path-changed", edge.from, op, edge.role)
        [] edge.role \notin StructuralRoles \cup OutcomeRoles /\ op = "changed" /\ Has(e, "condition") ->
             Change("condition-expression-changed", edge.from, op, "condition")
        [] edge.role \in StructuralRoles \ {"menu-choice"} ->
             Change("action-changed", edge.from, op, aspect("position"))
        [] OTHER -> Change("action-changed", edge.from, op, aspect("reconfigured"))

VariableChange(e) ==
  LET secure == \/ e.operation # "added" /\ e.before.secure
                \/ e.operation # "removed" /\ e.after.secure
  IN  Change("variable-changed", <<e.id>>, e.operation,
             IF secure THEN "secure" ELSE IF e.operation # "changed" THEN "presence"
             ELSE IF Has(e, "dataType") THEN "type" ELSE "usage-location")

DependencyChange(e) ==
  Change("dependency-changed", <<e.id>>, e.operation,
         IF OneOf(e).type \in AuthTypes THEN "auth"
         ELSE IF e.operation # "changed" THEN "presence"
         ELSE IF Has(e, "resolutionStatus") THEN "resolution"
         ELSE IF Has(e, "referencedByNodeIds") THEN "reference" ELSE "displayName")

\* The prompts a node that both sides have plays on one of them only.
DiffPrompts(nodes) ==
  LET matched == {e \in nodes : e.operation = "changed"}
      only(xs, ys) == xs.promptRefs \ ys.promptRefs
  IN  [added |-> UNION {{<<"added", p, e.id>> : p \in only(e.after, e.before)} : e \in matched},
       removed |-> UNION {{<<"removed", p, e.id>> : p \in only(e.before, e.after)} : e \in matched}]
PromptChanges(nodes) ==
  {Change("prompt-reference-changed", e.id, "changed", "node") : e \in {n \in nodes : Has(n, "promptRefs")}}

\* Only when the graph's hash agrees.
VersionChanges(before, after) ==
  IF before.version # after.version /\ before.hash = after.hash
    THEN {Change("published-version-only-changed", <<"flow">>, "changed", "version")} ELSE {}

\* A finding of a snapshot has no node, pointer or evidence that warningKey would see.
WarningKey(w) == w.code
CoverageWarnings(before, after) ==
  {Change("coverage-changed", w.node, "added", "regressed") :
     w \in {x \in after.warnings : /\ x.code \in CoverageCodes
                                   /\ \A b \in before.warnings : WarningKey(b) # WarningKey(x)}}

Rank(level) == CASE level = "full" -> 3 [] level = "partial" -> 2 [] level = "opaque" -> 1 [] OTHER -> 0
CoverageDirection(b, a) == IF Rank(a) < Rank(b) THEN "regressed" ELSE "improved"

\* A matched node: its coverage, its settings (an expression apart) and the rest.
ClassifySettingsChange(e) ==
  IF e.before.settings.expression # e.after.settings.expression
    THEN Change("condition-expression-changed", e.id, "changed", "settings")
    ELSE Change("action-changed", e.id, "changed", "reconfigured")
ClassifyNodeReconfigured(e, fields) ==
  Change("action-changed", e.id, "changed",
         IF fields \subseteq {"name", "containerPath"} THEN "relabeled" ELSE "reconfigured")

NodeChanges(e) ==
  LET rest == e.changedFields \ {"supportLevel", "settings"}
  IN  (IF Has(e, "supportLevel")
         THEN {Change("coverage-changed", e.id, "changed",
                      CoverageDirection(e.before.supportLevel, e.after.supportLevel))} ELSE {})
      \cup (IF Has(e, "settings") THEN {ClassifySettingsChange(e)} ELSE {})
      \cup (IF rest # {} THEN {ClassifyNodeReconfigured(e, rest)} ELSE {})

\* changeSortKey: the category's name, then the operation's, then the subject, whose
\* order is the one the changes were found in.
CategoryOrder == <<"action-changed", "condition-expression-changed", "coverage-changed",
                   "dependency-changed", "entry-point-changed", "flow-metadata-changed",
                   "menu-choice-changed", "outcome-path-changed", "prompt-reference-changed",
                   "published-version-only-changed", "variable-changed">>
OperationOrder == <<"added", "changed", "removed">>
Sorted(changes) ==
  LET of(category, operation) ==
        FlattenSeq([i \in DOMAIN changes |->
          IF changes[i].category = category /\ changes[i].operation = operation
            THEN <<changes[i]>> ELSE <<>>])
  IN  FlattenSeq([i \in DOMAIN CategoryOrder |->
                    FlattenSeq([j \in DOMAIN OperationOrder |-> of(CategoryOrder[i], OperationOrder[j])])])

BuildChanges(before, after, nodes, edges, variables, dependencies) ==
  LET each(F(_), entries) == LET list == InOrder(entries) IN [i \in DOMAIN list |-> F(list[i])]
      presence(e) == Change("action-changed", e.id, e.operation, "presence")
      found(e) == InOrder(NodeChanges(e))
  IN  Sorted(InOrder(MetadataChanges(before, after)) \o InOrder(EntryChanges(before, after))
             \o each(presence, {e \in nodes : e.operation # "changed"})
             \o each(ClassifyEdgeChange, edges) \o each(VariableChange, variables)
             \o InOrder(PromptChanges(nodes)) \o each(DependencyChange, dependencies)
             \o InOrder(VersionChanges(before, after)) \o InOrder(CoverageWarnings(before, after))
             \o FlattenSeq(each(found, {n \in nodes : n.operation = "changed"})))

DiffSnapshots(before, after) ==
  LET nodes == DiffById(before.nodes, after.nodes)
      edges == DiffEdges(before.edges, after.edges)
      variables == DiffVariables(before.variables, after.variables)
      dependencies == DiffDependencies(before.dependencies, after.dependencies)
      moved == before.hash # after.hash
  IN  [overallBasis |-> OverallBasis(before.nodes, after.nodes),
       nodes |-> nodes, edges |-> edges, variables |-> variables, dependencies |-> dependencies,
       prompts |-> DiffPrompts(nodes), graphHashChanged |-> moved,
       changes |-> BuildChanges(before, after, nodes, edges, variables, dependencies),
       positionalOnlyReorder |-> /\ moved
                                 /\ nodes = {} /\ edges = {} /\ variables = {} /\ dependencies = {}]

-----------------------------------------------------------------------------
(* change-classification.ts *)

ClassifyOne(c) ==
  CASE c.category = "flow-metadata-changed" ->
         IF c.aspect = "secure" THEN "security-sensitive" ELSE "cosmetic"
    [] c.category = "menu-choice-changed" -> IF c.aspect = "label" THEN "cosmetic" ELSE "behavioral"
    [] c.category = "action-changed" -> IF c.aspect = "relabeled" THEN "cosmetic" ELSE "behavioral"
    [] c.category = "variable-changed" ->
         IF c.aspect = "secure" THEN "security-sensitive" ELSE "behavioral"
    [] c.category \in {"prompt-reference-changed", "published-version-only-changed"} -> "documentation-only"
    [] c.category = "dependency-changed" ->
         IF c.aspect = "auth" THEN "security-sensitive" ELSE "dependency"
    [] c.category = "coverage-changed" ->
         IF c.aspect = "regressed" THEN "coverage-regression" ELSE "documentation-only"
    [] OTHER -> "behavioral"

Weights == <<"cosmetic", "documentation-only", "behavioral", "dependency", "security-sensitive",
             "coverage-regression">>
Weight(category) == CHOOSE i \in DOMAIN Weights : Weights[i] = category

ClassifyChanges(changes) ==
  LET categories == {ClassifyOne(c) : c \in ToSet(changes)}
  IN  [classified |-> [i \in DOMAIN changes |-> [change |-> changes[i], category |-> ClassifyOne(changes[i])]],
       highest |-> IF changes = <<>> THEN "documentation-only"
                   ELSE CHOOSE x \in categories : \A y \in categories : Weight(y) <= Weight(x),
       blocksApproval |-> "coverage-regression" \in categories]

=============================================================================
