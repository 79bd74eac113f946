-------------------------------- MODULE Normalize --------------------------------
(***************************************************************************)
(* normalizeFlow of packages/normalization: the snapshot of a raw flow.    *)
(* Texts, pointers and hashes are values that are equal when the code's    *)
(* are; lists whose order means nothing are sets.                          *)
(***************************************************************************)
EXTENDS Integers, Sequences, SequencesExt, FiniteSets

CONSTANTS
  Absent, Gone,
  KnownTypes,      \* KNOWN_TYPES
  PromptTypes      \* PROMPT_DEPENDENCY_TYPES

-----------------------------------------------------------------------------
(* Nodes: extract-nodes.ts *)

\* What is no array is passed over, and nobody is told.
ActionList(flow, box) == IF <<box, "actionList">> \in flow.shapeless THEN <<>> ELSE flow.actions[box]
MenuChoiceList(flow, box) == IF <<box, "menuChoiceList">> \in flow.shapeless THEN <<>> ELSE flow.choices[box]

\* The places of the source where an object is expected, in the order of the walk.
Walk(flow) ==
  FlattenSeq([c \in DOMAIN flow.order |->
    LET box == flow.order[c]
        at(list, objects) == [i \in DOMAIN objects |->
          [object |-> objects[i], within |-> box, pointer |-> <<c, list, i>>, index |-> i]]
    IN  <<[object |-> box, within |-> Absent, pointer |-> <<c>>, index |-> c]>>
        \o at("actionList", ActionList(flow, box))
        \o at("menuChoiceList", [i \in DOMAIN MenuChoiceList(flow, box) |-> MenuChoiceList(flow, box)[i].action])])

\* What is not an object is left out, a container with all it holds.
Taken(flow, p) ==
  /\ flow.objects[p.object].well
  /\ p.within # Absent => flow.objects[p.within].well
Reached(flow, p) == p.within # Absent => flow.objects[p.within].well

\* Mutant: an object is known by the place it is at.
NodeId_Place(flow, p) == <<p.within, p.index>>
\* A tracking id or GUID, or an identity derived from where the object is.
NodeId(flow, p) ==
  LET raw == flow.objects[p.object]
  IN  IF raw.identified THEN <<p.object>>
      ELSE <<IF p.within = Absent THEN Absent ELSE flow.objects[p.within].name,
             raw.type, p.index, raw.name>>

SupportLevel(raw) == IF raw.type \in KnownTypes THEN "full" ELSE "partial"

ExtractNodes(flow) == {p \in ToSet(Walk(flow)) : Taken(flow, p)}

NodeWarnings(flow, nodes) ==
  LET places == {p \in ToSet(Walk(flow)) : Reached(flow, p)}
      ids(code, good(_)) == {[code |-> code, at |-> p.pointer, node |-> NodeId(flow, p)] :
                              p \in {q \in nodes : ~good(flow.objects[q.object])}}
  IN  {[code |-> "SCHEMA_DEVIATION", at |-> p.pointer, node |-> Absent] :
         p \in {q \in places : ~flow.objects[q.object].well}}
      \cup ids("UNSUPPORTED_NODE_TYPE", LAMBDA raw : SupportLevel(raw) = "full")
      \cup ids("DERIVED_NODE_IDENTITY", LAMBDA raw : raw.identified)

-----------------------------------------------------------------------------
(* Edges: extract-edges.ts *)

\* The objects a node can be matched with: findRawNode.
Identified(flow, nodes) == {p \in nodes : flow.objects[p.object].identified}
\* The node a GUID names; only an object that has a GUID, and not a tracking id alone,
\* can be referred to, or is visited for references of its own.
HasGuid(raw) == raw.identified /\ raw.guid
Referable(flow, nodes) == {p \in nodes : HasGuid(flow.objects[p.object])}
Guids(flow, nodes) == {p.object : p \in Referable(flow, nodes)}

\* Mutant: what the manifest does not list is passed over, too.
Dangling_Never(flow, known, g) == FALSE
Dangling(flow, known, g) ==
  g # Absent /\ g \notin known /\ ~(g \in DOMAIN flow.manifest /\ flow.manifest[g].well)

\* role and condition of a reference: a field of the catalogue, a branch by its
\* output, any other field by its own name.
Fields == {"startAction", "nextAction", "menuReference", "taskReference"}
Outputs == {"yes", "no", "timeout"}
Transfers == {"menuReference", "taskReference"}
Role(site) ==
  CASE site = "startAction"   -> "entry"
    [] site = "nextAction"    -> "next"
    [] site = "menuReference" -> "transfer-menu"
    [] site = "taskReference" -> "transfer-task"
    [] OTHER                  -> site
Condition(site) == IF site \in Outputs THEN site ELSE Absent
Label(raw, site) == IF site \in Outputs \cup Transfers THEN <<raw.label>> ELSE Absent

\* The walks look at no string of an array, at nothing beside a `config` and at no
\* branch that is not a record.
References(raw) == DOMAIN raw.refs \ raw.buried

FieldEdges(flow, known, p) ==
  LET raw == flow.objects[p.object]
  IN  {[from |-> <<p.object>>, to |-> <<raw.refs[s]>>, role |-> Role(s), condition |-> Condition(s),
        label |-> Label(raw, s), site |-> s] : s \in {t \in References(raw) : raw.refs[t] \in known}}

\* A choice leads from its menu to its action, labelled with digit and name.
ChoiceEdges(flow, p) ==
  LET ch == MenuChoiceList(flow, p.within)[p.index]
  IN  IF p.within # Absent /\ p.pointer[2] = "menuChoiceList"
           /\ HasGuid(flow.objects[p.within])
        THEN {[from |-> <<p.within>>, to |-> <<p.object>>, role |-> "menu-choice", condition |-> Absent,
               label |-> <<ch.digit, ch.name>>, site |-> ch.id]}
        ELSE {}

ExtractEdges(flow, known, p) == ChoiceEdges(flow, p) \cup FieldEdges(flow, known, p)

EdgeWarnings(flow, nodes, known) ==
  UNION {LET raw == flow.objects[p.object]
         IN  {[code |-> "DANGLING_REFERENCE", at |-> Append(p.pointer, s), node |-> <<p.object>>] :
                s \in {t \in References(raw) : Dangling(flow, known, raw.refs[t])}}
             \cup {[code |-> "UNRECOGNISED_REFERENCE_FIELD", at |-> Append(p.pointer, s), node |-> <<p.object>>] :
                s \in {t \in References(raw) \ (Fields \cup Outputs) : raw.refs[t] \in known}} :
         p \in Referable(flow, nodes)}

-----------------------------------------------------------------------------
(* Dependencies, prompts, variables: extract-dependencies.ts, extract-prompts.ts, *)
(* extract-variables.ts                                                        *)

ExtractDependencies(flow, known) ==
  [d \in {e \in DOMAIN flow.manifest : flow.manifest[e].well} |->
     [type |-> flow.manifest[d].type, displayName |-> flow.manifest[d].name,
      resolutionStatus |-> "resolved",
      referencedByNodeIds |-> flow.manifest[d].context \cap known]]

IsPrompt(dependencies, d) == d \in DOMAIN dependencies /\ dependencies[d].type \in PromptTypes

\* The prompts of the manifest that name the node, and those its own values name.
PromptRefs(flow, dependencies, o) ==
  {d \in DOMAIN dependencies :
     /\ IsPrompt(dependencies, d)
     /\ o \in dependencies[d].referencedByNodeIds \/ flow.objects[o].prompt = d}
PromptWarnings(flow, nodes, dependencies) ==
  {[code |-> "DANGLING_REFERENCE", at |-> p.pointer, node |-> <<p.object>>] :
     p \in {q \in Identified(flow, nodes) :
              /\ flow.objects[q.object].prompt # Absent
              /\ ~IsPrompt(dependencies, flow.objects[q.object].prompt)}}

ExtractVariables(flow, owners) ==
  [v \in {w \in DOMAIN flow.variables : flow.variables[w].well} |->
     [name |-> flow.variables[v].name, scope |-> flow.variables[v].scope,
      dataType |-> flow.variables[v].dataType, direction |-> flow.variables[v].direction,
      secure |-> flow.variables[v].secure,
      readNodeIds |-> {o \in owners : Contains(flow.objects[o].operands, v)},
      writeNodeIds |-> {o \in owners : v \in flow.objects[o].writes}]]
DeviationWarnings(flow) ==
  {[code |-> "SCHEMA_DEVIATION", at |-> <<0, "variables", v>>, node |-> Absent] :
     v \in {w \in DOMAIN flow.variables : ~flow.variables[w].well}}
  \cup {[code |-> "SCHEMA_DEVIATION", at |-> <<0, "manifest", d>>, node |-> Absent] :
     d \in {e \in DOMAIN flow.manifest : ~flow.manifest[e].well}}

-----------------------------------------------------------------------------
(* Settings: extract-settings.ts *)

\* Of a variable an expression keeps the data type, not which one it is.
DescribeValueRef(flow, v) == <<"variableRef", flow.variables[v].dataType>>

\* A text beyond the bound keeps its beginning, which may be the same before and after;
\* so may what is left of fields beyond theirs.
Bounded(raw) == IF raw.long THEN 0 ELSE raw.setting

\* The name beside a transfer is a setting as well as the label of its edge.
\* Scalars, arrays of them and expressions, on the object and one level down; what is
\* nested deeper, or in an array of objects, is passed over.
Settings(flow, o) ==
  [expression |-> [i \in DOMAIN flow.objects[o].operands |->
                     DescribeValueRef(flow, flow.objects[o].operands[i])],
   field |-> Bounded(flow.objects[o]),
   named |-> IF Transfers \cap DOMAIN flow.objects[o].refs # {} THEN flow.objects[o].label ELSE Absent]
NoSettings == [expression |-> <<>>, field |-> Absent, named |-> Absent]

SettingsWarnings(flow, nodes) ==
  {[code |-> "TRUNCATED", at |-> p.pointer, node |-> <<p.object>>] :
     p \in {q \in Identified(flow, nodes) : flow.objects[q.object].long}}

-----------------------------------------------------------------------------
(* normalize.ts *)

\* An object without any id of its own has no settings, usages or references.
ToSnapshotNode(flow, dependencies, p) ==
  LET raw == flow.objects[p.object]
      own == raw.identified
      o == p.object
  IN  [name |-> raw.name, sourceType |-> raw.type, supportLevel |-> SupportLevel(raw),
       containerPath |-> IF p.within = Absent THEN <<>> ELSE <<flow.objects[p.within].name>>,
       settings |-> IF own THEN Settings(flow, o) ELSE NoSettings,
       variableReads |-> IF own THEN ToSet(raw.operands) \cup ({raw.prompt} \ {Absent}) ELSE {},
       variableWrites |-> IF own THEN raw.writes ELSE {},
       dependencyRefs |-> IF own
         THEN {d \in DOMAIN dependencies : o \in dependencies[d].referencedByNodeIds} ELSE {},
       promptRefs |-> IF own THEN PromptRefs(flow, dependencies, o) ELSE {}]

\* A container that no edge points into.
EntryNodeIds(flow, nodes, edges) ==
  {NodeId(flow, p) : p \in {q \in nodes :
     q.within = Absent /\ \A e \in edges : e.to # NodeId(flow, q)}}

\* What the content hash of the graph tells apart: the nodes with their evidence
\* (the pointer of each), the operands of an expression in no order, the edges in
\* theirs.
Unordered(seq) == [x \in ToSet(seq) |-> Cardinality({i \in DOMAIN seq : seq[i] = x})]
NormalizedGraph(flow, nodes, known, dependencies) ==
  [nodes |-> {<<NodeId(flow, p), p.pointer,
                [ToSnapshotNode(flow, dependencies, p) EXCEPT !.settings.expression = Unordered(@)]>> :
                p \in nodes},
   edges |-> SelectSeq([i \in DOMAIN Walk(flow) |->
                          IF Walk(flow)[i] \in Referable(flow, nodes)
                            THEN ExtractEdges(flow, known, Walk(flow)[i]) ELSE {}],
                       LAMBDA es : es # {})]

\* `identity` is what the caller says of the flow's name, security and languages.
NormalizeFlow(flow, identity) ==
  LET nodes == ExtractNodes(flow)
      known == Guids(flow, nodes)
      edges == UNION {ExtractEdges(flow, known, p) : p \in Referable(flow, nodes)}
      dependencies == ExtractDependencies(flow, known)
      byId == [n \in {NodeId(flow, p) : p \in nodes} |->
                 CHOOSE p \in nodes : NodeId(flow, p) = n]
  IN  [nodes |-> [n \in DOMAIN byId |-> ToSnapshotNode(flow, dependencies, byId[n])],
       entryNodeIds |-> EntryNodeIds(flow, nodes, edges),
       edges |-> edges,
       variables |-> ExtractVariables(flow, {p.object : p \in Identified(flow, nodes)}),
       dependencies |-> dependencies,
       warnings |-> NodeWarnings(flow, nodes) \cup EdgeWarnings(flow, nodes, known)
                    \cup PromptWarnings(flow, nodes, dependencies) \cup DeviationWarnings(flow)
                    \cup SettingsWarnings(flow, nodes),
       meta |-> identity, version |-> flow.version,
       hash |-> NormalizedGraph(flow, nodes, known, dependencies)]

=============================================================================
