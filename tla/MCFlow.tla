---------------------------------- MODULE MCFlow ----------------------------------
(***************************************************************************)
(* A flow that its authors edit between two versions: what the snapshot of *)
(* each has of it, and what genesys_flow_diff answers about the two.       *)
(* Beside it, the analysis of every small graph; a behaviour is of one of  *)
(* the two.                                                                *)
(***************************************************************************)
EXTENDS Integers, Sequences, SequencesExt, FiniteSets, TLC

CONSTANTS Absent, Gone, MaxEdits, MaxListItems, Nodes, Missing, Start, Depths, MaxJourneys

VARIABLES
  flow,          \* the configuration in Architect
  captured,      \* the configuration of the earlier version
  report,        \* what the diff of the two said
  edits,
  subject, graph, phase, visited, queue, indices, lowlink, work, tarjan, components, stack,
  journeys, findings

diff == <<flow, captured, report, edits>>
analysis == <<graph, phase, visited, queue, indices, lowlink, work, tarjan, components, stack,
              journeys, findings>>

\* A start menu with two choices and the task one of them leads to, which decides
\* and may lead back.
Known == {"Menu", "Task", "TransferTaskAction", "DisconnectAction", "DecisionAction", "PlayAudioAction"}
Sites(o) ==
  CASE o = "menu"   -> {"nextAction"}
    [] o = "task"   -> {"startAction"}
    [] o = "first"  -> {"taskReference"}
    [] o = "decide" -> {"yes", "no"}
    [] o = "play"   -> {"nextAction", "menuReference", "retryTarget"}
    [] OTHER        -> {}
Base == [menu |-> "Menu", task |-> "Task", first |-> "TransferTaskAction",
         second |-> "DisconnectAction", decide |-> "DecisionAction", play |-> "PlayAudioAction",
         spare |-> "ImprovedAction"]
Points == [first |-> "task", task |-> "decide", decide |-> "play", menu |-> Absent, play |-> Absent]
Targets(o) == {Absent, Gone, "queue"} \cup
  (CASE o = "decide" -> {"play", "second"} [] o = "play" -> {"menu", "decide"}
     [] OTHER -> {"task", "decide"})

Object(o, anonymous) ==
  [well |-> TRUE, identified |-> o \notin anonymous, name |-> 1, type |-> Base[o],
   refs |-> [s \in Sites(o) |-> IF s \in {"no", "menuReference", "retryTarget"} THEN Absent ELSE Points[o]],
   operands |-> IF o = "decide" THEN <<"tries", "limit">> ELSE <<>>,
   prompt |-> IF o = "play" THEN "hello" ELSE Absent, writes |-> {}, setting |-> 1, long |-> FALSE,
   guid |-> TRUE, buried |-> {}, label |-> 1, deep |-> 1]
Variable == [well |-> TRUE, name |-> 1, scope |-> "flow", dataType |-> 1, direction |-> 1, secure |-> FALSE]
Dependency(type) == [well |-> TRUE, type |-> type, name |-> 1, context |-> {}]

Flow(anonymous, unknown) ==
  [start |-> "menu", order |-> <<"menu", "task">>,
   actions |-> [menu |-> <<>>, task |-> <<"decide", "play">> \o unknown],
   choices |-> [menu |-> <<[id |-> "c1", digit |-> 1, name |-> 3, action |-> "first"],
                           [id |-> "c2", digit |-> 2, name |-> 4, action |-> "second"]>>,
                task |-> <<>>],
   objects |-> [o \in DOMAIN Base |-> Object(o, anonymous)],
   variables |-> [v \in {"tries", "limit"} |-> Variable],
   manifest |-> [queue |-> Dependency("queue"), hello |-> Dependency("userPrompt")],
   meta |-> [name |-> 1, secure |-> 1, languages |-> 1], version |-> 1, shapeless |-> {}]

A == INSTANCE FlowSource WITH SitesOf <- Sites, TargetsOf <- Targets, Spare <- "spare"
N == INSTANCE Normalize WITH KnownTypes <- Known, PromptTypes <- {"userPrompt", "systemPrompt"}
NormalizedAs(f, identity) == N!NormalizeFlow(f, identity)
D == INSTANCE DiffFlow WITH CoverageCodes <- {"UNSUPPORTED_NODE_TYPE"}, AuthTypes <- {"oauthClient"},
                            NormalizeFlow <- NormalizedAs

\* A menu, a task, and an action that jumps, hands over or hangs up.
TypesOf(n) ==
  CASE n = Start -> {"Menu"} [] n = 2 -> {"Task"}
    [] OTHER -> {"TransferTaskAction", "TransferPureMatchAction", "DisconnectAction"}
FromMenu(n) == n = Start
G == INSTANCE FlowGraph WITH Containers <- {Start, 2}, SourceTypes <- TypesOf, Labelled <- FromMenu

ASSUME FlowAssumption == Nodes \subseteq Nat /\ IsFiniteSet(Nodes) /\ {Start, 2} \subseteq Nodes
                         /\ Missing \in Nat \ Nodes /\ Depths \subseteq Nat \ {0} /\ MaxJourneys \in Nat \ {0}
                         /\ Absent \notin {"from", "to", "tries", "limit"}
                         /\ Gone \notin {"tries", "limit"} /\ MaxListItems \in Nat /\ MaxListItems > 1

\* Nothing is analysed: the walk over no graph at all.
NoGraph ==
  /\ graph = [edges |-> {}, maxDepth |-> 1, type |-> <<>>] /\ phase = "reach"
  /\ visited = {} /\ queue = <<>> /\ indices = <<>> /\ lowlink = <<>> /\ work = <<>>
  /\ tarjan = <<>> /\ components = {} /\ stack = <<>> /\ journeys = {} /\ findings = {}

FlowInit ==
  /\ flow \in {Flow({}, <<>>), Flow({"play"}, <<>>), Flow({}, <<"spare">>)}
  /\ subject # "diff" => flow = Flow({}, <<>>)
  /\ captured = flow
  /\ report = Absent /\ edits = IF flow = Flow({}, <<>>) THEN 0 ELSE 1
  /\ IF subject = "graph" THEN G!Init ELSE NoGraph

Edit(edited) ==
  /\ edits < MaxEdits /\ report = Absent
  /\ edited /\ edits' = edits + 1
  /\ UNCHANGED <<captured, report>>

DiffNext ==
  \/ \E o \in A!Objects : Edit(A!ObjectEdited(o))
  \/ Edit(A!FlowEdited)
  \/ D!Compare /\ UNCHANGED edits

FlowNext ==
  /\ UNCHANGED subject
  /\ \/ subject = "diff"  /\ DiffNext /\ UNCHANGED analysis
     \/ subject = "graph" /\ G!Next /\ UNCHANGED diff

FlowSpec == FlowInit /\ [][FlowNext]_<<subject, diff, analysis>>

Compared == report # Absent /\ report.failed = Absent

-----------------------------------------------------------------------------
(* Properties *)

Warned(code, at) == \E w \in report.after.warnings : w.code = code /\ w.at = at
Represented(f, p) ==
  LET raw == f.objects[p.object]
  IN  IF ~raw.well THEN Warned("SCHEMA_DEVIATION", p.pointer)
      ELSE /\ N!NodeId(f, p) \in DOMAIN report.after.nodes
           /\ raw.identified /\ raw.long => Warned("TRUNCATED", p.pointer)
           /\ N!HasGuid(raw) =>
                \A s \in N!References(raw) :
                  \/ raw.refs[s] = Absent
                  \/ raw.refs[s] \in DOMAIN report.after.dependencies
                  \/ \E e \in report.after.edges :
                       e.from = <<p.object>> /\ e.to = <<raw.refs[s]>> /\ e.site = s
                  \/ Warned("DANGLING_REFERENCE", Append(p.pointer, s))

\* Nothing the walks meet is lost without a trace: every place of an array where an
\* object is expected is a node or a SCHEMA_DEVIATION, every reference in a form they
\* know of an object with a GUID is an edge, a resource of the manifest or a
\* DANGLING_REFERENCE, every edge joins two nodes, and a text that is cut is TRUNCATED
\* (extract-nodes.ts, extract-edges.ts).  It is not every GUID of the source, as
\* extract-edges.ts says: what is in an array, beside a `config`, in a branch that is no
\* record, or of an object that has a tracking id alone is dropped without a warning,
\* and so is a list that is no array.
EverythingRepresented ==
  Compared =>
    /\ \A e \in report.after.edges : {e.from, e.to} \subseteq DOMAIN report.after.nodes
    /\ \A p \in {q \in ToSet(N!Walk(flow)) : N!Reached(flow, q)} : Represented(flow, p)

\* What an identified object does at run time, as far as a snapshot has it: its type, its
\* settings and variables and where it leads.  A text beyond the bound, a value nested
\* deeper than the settings look, a reference the walks pass over, the flow's own name
\* and security, the digit of a choice and which of two variables of one type an
\* expression reads are not part of it, and the diff of such a change is empty.
Live(f) == {p \in N!ExtractNodes(f) : f.objects[p.object].identified}
Behaviour(f) ==
  {LET raw == f.objects[p.object]
   IN  [object |-> p.object, type |-> raw.type, setting |-> IF raw.long THEN 0 ELSE raw.setting,
        leads |-> {<<s, raw.refs[s]>> : s \in {t \in N!References(raw) :
                     N!HasGuid(raw) /\ \E q \in N!Referable(f, N!ExtractNodes(f)) : q.object = raw.refs[t]}},
        writes |-> raw.writes, reads |-> ToSet(raw.operands), plays |-> raw.prompt] : p \in Live(f)}

Said == ToSet(report.answer.materialJourneyChanges)

\* A change of what the snapshots say the flow does is answered with an error, with a change that is
\* neither cosmetic nor a matter of documentation, or with the number of changes that
\* were cut: never as if nothing had changed (diff-flow.ts, change-classification.ts).
BehaviourIsReviewed ==
  Compared /\ Behaviour(captured) # Behaviour(flow) =>
    \E line \in Said : \/ line[1] = "omitted"
                       \/ line[1] = "change" /\ line[3] \notin {"cosmetic", "documentation-only"}

Unknown(f) == {p.object : p \in {q \in Live(f) : f.objects[q.object].type \notin Known}}

\* An object that is understood less than before, or the first that is not understood
\* at all, blocks the approval of the change, and the answer says so however many
\* changes it leaves out (diff.ts, diff-flow.ts).
CoverageRegressionBlocks ==
  Compared /\ (\/ \E o \in Unknown(flow) : \E p \in Live(captured) :
                    p.object = o /\ o \notin Unknown(captured)
               \/ Unknown(flow) # {} /\ \A w \in report.before.warnings : w.code # "UNSUPPORTED_NODE_TYPE")
    => <<"BLOCKED">> \in Said

\* The two configurations differ in the order of lists only.
Reordering(f, g) ==
  /\ [f EXCEPT !.order = <<>>, !.actions = <<>>, !.choices = <<>>]
       = [g EXCEPT !.order = <<>>, !.actions = <<>>, !.choices = <<>>]
  /\ ToSet(f.order) = ToSet(g.order)
  /\ \A c \in DOMAIN f.actions : /\ ToSet(f.actions[c]) = ToSet(g.actions[c])
                                 /\ ToSet(f.choices[c]) = ToSet(g.choices[c])

\* Moving objects within their list is not a change of the flow: the answer is its
\* note on the basis alone (derive-node-id.ts, diff.ts).
MovementIsNoChange ==
  Compared /\ Reordering(captured, flow) /\ (\A p \in N!ExtractNodes(flow) : flow.objects[p.object].identified)
    => LET basis == report.answer.materialJourneyChanges[1]
       IN  Said = {basis} /\ (basis[4] <=> captured # flow)

\* What the walks find is what is there.
AnalysisIsExact == G!AnalysisIsExact
\* A journey is a way a call can go, and none is left out unless it is said.
JourneysAreHonest == G!JourneysAreHonest

=============================================================================
