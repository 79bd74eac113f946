-------------------------------- MODULE FlowGraph --------------------------------
(***************************************************************************)
(* analyzeFlow of packages/analysis: reachability, cycles and journeys of  *)
(* a flow's graph, one action for each turn of their loops, and the        *)
(* findings drawn from them.  The edges of a node are taken in the order   *)
(* of their ids.                                                           *)
(***************************************************************************)
EXTENDS Integers, Sequences, SequencesExt, FiniteSets

CONSTANTS
  Nodes,               \* numbers, in the order of the snapshot
  Missing,             \* a node id that no node of the graph has
  Start,               \* the container Architect starts the flow with
  Containers,          \* the nodes that stand for a menu or a task
  SourceTypes(_),      \* the types a node may have
  Labelled(_),         \* whether the edges of a node carry a label
  Depths,              \* the values of the option maxDepth
  MaxJourneys

VARIABLES
  graph,               \* [edges, type, maxDepth]: what is analysed, and the option
  phase,
  visited, queue,      \* analyzeReachability
  indices, lowlink, work, tarjan, components,     \* findCycles
  stack, journeys,     \* extractJourneys
  findings

reach == <<visited, queue>>
cycles == <<indices, lowlink, work, tarjan, components>>
walk == <<stack, journeys>>

\* A target that is not a node is set aside before any walk.
Targets(n) == {t \in Nodes : <<n, t>> \in graph.edges}
\* The nodes of a set in the order of the snapshot.
InOrder(ns) == [i \in 1..Cardinality(ns) |-> CHOOSE n \in ns : Cardinality({m \in ns : m < n}) = i - 1]
Outgoing(n) == InOrder(Targets(n))

\* computeEntryNodeIds: a container that no edge points into, whatever the flow starts
\* with.
EntryNodeIds == {c \in Containers : \A e \in graph.edges : e[2] # c}

Init ==
  /\ \E edges \in SUBSET (Nodes \X Nodes), lost \in SUBSET {<<Start, Missing>>} :
       graph \in [edges : {edges \cup lost}, maxDepth : Depths,
                  type : {f \in [Nodes -> UNION {SourceTypes(n) : n \in Nodes}] :
                            \A n \in Nodes : f[n] \in SourceTypes(n)}]
  /\ phase = "reach"
  /\ visited = EntryNodeIds /\ queue = InOrder(EntryNodeIds)
  /\ indices = [n \in {} |-> 0] /\ lowlink = indices
  /\ work = <<>> /\ tarjan = <<>> /\ components = {}
  /\ stack = <<>> /\ journeys = {} /\ findings = {}

-----------------------------------------------------------------------------
(* reachability.ts *)

Reach ==
  /\ phase = "reach" /\ queue # <<>>
  /\ visited' = visited \cup Targets(Head(queue))
  /\ queue' = Tail(queue) \o SetToSeq(Targets(Head(queue)) \ visited)
  /\ UNCHANGED <<phase, cycles, walk, findings>>
ReachEnds ==
  /\ phase = "reach" /\ queue = <<>> /\ phase' = "cycles"
  /\ UNCHANGED <<reach, cycles, walk, findings>>

-----------------------------------------------------------------------------
(* cycles.ts: Tarjan's algorithm over an explicit work stack *)

Top == Last(work)
Neighbour == Outgoing(Top.node)[Top.next]
Frame(n) == [node |-> n, next |-> 1]
Advanced == [work EXCEPT ![Len(work)].next = @ + 1]

Discover(n, frames) ==
  LET i == Cardinality(DOMAIN indices)
      with(f) == [m \in DOMAIN f \cup {n} |-> IF m = n THEN i ELSE f[m]]
  IN  /\ indices' = with(indices) /\ lowlink' = with(lowlink)
      /\ tarjan' = Append(tarjan, n) /\ work' = Append(frames, Frame(n))
Lowered(n, low) == [lowlink EXCEPT ![n] = IF low < @ THEN low ELSE @]

Root ==
  /\ phase = "cycles" /\ work = <<>> /\ DOMAIN indices # Nodes
  /\ Discover(CHOOSE n \in Nodes \ DOMAIN indices : \A m \in Nodes \ DOMAIN indices : n <= m, <<>>)
  /\ UNCHANGED <<phase, reach, components, walk, findings>>
Descend ==
  /\ phase = "cycles" /\ work # <<>> /\ Top.next <= Len(Outgoing(Top.node))
  /\ Neighbour \notin DOMAIN indices
  /\ Discover(Neighbour, Advanced)
  /\ UNCHANGED <<phase, reach, components, walk, findings>>

\* Mutant: an edge into a component that is already closed lowers the link, too.
OnStack_Any(n) == TRUE
OnStack(n) == Contains(tarjan, n)
Seen ==
  /\ phase = "cycles" /\ work # <<>> /\ Top.next <= Len(Outgoing(Top.node))
  /\ Neighbour \in DOMAIN indices
  /\ work' = Advanced
  /\ lowlink' = IF OnStack(Neighbour) THEN Lowered(Top.node, indices[Neighbour]) ELSE lowlink
  /\ UNCHANGED <<phase, reach, indices, tarjan, components, walk, findings>>

\* The frame is done: its link goes to the parent, and a node that is the root of its
\* component takes the component off the stack.
Return ==
  /\ phase = "cycles" /\ work # <<>> /\ Top.next > Len(Outgoing(Top.node))
  /\ LET n == Top.node
         at == CHOOSE i \in 1..Len(tarjan) : tarjan[i] = n
         root == lowlink[n] = indices[n]
     IN  /\ work' = Front(work)
         /\ lowlink' = IF Len(work) > 1 THEN Lowered(work[Len(work) - 1].node, lowlink[n]) ELSE lowlink
         /\ tarjan' = IF root THEN SubSeq(tarjan, 1, at - 1) ELSE tarjan
         /\ components' = IF root THEN components \cup {ToSet(SubSeq(tarjan, at, Len(tarjan)))}
                          ELSE components
  /\ UNCHANGED <<phase, reach, indices, walk, findings>>
CyclesEnd ==
  /\ phase = "cycles" /\ work = <<>> /\ DOMAIN indices = Nodes
  /\ phase' = "journeys"
  /\ stack' = Reverse([i \in 1..Cardinality(EntryNodeIds) |-> <<InOrder(EntryNodeIds)[i]>>])
  /\ UNCHANGED <<reach, cycles, journeys, findings>>

\* A component of one node counts when the node leads to itself.
StronglyConnectedComponents ==
  {c \in components : Cardinality(c) > 1 \/ \E n \in c : <<n, n>> \in graph.edges}

-----------------------------------------------------------------------------
(* journeys.ts: a depth-first walk whose frames are simple paths *)

Intra == {"TransferMenuAction", "TransferTaskAction", "CallTaskAction"}
Transfers == Intra \cup {"TransferPureMatchAction"}     \* the name has "Transfer" or is of Intra

\* Mutant: whatever has Transfer in its name leaves the flow.
IsTransferNode_ByName(type) == type \in Transfers
IsTransferNode(type) == type \in Transfers \ Intra
IsDisconnectNode(type) == type = "DisconnectAction"

\* journeyId; the code keeps a list, which holds a journey twice when two edges join the
\* same nodes.
Journey(path, detail, kind) == [steps |-> path, detail |-> detail, terminalKind |-> kind]
Full(js) == Cardinality(js) >= MaxJourneys

\* The kind of journey that ends with the path, "none" when it goes on.
Terminal(path) ==
  LET n == Last(path)
  IN  IF IsTransferNode(graph.type[n]) THEN "transfer"
      ELSE IF IsDisconnectNode(graph.type[n]) THEN "disconnect"
      ELSE IF Len(path) - 1 >= graph.maxDepth THEN "truncated"
      ELSE IF Targets(n) = {} THEN "dead-end" ELSE "none"

Finish ==
  /\ phase = "journeys" /\ stack # <<>> /\ ~Full(journeys)
  /\ Terminal(Last(stack)) # "none"
  /\ journeys' = journeys \cup {Journey(Last(stack), Missing, Terminal(Last(stack)))}
  /\ stack' = Front(stack)
  /\ UNCHANGED <<phase, reach, cycles, findings>>

\* The edges last first: one back into the path is a journey of its own, and when
\* that reaches the limit the edges before it are not looked at.
Extend ==
  /\ phase = "journeys" /\ stack # <<>> /\ ~Full(journeys)
  /\ Terminal(Last(stack)) = "none"
  /\ LET path == Last(stack)
         out == Reverse(Outgoing(Last(path)))
         back(i) == Contains(path, out[i])
         loops(k) == {Journey(path, out[i], "loop") : i \in {j \in 1..k : back(j)}}
         taken == {k \in DOMAIN out : ~Full(journeys \cup loops(k - 1))}
     IN  /\ journeys' = journeys \cup loops(Cardinality(taken))
         /\ stack' = Front(stack) \o FlattenSeq([i \in taken |-> IF back(i) THEN <<>> ELSE <<Append(path, out[i])>>])
  /\ UNCHANGED <<phase, reach, cycles, findings>>

-----------------------------------------------------------------------------
(* findings.ts *)

TerminalNodes == {n \in Nodes : Targets(n) = {}}
IsDesignedTerminal(type) == IsDisconnectNode(type) \/ IsTransferNode(type)
BuildFindings ==
  {<<"NODE_UNREACHABLE", {n}>> : n \in Nodes \ visited}
  \cup {<<"EDGE_DANGLING", {e[1]}>> : e \in {x \in graph.edges : x[2] \notin Nodes}}
  \cup {<<"BRANCH_TERMINATES_NOWHERE", {e[2]}>> :
          e \in {x \in graph.edges : Labelled(x[1]) /\ x[2] \in TerminalNodes
                                     /\ ~IsDesignedTerminal(graph.type[x[2]])}}
  \cup {<<"CYCLE_PRESENT", c>> : c \in StronglyConnectedComponents}

AnalyzeFlow ==
  /\ phase = "journeys" /\ (stack = <<>> \/ Full(journeys))
  /\ phase' = "done" /\ findings' = BuildFindings
  /\ UNCHANGED <<reach, cycles, walk>>

Next ==
  /\ UNCHANGED graph
  /\ \/ Reach \/ ReachEnds \/ Root \/ Descend \/ Seen \/ Return \/ CyclesEnd \/ Finish \/ Extend
     \/ AnalyzeFlow


-----------------------------------------------------------------------------
(* Properties *)

\* What is led to from the nodes of s, by the edges that do not leave the nodes of x.
From(s, x) ==
  {m \in Nodes : \A c \in SUBSET Nodes :
     s \subseteq c /\ (\A n \in c \ x : Targets(n) \subseteq c) => m \in c}

\* The walks find what they are for: what is reachable from the entries, and the classes
\* of nodes that lead to each other.
AnalysisIsExact ==
  phase = "done" =>
    /\ visited = From(EntryNodeIds, {})
    /\ components = {{m \in From({n}, {}) : n \in From({m}, {})} : n \in Nodes}

Exits == {n \in Nodes : graph.type[n] \in {"TransferPureMatchAction", "DisconnectAction"}}
Honest(j) ==
  LET last == Last(j.steps)
  IN  /\ Head(j.steps) \in EntryNodeIds /\ IsInjective(j.steps)
      /\ \A i \in 1..Len(j.steps) - 1 : j.steps[i] \notin Exits /\ j.steps[i + 1] \in Targets(j.steps[i])
      /\ CASE j.terminalKind = "loop" -> j.detail \in Targets(last) /\ Contains(j.steps, j.detail)
           [] j.terminalKind = "dead-end"  -> Targets(last) = {} /\ last \notin Exits
           [] j.terminalKind = "truncated" -> Len(j.steps) > graph.maxDepth /\ last \notin Exits
           [] OTHER -> last \in Exits

\* A journey is a way a call can go: from an entry, along edges, through no node twice
\* and past no hand-off, and its last node is what its kind says.  Unless a limit cut the
\* walk short, every node a call can get to without being handed off is on one.
JourneysAreHonest ==
  phase = "done" =>
    /\ \A j \in journeys : Honest(j)
    /\ ~Full(journeys) /\ (\A j \in journeys : j.terminalKind # "truncated")
         => UNION {ToSet(j.steps) : j \in journeys} = From(EntryNodeIds, Exits)

=============================================================================
