----------------------------- MODULE ResourceWalk -----------------------------
(***************************************************************************)
(* buildResourceGraph of packages/capture/src/resource-graph.ts: the walk  *)
(* of the references that the captured flows' definitions lead to.         *)
(*                                                                         *)
(* A reference is its key.  Each turn of the code's loop is a level: the   *)
(* references not yet visited are filtered into a batch, the batch is cut  *)
(* to what is left of the budget, and its members are resolved one after   *)
(* the other.  A key may stand twice in a batch; it is then asked for, and *)
(* counted, twice.  Edges are kept as a set.                               *)
(***************************************************************************)
EXTENDS Integers, Sequences

CONSTANTS
  Keys,      \* the resources of the organization and the references that lead nowhere
  Refs,      \* the references each resource holds, in their order
  Readable   \* the keys that resolve

ASSUME WalkAssumption == Refs \in [Keys -> Seq(Keys)] /\ Readable \subseteq Keys

VARIABLE walk

Elems(s) == {s[i] : i \in DOMAIN s}

Walks ==
  [stage : {"filter", "resolve", "done"}, seeds : Seq(Keys), worklist : Seq(Keys), batch : Seq(Keys),
   nodes : SUBSET Keys, edges : SUBSET (Keys \X Keys),
   requests : Nat, budget : Nat, last : BOOLEAN, truncated : BOOLEAN]

\* The walk before its first turn; "last" is budgetExhausted.
WalkFrom(seeds, budget) ==
  [stage |-> "filter", seeds |-> seeds, worklist |-> seeds, batch |-> <<>>, nodes |-> {}, edges |-> {},
   requests |-> 0, budget |-> budget, last |-> FALSE, truncated |-> FALSE]

\* Without seeds the context capture does not walk at all.
NoWalk == [WalkFrom(<<>>, 0) EXCEPT !.stage = "done"]

\* worklist.filter((ref) => !nodes.has(keyOf(ref)))
Filter ==
  /\ walk.stage = "filter" /\ walk.worklist # <<>>
  /\ LET key == Head(walk.worklist)
     IN  walk' = [walk EXCEPT !.worklist = Tail(@),
                              !.batch = IF key \in walk.nodes THEN @ ELSE Append(@, key)]

\* Mutant: the cut batch is taken for the whole of it.
Cut_Silent ==
  /\ walk.stage = "filter" /\ walk.worklist = <<>>
  /\ LET left == walk.budget - walk.requests
         over == Len(walk.batch) > left
         batch == IF over THEN SubSeq(walk.batch, 1, left) ELSE walk.batch
     IN  walk' = [walk EXCEPT !.stage = IF batch = <<>> THEN "done" ELSE "resolve",
                              !.batch = batch, !.requests = @ + Len(batch), !.last = over]

\* The batch is complete: nothing left ends the walk, and so does a budget that
\* allows none of it.  The rest of a batch that is cut is not asked for.
Cut ==
  /\ walk.stage = "filter" /\ walk.worklist = <<>>
  /\ LET left == walk.budget - walk.requests
         over == Len(walk.batch) > left
         batch == IF over THEN SubSeq(walk.batch, 1, left) ELSE walk.batch
     IN  walk' = [walk EXCEPT !.stage = IF batch = <<>> THEN "done" ELSE "resolve",
                              !.batch = batch, !.requests = @ + Len(batch),
                              !.last = over, !.truncated = @ \/ over]

\* One resolution: a node, whatever its status, and if it could be read its
\* outward references as edges and as work for the next turn.
Resolve ==
  /\ walk.stage = "resolve" /\ walk.batch # <<>>
  /\ LET key == Head(walk.batch)
         outward == IF key \in Readable THEN Refs[key] ELSE <<>>
     IN  walk' = [walk EXCEPT !.batch = Tail(@), !.nodes = @ \cup {key},
                              !.edges = @ \cup ({key} \X Elems(outward)),
                              !.worklist = @ \o outward]

\* The end of a turn.
Turn ==
  /\ walk.stage = "resolve" /\ walk.batch = <<>>
  /\ walk' = [walk EXCEPT !.stage = IF walk.last \/ walk.worklist = <<>> THEN "done" ELSE "filter"]

WalkNext == Filter \/ Cut \/ Resolve \/ Turn

-----------------------------------------------------------------------------
(* The walk by itself, from any seeds and with any budget. *)

WalkInit == \E seeds \in Seq(Keys), budget \in Nat : walk = WalkFrom(seeds, budget)

WalkSpec == WalkInit /\ [][WalkNext]_walk

\* A walk that ends without saying it was truncated has resolved every seed and
\* everything the nodes it could read refer to ("closure is the entire promise
\* of this walker"), and no request exceeds the budget.
ClosedUnlessTruncated ==
  /\ walk.requests <= walk.budget
  /\ walk.stage = "done" /\ ~walk.truncated =>
       /\ Elems(walk.seeds) \subseteq walk.nodes
       /\ \A key \in walk.nodes \cap Readable : Elems(Refs[key]) \subseteq walk.nodes

=============================================================================
