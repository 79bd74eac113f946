--------------------------- MODULE IncrementalUpdate ---------------------------
(***************************************************************************)
(* runIncrementalCapture of packages/composition/src/change-detection-io.ts *)
(* beside full captures (runCapture) of the same root, while the           *)
(* organization is being edited.                                           *)
(*                                                                         *)
(* What a bundle has of a flow is [version, content, published, division]: *)
(* the version its definition is filed under, the one whose definition it  *)
(* really is, and what flow.json records, where "published" 0 and division *)
(* "none" stand for null and for a field that is not there.  A definition  *)
(* refers to one resource, the pair of its flow and content.               *)
(***************************************************************************)
EXTENDS ChangeDetection, Sequences

CONSTANTS
  Runs,        \* the incremental runs, by runId
  Flows,
  Unpublished, \* those that start as drafts
  Scopes,      \* what a run may be asked for: everything, some flow types, some ids
  MaxVersion, MaxEdits, MaxFulls, MaxFaults    \* bounds

ASSUME IncrementalAssumption ==
  /\ Scopes \subseteq SUBSET Flows /\ Unpublished \subseteq Flows
  /\ {MaxVersion, MaxEdits, MaxFulls, MaxFaults} \subseteq Nat
  /\ Unset \notin Nat          \* null is no version number
  /\ "full" \notin Runs        \* a full capture is told from the incremental runs

VARIABLES
  org,      \* per flow: its latest version (0: no such flow), the published one, its division
  bundle,   \* <root>/bundle
  lock,     \* who holds the "capture" lock
  pc, mem,  \* per run: the next step, and what its process knows
  full,     \* the listing of the full capture that is running, if one is
  edits, fulls, faults

vars == <<org, bundle, lock, pc, mem, full, edits, fulls, faults>>
bounds == <<edits, fulls, faults>>

Divisions == {"none", "d"}
Absent == [latest |-> 0, published |-> 0, division |-> "none"]
NoBundle ==
  [mode |-> "none", flows |-> <<>>, nodes |-> {}, gap |-> FALSE, turn |-> 0]
Fresh ==
  [scope |-> Flows, turn |-> 0, hasPrevious |-> FALSE, capture |-> {},
   found |-> <<>>, previous |-> <<>>, flows |-> <<>>, nodes |-> {},
   draft |-> <<>>, unread |-> {}, completed |-> {}, skipped |-> {}, failed |-> {}, gap |-> FALSE]

Ended == {"idle", "completed", "completed_with_warnings", "failed", "dead"}
InTry == {"connect", "plan", "carry", "fetch", "walk", "promote", "save"}

Init ==
  /\ org = [f \in Flows |-> [latest |-> 1, division |-> "d",
                             published |-> IF f \in Unpublished THEN 0 ELSE 1]]
  /\ bundle = NoBundle
  /\ lock = {} /\ full = Unset
  /\ pc = [r \in Runs |-> "idle"] /\ mem = [r \in Runs |-> Fresh]
  /\ edits = 0 /\ fulls = 0 /\ faults = 0

At(r, step) == pc[r] = step
Goto(r, step) == pc' = [pc EXCEPT ![r] = step]
Remember(r, m) == mem' = [mem EXCEPT ![r] = m]
\* The call returns: its variables are gone and "finally" has released the lock.
End(r, how) == Goto(r, how) /\ Remember(r, Fresh) /\ lock' = lock \ {r}
Fault == faults < MaxFaults /\ faults' = faults + 1

-----------------------------------------------------------------------------
(* The organization, and full captures of the same root *)

Edit(f) ==
  /\ edits < MaxEdits /\ edits' = edits + 1
  /\ LET o == org[f]
     IN  /\ o.latest # 0
         /\ \/ o.latest < MaxVersion /\ org' = [org EXCEPT ![f].latest = @ + 1]
            \/ o.published # o.latest /\ org' = [org EXCEPT ![f].published = o.latest]
            \/ org' = [org EXCEPT ![f].division = "none"] /\ o.division # "none"
            \/ org' = [org EXCEPT ![f] = Absent]
  /\ UNCHANGED <<bundle, lock, pc, mem, full, fulls, faults>>

Exists(f) == org[f].latest # 0

\* loadFlowSource with versionId null, as [version, content, published, division].  A
\* flow with a published version: that one, under its own number.
OfPublished(f) ==
  [version |-> org[f].published, content |-> org[f].published, draft |-> FALSE,
   published |-> 0, division |-> "none"]
\* One without: the definition that was the latest, under the number that is the latest
\* when the versions are listed, one request later.  "draft" is history.
OfDraft(f, content) ==
  [version |-> org[f].latest, content |-> content, draft |-> TRUE,
   published |-> 0, division |-> "none"]

FullBegin ==
  /\ lock = {} /\ fulls < MaxFulls
  /\ fulls' = fulls + 1 /\ lock' = {"full"}
  /\ full' = [f \in {g \in Flows : Exists(g)} |-> org[f]]
  /\ UNCHANGED <<org, bundle, pc, mem, edits, faults>>

\* What the source may have returned of a flow since the listing.
Returned(f) ==
  (IF org[f].published # 0 THEN {OfPublished(f)} ELSE {})
    \cup (IF full[f].published = 0
            THEN {OfDraft(f, content) : content \in full[f].latest..org[f].latest} ELSE {})

\* flow.json takes the division and the published version from the listing, the
\* definition is what the source returned.  A full capture here reads the references of
\* all its flows; CaptureRun has the ones that do not.
FullPromote ==
  /\ full # Unset
  /\ LET got == {f \in DOMAIN full : Exists(f)}
     IN  \E mode \in {"context", "migration"},
            source \in [got -> UNION {Returned(f) : f \in got}] :
           /\ \A f \in got : source[f] \in Returned(f)
           /\ bundle' = [mode |-> mode,
                         flows |-> [f \in got |-> [source[f] EXCEPT !.published = full[f].published,
                                                                   !.division = full[f].division]],
                         nodes |-> {<<f, source[f].content>> : f \in got},
                         gap |-> FALSE, turn |-> bundle.turn + 1]
  /\ full' = Unset /\ lock' = {}
  /\ UNCHANGED <<org, pc, mem, bounds>>

-----------------------------------------------------------------------------
(* Before the lock *)

\* A bundle.turn is the history of which bundle the run looked at, and "unread" of the
\* flows of it that it could not see.
Saw(r, hasPrevious, unread) ==
  /\ Goto(r, "lock")
  /\ \E s \in Scopes :
       Remember(r, [Fresh EXCEPT !.scope = s, !.turn = bundle.turn,
                                 !.hasPrevious = hasPrevious, !.unread = unread])

\* bundleFlowsExist and readPreviousPolicyMode, before the lock is asked for.  A manifest
\* that cannot be read is that of no migration, a directory that cannot be listed is none.
Look(r) ==
  /\ At(r, "idle")
  /\ \/ bundle.mode = "migration" /\ Goto(r, "failed") /\ UNCHANGED <<mem, faults>>
     \/ bundle.mode # "migration" /\ Saw(r, bundle.mode # "none", {}) /\ UNCHANGED faults
     \/ bundle.mode = "migration" /\ Fault /\ Saw(r, TRUE, {})
     \/ bundle.mode # "none" /\ Fault /\ Saw(r, FALSE, DOMAIN bundle.flows)
  /\ UNCHANGED <<org, bundle, lock, full, edits, fulls>>

Lock(r) ==
  /\ At(r, "lock")
  /\ IF lock = {} THEN lock' = {r} /\ Goto(r, "connect") /\ UNCHANGED mem
                  ELSE End(r, "failed")      \* OUTPUT_LOCKED
  /\ UNCHANGED <<org, bundle, full, bounds>>

\* validateConnection and the tenant guard.
Connect(r) ==
  /\ At(r, "connect")
  /\ \/ Goto(r, "plan") /\ UNCHANGED <<mem, lock>>
     \/ End(r, "failed")
  /\ UNCHANGED <<org, bundle, full, bounds>>

-----------------------------------------------------------------------------
(* computePlanAndPrevious *)

\* toPreviousFlowManifestEntry: publishedVersion ?? versionId
EntryOf(e) ==
  [NoEntry EXCEPT !.version = IF e.published # 0 THEN e.published ELSE e.version,
                  !.division = e.division]
\* What discovery lists of a flow.
DescriptorOf(o) ==
  [published |-> IF o.published # 0 THEN o.published ELSE Unset, division |-> o.division,
   name |-> Unset, type |-> Unset]

\* readPreviousBundleFlows: what flow.json and the definition of each flow record.  A
\* flow whose files cannot be read is not there.
ReadPreviousFlows(r, unread) ==
  IF mem[r].hasPrevious THEN [f \in DOMAIN bundle.flows \ unread |-> bundle.flows[f]] ELSE <<>>

\* listFlows, and a decision for each flow listed.  What becomes of the others of
\* the previous bundle (retired, inaccessible, out of scope) is a word in the
\* report: all of them are carried forward.
Plan(r) ==
  /\ At(r, "plan")
  /\ \E unread \in SUBSET DOMAIN bundle.flows :
       LET previous == ReadPreviousFlows(r, unread)
           found == {f \in mem[r].scope : Exists(f)}
           ActionOf(f) ==
             DecideFlowAction("found",
               IF f \in DOMAIN previous THEN EntryOf(previous[f]) ELSE NoEntry,
               DescriptorOf(org[f]), Unset, FALSE).action
       IN  /\ IF unread = {} THEN UNCHANGED faults ELSE Fault
           /\ Remember(r, [mem[r] EXCEPT
                !.previous = previous,
                !.unread = @ \cup unread,
                !.found = [f \in found |-> org[f]],
                !.capture = {f \in found : ActionOf(f) \notin {"skip-unchanged", "metadata-only"}}])
  /\ Goto(r, "carry")
  /\ UNCHANGED <<org, bundle, lock, full, edits, fulls>>

-----------------------------------------------------------------------------
(* Filling the staging directory *)

\* Mutant: what is not listed any more is left out.
CarryForward_Listed(r) ==
  /\ At(r, "carry")
  /\ LET carried == (DOMAIN mem[r].previous \ mem[r].capture) \cap DOMAIN mem[r].found
     IN  Remember(r, [mem[r] EXCEPT
           !.skipped = carried,
           !.flows = [f \in carried |-> [mem[r].previous[f] EXCEPT !.published = 0,
                                                                   !.division = "none"]]])
  /\ Goto(r, "fetch")
  /\ UNCHANGED <<org, bundle, lock, full, bounds>>

\* Mutant: flow.json of a carried flow is stamped with what discovery lists now.
CarryForward_Stamped(r) ==
  /\ At(r, "carry")
  /\ LET carried == DOMAIN mem[r].previous \ mem[r].capture
     IN  Remember(r, [mem[r] EXCEPT
           !.skipped = carried,
           !.flows = [f \in carried |-> [mem[r].previous[f] EXCEPT !.published = org[f].published,
                                                                   !.division = org[f].division]]])
  /\ Goto(r, "fetch")
  /\ UNCHANGED <<org, bundle, lock, full, bounds>>

\* Every previous flow that is not to be fetched, from the bytes on disk; its
\* flow.json keeps the id, type and format only.
CarryForward(r) ==
  /\ At(r, "carry")
  /\ LET carried == DOMAIN mem[r].previous \ mem[r].capture
     IN  Remember(r, [mem[r] EXCEPT
           !.skipped = carried,
           !.flows = [f \in carried |-> [mem[r].previous[f] EXCEPT !.published = 0,
                                                                   !.division = "none"]]])
  /\ Goto(r, "fetch")
  /\ UNCHANGED <<org, bundle, lock, full, bounds>>

Todo(r) == mem[r].capture \ (mem[r].completed \cup mem[r].failed)

\* The first of the two requests for a flow without a published version.  The flows are
\* loaded one after another.
LoadDraft(r, f) ==
  /\ At(r, "fetch") /\ f \in Todo(r) /\ mem[r].draft = <<>>
  /\ Exists(f) /\ org[f].published = 0
  /\ Remember(r, [mem[r] EXCEPT !.draft = <<f, org[f].latest>>])
  /\ UNCHANGED <<org, bundle, lock, pc, full, bounds>>

\* The definition of f is there, and this is it.
CanLoad(m, f) == Exists(f) /\ IF m.draft = <<>> THEN org[f].published # 0 ELSE f = m.draft[1]
Loaded(m, f) == IF m.draft = <<>> THEN OfPublished(f) ELSE OfDraft(f, m.draft[2])
Written(m, f) ==
  [m EXCEPT !.draft = <<>>,
            !.flows = [g \in DOMAIN m.flows \cup {f} |->
                         IF g = f THEN Loaded(m, f) ELSE m.flows[g]]]

LoadFlow(r, f) ==
  /\ At(r, "fetch") /\ f \in Todo(r) /\ CanLoad(mem[r], f)
  /\ Remember(r, [Written(mem[r], f) EXCEPT !.completed = @ \cup {f},
                                            !.nodes = @ \cup {<<f, Loaded(mem[r], f).content>>}])
  /\ UNCHANGED <<org, bundle, lock, pc, full, bounds>>

\* FLOW_LOAD_FAILED: nothing of the flow is written, the previous version neither.
LoadFails(r, f) ==
  /\ At(r, "fetch") /\ f \in Todo(r)
  /\ mem[r].draft # <<>> => f = mem[r].draft[1]
  /\ \/ ~Exists(f) /\ UNCHANGED faults
     \/ Fault
  /\ Remember(r, [mem[r] EXCEPT !.draft = <<>>, !.failed = @ \cup {f}])
  /\ UNCHANGED <<org, bundle, lock, pc, full, edits, fulls>>

\* The definition is written and then its references cannot be resolved: the flow
\* is reported as failed, with the new definition in the bundle.
ReferencesFail(r, f) ==
  /\ At(r, "fetch") /\ f \in Todo(r) /\ CanLoad(mem[r], f) /\ Fault
  /\ Remember(r, [Written(mem[r], f) EXCEPT !.failed = @ \cup {f}, !.gap = TRUE])
  /\ UNCHANGED <<org, bundle, lock, pc, full, edits, fulls>>

\* Mutant: the new graph is the fresh walk alone.
WalkAndMerge_Fresh(r) ==
  /\ At(r, "fetch") /\ Todo(r) = {}
  /\ UNCHANGED <<mem, faults>>
  /\ Goto(r, "promote")
  /\ UNCHANGED <<org, bundle, lock, full, edits, fulls>>

\* The previous graph, or an empty one when it cannot be read, with what was not
\* read of its references.
ReadPreviousGraph(r) ==
  IF mem[r].hasPrevious THEN [nodes |-> bundle.nodes, gap |-> bundle.gap] ELSE [nodes |-> {}, gap |-> FALSE]
Unread == [nodes |-> {}, gap |-> TRUE]
\* Nothing the previous graph had is ever taken out again.
MergeResourceGraphs(previous, m) ==
  [m EXCEPT !.nodes = @ \cup previous.nodes, !.gap = @ \/ previous.gap]

\* buildResourceGraph over the new seeds, one request each, and the merge.
WalkAndMerge(r) ==
  /\ At(r, "fetch") /\ Todo(r) = {}
  /\ \/ Remember(r, MergeResourceGraphs(ReadPreviousGraph(r), mem[r])) /\ UNCHANGED faults
     \/ mem[r].hasPrevious /\ Fault /\ Remember(r, MergeResourceGraphs(Unread, mem[r]))
  /\ Goto(r, "promote")
  /\ UNCHANGED <<org, bundle, lock, full, edits, fulls>>

-----------------------------------------------------------------------------
(* Publishing *)

\* seal and promote.
Promote(r) ==
  /\ At(r, "promote")
  /\ bundle' = [mode |-> "context", flows |-> mem[r].flows, nodes |-> mem[r].nodes,
                gap |-> mem[r].gap, turn |-> bundle.turn + 1]
  /\ Goto(r, "save")
  /\ UNCHANGED <<org, lock, mem, full, bounds>>

Outcome(m) == IF m.failed # {} THEN "completed_with_warnings" ELSE "completed"

\* runStore.save, after the bundle has been replaced.
Save(r) ==
  /\ At(r, "save")
  /\ End(r, Outcome(mem[r]))
  /\ UNCHANGED <<org, bundle, full, bounds>>

\* Anything else that throws: the staging directory is discarded, CAPTURE_FAILED
\* is returned and nothing is saved.
Throw(r) ==
  /\ pc[r] \in InTry /\ Fault
  /\ End(r, "failed")
  /\ UNCHANGED <<org, bundle, full, edits, fulls>>

\* The process dies; its lock goes stale and is removed.
Crash(r) ==
  /\ pc[r] \in InTry \cup {"lock"} /\ Fault
  /\ End(r, "dead")
  /\ UNCHANGED <<org, bundle, full, edits, fulls>>

Fetch(r) == \E f \in Flows : LoadDraft(r, f) \/ LoadFlow(r, f) \/ LoadFails(r, f) \/ ReferencesFail(r, f)

Step(r) ==
  \/ Lock(r) \/ Connect(r) \/ Plan(r) \/ CarryForward(r) \/ Fetch(r) \/ WalkAndMerge(r)
  \/ Promote(r) \/ Save(r)

Next ==
  \/ \E f \in Flows : Edit(f)
  \/ FullBegin \/ FullPromote
  \/ \E r \in Runs : Look(r) \/ Step(r) \/ Throw(r) \/ Crash(r)

Spec == Init /\ [][Next]_vars

-----------------------------------------------------------------------------
(* Properties *)

\* The bundle the run looked at before it took the lock is the one it replaces.
Undisturbed(r) == mem[r].turn = bundle.turn

\* "Every previous flow this run did not freshly fetch is carried forward": what
\* a run puts in place of the bundle has every flow of it, with the definition it
\* had, but for those it fetched, reports as failed or, without a word, could not
\* read, if no full capture came between its look at the bundle and its lock.
CarriesTheRest ==
  [][\A r \in Runs : Promote(r) /\ Undisturbed(r) =>
       \A f \in DOMAIN bundle.flows \ (mem[r].completed \cup mem[r].failed \cup mem[r].unread) :
         /\ f \in DOMAIN bundle'.flows
         /\ bundle'.flows[f].version = bundle.flows[f].version
         /\ bundle'.flows[f].content = bundle.flows[f].content]_vars

\* "A real change is never missed": a flow that is carried forward as unchanged has, in
\* the bundle, the very definition that discovery lists as published, over any sequence
\* of full and incremental captures.  One loaded before the flow was published is only
\* filed under that version: it is older if the flow was saved between the two requests.
SkippedIsCurrent ==
  \A r \in Runs : pc[r] \in {"fetch", "promote", "save"} =>
    \A f \in DOMAIN mem[r].found \ mem[r].capture :
      LET e == mem[r].flows[f]
      IN  e.version = mem[r].found[f].published /\ (e.draft \/ e.content = e.version)

\* The resource graph of a bundle knows what its definitions refer to, whichever
\* runs they come from, unless a run could not read references or the old graph.
GraphCovers ==
  ~bundle.gap => \A f \in DOMAIN bundle.flows : <<f, bundle.flows[f].content>> \in bundle.nodes

=============================================================================
