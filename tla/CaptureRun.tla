------------------------------ MODULE CaptureRun ------------------------------
(***************************************************************************)
(* runCapture and resumeCapture of packages/capture/src/capture-run.ts and *)
(* the part of bundle-writer.ts and bundle-verifier.ts that decides what a *)
(* bundle claims and whether it passes its own verification.               *)
(*                                                                         *)
(* A run is known by its runId, which also names its staging directory.    *)
(* The bundle's promote is one step (AtomicPromotion takes it apart), the  *)
(* lock is the grants of FileLock.  A flow stands for the version the      *)
(* source returns.  The tree of a bundle is the flows in it; the content   *)
(* hash is what the writer remembers having written.                       *)
(***************************************************************************)
EXTENDS ResourceWalk, SequencesExt

CONSTANTS
  Runs,         \* run ids
  Flows,        \* the flows in scope: they are keys as well
  Yaml,         \* those whose source is YAML; the Platform API returns JSON
  Mode,         \* "context" or "migration"
  MaxRequests,  \* the walk's budget in migration mode
  MaxFaults,    \* bound of the faults and crashes of a behaviour together
  MaxCrashes, MaxResumes   \* bounds

ASSUME CaptureAssumption ==
  /\ Flows \subseteq Keys /\ IsFiniteSet(Flows) /\ Yaml \subseteq Flows
  /\ Mode \in {"context", "migration"} /\ MaxRequests \in Nat
  /\ MaxFaults \in Nat /\ MaxCrashes \in Nat /\ MaxResumes \in Nat

VARIABLES
  pc,        \* the next step of each run
  mem,       \* per run: what its process knows (manifestState and the writer)
  manifest,  \* .archivist/state/runs/<runId>.json
  staging,   \* .archivist/staging/<runId>: the flows in it
  bundle,    \* <root>/bundle
  lock,      \* the runs holding the "capture" lock
  faults, crashes, resumes

vars == <<walk, pc, mem, manifest, staging, bundle, lock, faults, crashes, resumes>>
bounds == <<faults, crashes, resumes>>

Ended == {"idle", "completed", "completed_with_warnings", "failed", "refused", "threw", "dead"}
InTry == {"connect", "discover", "stage", "fetch", "walk", "assets", "seal", "promote", "final"}
Steps == Ended \cup InTry \cup {"begin", "catch"}

Fresh ==
  [total |-> 0, queued |-> 0, completed |-> 0, skipped |-> 0, failed |-> 0, results |-> {},
   todo |-> {}, carried |-> {}, written |-> {}, seeds |-> {}, resources |-> {},
   degraded |-> FALSE, leftover |-> FALSE]

\* persistManifest: the phase, the progress and the flow results.
View(m, phase) ==
  [state |-> phase, total |-> m.total, queued |-> m.queued, completed |-> m.completed,
   skipped |-> m.skipped, failed |-> m.failed, results |-> m.results]

NoManifest == View(Fresh, "none")
Torn == View(Fresh, "torn")    \* cut short by a crash: it does not parse
NoBundle ==
  [files |-> {}, sealed |-> {}, resources |-> {}, statuses |-> {}, leftover |-> FALSE,
   ready |-> FALSE, truncated |-> FALSE]

Init ==
  /\ walk = NoWalk
  /\ pc = [r \in Runs |-> "idle"]
  /\ mem = [r \in Runs |-> Fresh]
  /\ manifest = [r \in Runs |-> NoManifest]
  /\ staging = [r \in Runs |-> {}]
  /\ bundle = NoBundle
  /\ lock = {}
  /\ faults = 0 /\ crashes = 0 /\ resumes = 0

At(r, step) == pc[r] = step
Goto(r, step) == pc' = [pc EXCEPT ![r] = step]
Remember(r, m) == mem' = [mem EXCEPT ![r] = m]
Persist(r, phase) == manifest' = [manifest EXCEPT ![r] = View(mem'[r], phase)]
Release(r) == lock' = lock \ {r}
\* The call returns or throws: its variables are gone and "finally" has released the lock.
End(r, how) ==
  /\ Goto(r, how) /\ Release(r)
  /\ Remember(r, Fresh) /\ walk' = NoWalk
EndAs(r, state) ==
  /\ End(r, state)
  /\ manifest' = [manifest EXCEPT ![r] = View(mem[r], state)]
Fault == faults + crashes < MaxFaults /\ faults' = faults + 1

-----------------------------------------------------------------------------
(* runCapture and resumeCapture *)

RunCapture(r) ==
  /\ At(r, "idle")
  /\ Goto(r, "begin")
  /\ UNCHANGED <<walk, mem, manifest, staging, bundle, lock, bounds>>

\* readPromotedFlows: the definitions found under the name definition.yaml.
Promoted == bundle.files \cap Yaml

\* RUN_NOT_FOUND, PLAN_HASH_MISMATCH: a manifest that cannot be read, or a call
\* with another plan's hash, is refused (a caller may pass any).  A run that
\* completed is reported again; any other is executed with what the last promoted
\* bundle holds, whichever run that is from.
ResumeCapture(r) ==
  /\ pc[r] \in Ended \ {"idle"} /\ resumes < MaxResumes
  /\ resumes' = resumes + 1
  /\ \/ Goto(r, "refused") /\ UNCHANGED mem
     \/ /\ manifest[r].state \in {"completed", "completed_with_warnings"}
        /\ Goto(r, manifest[r].state) /\ UNCHANGED mem
     \/ /\ manifest[r].state \notin {"none", "torn", "completed", "completed_with_warnings"}
        /\ Remember(r, [Fresh EXCEPT !.carried = Promoted])
        /\ Goto(r, "begin")
  /\ UNCHANGED <<walk, manifest, staging, bundle, lock, faults, crashes>>

\* acquireLock(root, "capture"); OUTPUT_LOCKED is persisted by the refused run.
Begin(r) ==
  /\ At(r, "begin")
  /\ \/ /\ lock = {} /\ lock' = {r}
        /\ UNCHANGED mem /\ Persist(r, "queued") /\ Goto(r, "connect")
     \/ /\ lock # {} /\ UNCHANGED <<lock, mem>>
        /\ Persist(r, "failed") /\ Goto(r, "failed")
  /\ UNCHANGED <<walk, staging, bundle, bounds>>

\* validateConnection and the tenant guard, before anything else is read.
Connect(r) ==
  /\ At(r, "connect")
  /\ \/ /\ UNCHANGED <<mem, lock, walk>>
        /\ Persist(r, "discovering") /\ Goto(r, "discover")
     \/ EndAs(r, "failed")
  /\ UNCHANGED <<staging, bundle, bounds>>

\* listFlows: what exists by now of the flows in scope; a flow of the scope that
\* is not listed is left out without a word.
Discover(r) ==
  /\ At(r, "discover")
  /\ \/ /\ \E found \in SUBSET Flows :
             Remember(r, [mem[r] EXCEPT !.todo = found, !.total = Cardinality(found),
                                        !.queued = Cardinality(found)])
        /\ Persist(r, "discovering") /\ Goto(r, "stage") /\ UNCHANGED <<lock, walk>>
     \/ EndAs(r, "failed")
  /\ UNCHANGED <<staging, bundle, bounds>>

\* createStaging keeps what an earlier attempt of the run left in the directory
\* ("leftover" records that there was something, for the properties).
CreateStaging(r) ==
  /\ At(r, "stage")
  /\ Remember(r, [mem[r] EXCEPT !.leftover = staging[r] # {}]) /\ Persist(r, "fetching_definitions") /\ Goto(r, "fetch")
  /\ UNCHANGED <<walk, staging, bundle, lock, bounds>>

-----------------------------------------------------------------------------
(* fetching_definitions *)

WriteFlow(r, f) == staging' = [staging EXCEPT ![r] = @ \cup {f}]

\* The flow's turn is over with this status.
Counted(m, f, status) ==
  [m EXCEPT !.todo = @ \ {f}, !.queued = @ - 1, !.results = @ \cup {<<f, status>>},
            !.completed = IF status = "completed" THEN @ + 1 ELSE @,
            !.skipped = IF status = "skipped" THEN @ + 1 ELSE @,
            !.failed = IF status = "failed" THEN @ + 1 ELSE @,
            !.degraded = @ \/ status = "failed"]

\* A flow of the last promoted bundle is copied; its references are not read.
CarryFlow(r, f) ==
  /\ At(r, "fetch") /\ f \in mem[r].todo \cap mem[r].carried
  /\ Remember(r, [Counted(mem[r], f, "skipped") EXCEPT !.written = @ \cup {f}])
  /\ WriteFlow(r, f)
  /\ Persist(r, "fetching_definitions")
  /\ UNCHANGED <<walk, pc, bundle, lock, bounds>>

Loadable(r, f) == At(r, "fetch") /\ f \in mem[r].todo \ mem[r].carried

LoadFlow(r, f) ==
  /\ Loadable(r, f)
  /\ Remember(r, [Counted(mem[r], f, "completed") EXCEPT
                    !.written = @ \cup {f}, !.seeds = @ \cup Elems(Refs[f])])
  /\ WriteFlow(r, f)
  /\ Persist(r, "fetching_definitions")
  /\ UNCHANGED <<walk, pc, bundle, lock, bounds>>

\* The definition cannot be loaded: FLOW_LOAD_FAILED, and on with the next.
LoadFails(r, f) ==
  /\ Loadable(r, f)
  /\ Remember(r, Counted(mem[r], f, "failed")) /\ UNCHANGED staging
  /\ Persist(r, "fetching_definitions")
  /\ UNCHANGED <<walk, pc, bundle, lock, bounds>>

\* The definition is in the bundle and counted, and then its references cannot
\* be resolved: the catch counts the flow once more, as failed.
ReferencesFail(r, f) ==
  /\ Loadable(r, f) /\ Fault
  /\ Remember(r, [Counted(Counted(mem[r], f, "completed"), f, "failed") EXCEPT
                    !.written = @ \cup {f}])
  /\ WriteFlow(r, f)
  /\ Persist(r, "fetching_definitions")
  /\ UNCHANGED <<walk, pc, bundle, lock, crashes, resumes>>

\* writeFlow notes the flow before it writes the files: a write that fails leaves
\* it in the seal, and in the counts of the manifest, without its definition.
WriteFails(r, f) ==
  /\ Loadable(r, f) /\ Fault
  /\ Remember(r, [Counted(mem[r], f, "failed") EXCEPT !.written = @ \cup {f}])
  /\ UNCHANGED staging
  /\ Persist(r, "fetching_definitions")
  /\ UNCHANGED <<walk, pc, bundle, lock, crashes, resumes>>

-----------------------------------------------------------------------------
(* walking_resources, downloading_assets, sealing *)

\* The walk starts; in context mode its budget is the seeds themselves.
BeginWalk(r) ==
  /\ At(r, "fetch") /\ mem[r].todo = {}
  /\ LET seeds == SetToSeq(mem[r].seeds)
     IN  walk' = IF Mode = "migration" THEN WalkFrom(seeds, MaxRequests)
                 ELSE IF seeds = <<>> THEN NoWalk ELSE WalkFrom(seeds, Len(seeds))
  /\ UNCHANGED mem /\ Persist(r, "walking_resources") /\ Goto(r, "walk")
  /\ UNCHANGED <<staging, bundle, lock, bounds>>

Walk(r) ==
  /\ At(r, "walk") /\ WalkNext
  /\ UNCHANGED <<pc, mem, manifest, staging, bundle, lock, bounds>>

\* RESOURCE_WALK_TRUNCATED degrades a migration; a context capture overrides the flag.
EndWalk(r) ==
  /\ At(r, "walk") /\ walk.stage = "done"
  /\ IF Mode = "migration"
       THEN /\ Remember(r, [mem[r] EXCEPT !.degraded = @ \/ walk.truncated])
            /\ Persist(r, "downloading_assets") /\ Goto(r, "assets") /\ UNCHANGED walk
       ELSE /\ walk' = [walk EXCEPT !.truncated = FALSE]
            /\ UNCHANGED mem /\ Persist(r, "sealing") /\ Goto(r, "seal")
  /\ UNCHANGED <<staging, bundle, lock, bounds>>

\* The body, the assets and the rows of every node that was read.
WriteResources(r) ==
  /\ At(r, "assets")
  /\ Remember(r, [mem[r] EXCEPT !.resources = walk.nodes \cap Readable])
  /\ Persist(r, "sealing") /\ Goto(r, "seal")
  /\ UNCHANGED <<walk, staging, bundle, lock, bounds>>

\* Mutant: readiness as it was, from the mode and a count alone.
Ready_ByMode(m) == Mode = "migration" /\ m.written # {}

\* archyImportableYaml
Ready(m) == Mode = "migration" /\ m.written # {} /\ walk.nodes \subseteq Readable

\* seal and promote: the staged tree becomes the bundle.
Promote(r) ==
  /\ At(r, "seal")
  /\ bundle' = [files |-> staging[r], sealed |-> mem[r].written, resources |-> mem[r].resources,
                statuses |-> {res[2] : res \in mem[r].results},
                leftover |-> mem[r].leftover, ready |-> Ready(mem[r]), truncated |-> walk.truncated]
  /\ staging' = [staging EXCEPT ![r] = {}]
  /\ Goto(r, "final")
  /\ UNCHANGED <<walk, mem, manifest, lock, bounds>>

Finish(r) ==
  /\ At(r, "final")
  /\ EndAs(r, IF mem[r].degraded THEN "completed_with_warnings" ELSE "completed")
  /\ UNCHANGED <<staging, bundle, bounds>>

-----------------------------------------------------------------------------
(* Failures *)

\* Anything that throws inside the try: a save of the manifest, a write, the
\* provider while resources are resolved, the promote.
Throw(r) ==
  /\ pc[r] \in InTry /\ Fault
  /\ Goto(r, "catch")
  /\ UNCHANGED <<walk, mem, manifest, staging, bundle, lock, crashes, resumes>>

\* Mutant: the staged files stay behind.
Catch_Keeps(r) ==
  /\ At(r, "catch")
  /\ UNCHANGED staging /\ EndAs(r, "failed")
  /\ UNCHANGED <<bundle, bounds>>

\* Mutant: only a run that has staged something records its failure.
Catch_Staged(r) ==
  /\ At(r, "catch") /\ staging[r] # {}
  /\ staging' = [staging EXCEPT ![r] = {}]
  /\ EndAs(r, "failed")
  /\ UNCHANGED <<bundle, bounds>>

\* The catch branch: staging.discard and the failed manifest.
Catch(r) ==
  /\ At(r, "catch")
  /\ staging' = [staging EXCEPT ![r] = {}]
  /\ EndAs(r, "failed")
  /\ UNCHANGED <<bundle, bounds>>

\* discard fails, or the save after it: nobody records the end.
CatchThrows(r) ==
  /\ At(r, "catch") /\ Fault
  /\ \/ UNCHANGED staging
     \/ staging' = [staging EXCEPT ![r] = {}]
  /\ End(r, "threw")
  /\ UNCHANGED <<manifest, bundle, crashes, resumes>>

\* The process dies, possibly in the middle of writing the manifest in place.
Crash(r) ==
  /\ pc[r] \in InTry \cup {"catch"} /\ crashes < MaxCrashes /\ faults + crashes < MaxFaults
  /\ crashes' = crashes + 1
  /\ Goto(r, "dead") /\ Remember(r, Fresh) /\ walk' = NoWalk
  /\ \/ UNCHANGED manifest
     \/ manifest' = [manifest EXCEPT ![r] = Torn]
  /\ UNCHANGED <<staging, bundle, lock, faults, resumes>>

\* A dead run's lock goes stale and is removed.
LockReclaimed(r) ==
  /\ r \in lock /\ ~(pc[r] \in InTry \cup {"catch"})
  /\ Release(r)
  /\ UNCHANGED <<walk, pc, mem, manifest, staging, bundle, bounds>>

Fetch(r) ==
  \E f \in Flows : \/ CarryFlow(r, f) \/ LoadFlow(r, f) \/ LoadFails(r, f)
                    \/ ReferencesFail(r, f) \/ WriteFails(r, f)

\* What a run's own code does next.
Step(r) ==
  \/ Begin(r) \/ Connect(r) \/ Discover(r) \/ CreateStaging(r) \/ Fetch(r) \/ BeginWalk(r)
  \/ Walk(r) \/ EndWalk(r) \/ WriteResources(r) \/ Promote(r) \/ Finish(r) \/ Catch(r)

Next ==
  \E r \in Runs : \/ RunCapture(r) \/ ResumeCapture(r) \/ Step(r)
                  \/ Throw(r) \/ CatchThrows(r) \/ Crash(r) \/ LockReclaimed(r)

Spec == Init /\ [][Next]_vars
\* Every call of the source and of the file system settles.
FairSpec == Spec /\ \A r \in Runs : WF_vars(Step(r))

-----------------------------------------------------------------------------
(* Properties *)

\* What verifyBundle recomputes from the tree is what seal hashed, unless the run
\* reported a flow it could not capture or found an earlier attempt's files in
\* its staging directory; and only a crash, or a second failure while it cleans
\* up after a first, makes an attempt leave files there.
SealedVerifies ==
  /\ bundle.files # bundle.sealed => bundle.leftover \/ "failed" \in bundle.statuses
  /\ bundle.leftover => crashes > 0 \/ faults > 1

\* Everything the flow refers to, directly or not, was read into the bundle.
ReadFor(f) ==
  /\ Elems(Refs[f]) \subseteq bundle.resources
  /\ \A key \in bundle.resources : Elems(Refs[key]) \subseteq bundle.resources

\* A bundle that calls itself importable and not truncated holds every resource
\* its flows refer to, if the run loaded each of them itself.
ReadyIsClosed ==
  /\ bundle.ready /\ ~bundle.truncated /\ bundle.statuses \subseteq {"completed"}
  => \A f \in bundle.sealed : ReadFor(f)

\* A run that has begun ends.
RunEnds == \A r \in Runs : At(r, "begin") ~> pc[r] \in Ended

=============================================================================
