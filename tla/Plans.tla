---------------------------------- MODULE Plans ----------------------------------
(***************************************************************************)
(* Planning a documentation run: createPlan and startRun of the port, the  *)
(* capture of what was planned and the documents of what was captured.     *)
(* Between discovery, plan, start, capture and documents the tenant's      *)
(* authors publish and delete flows, time passes, other plans are made and *)
(* run, and the server process may restart, which forgets its plans.       *)
(*                                                                         *)
(* The runs of one output root share its bundle: a capture holds a lock    *)
(* until it has promoted its bundle, and a run documents, later and        *)
(* without a lock, the bundle that is there then.                          *)
(*                                                                         *)
(* A plan's id is its place in plans; its hash is equal when what it       *)
(* covers is.  A refused call changes nothing.  The run's states and saves *)
(* are those of DocRun.                                                    *)
(***************************************************************************)
EXTENDS Integers, Sequences, FiniteSets, FiniteSetsExt

CONSTANTS
  Flows, Unpinned,     \* Unpinned: no version asked for
  Selections,          \* selections of flows, each with the version asked for
  Tenants,             \* the published versions to start from
  PolicyMax,           \* flows an organization-wide plan may have unconfirmed
  Expiry,
  MaxVersion, MaxTime, MaxChanges, MaxPlans

VARIABLES
  tenant,              \* [f -> its published version, 0 before its first, Gone when deleted]
  time,
  request,             \* the plan being made, {} when there is none
  plans, planCache,    \* every plan made; the ids the process remembers
  runs,                \* [planId -> the run started for it]
  bundle,              \* the bundle of the output root, and the plan whose run promoted it
  changes

vars == <<tenant, time, request, plans, planCache, runs, bundle, changes>>

Gone == -1
NoBundle == [of |-> 0, flows |-> {}]

Init ==
  /\ tenant \in Tenants /\ time = 0 /\ request = {} /\ plans = <<>> /\ planCache = {}
  /\ runs = [p \in {} |-> {}] /\ bundle = NoBundle /\ changes = 0

-----------------------------------------------------------------------------
(* The tenant, the clock and the process *)

Under(r) == r.stage \in {"started", "capturing", "captured"}
Running == {p \in DOMAIN runs : Under(runs[p])}
EndedRun ==
  [stage |-> "ended", pending |-> {}, read |-> {}, failed |-> {},
   documented |-> {}, source |-> 0, seen |-> {}]

\* A run under way remembers (for the properties only) every version published meanwhile.
Change(f, v) ==
  /\ changes < MaxChanges /\ changes' = changes + 1
  /\ tenant' = [tenant EXCEPT ![f] = v]
  /\ runs' = [p \in DOMAIN runs |->
                IF p \in Running THEN [runs[p] EXCEPT !.seen = @ \cup {<<f, v>>}] ELSE runs[p]]
  /\ UNCHANGED <<time, request, plans, planCache, bundle>>
Publish(f) == tenant[f] \in 0..(MaxVersion - 1) /\ Change(f, tenant[f] + 1)
Delete(f) == tenant[f] # Gone /\ Change(f, Gone)
Tick ==
  /\ time < MaxTime /\ time' = time + 1
  /\ UNCHANGED <<tenant, request, plans, planCache, runs, bundle, changes>>
\* Runs under way die with the process; DocRun has what their records say then.
Restart ==
  /\ changes < MaxChanges /\ changes' = changes + 1
  /\ request' = {} /\ planCache' = {}
  /\ runs' = [p \in DOMAIN runs |->
                IF p \in Running THEN EndedRun ELSE runs[p]]
  /\ UNCHANGED <<tenant, time, plans, bundle>>

-----------------------------------------------------------------------------
(* createPlan *)

Scopes ==
  [kind : {"organization"}, versions : {[f \in Flows |-> Unpinned]}]
  \cup [kind : {"flows"}, versions : Selections]

\* discoverCandidates: a flow without a published version is no candidate.
Candidates(scope) == {f \in DOMAIN scope.versions : tenant[f] > 0}

Discover(scope) ==
  /\ request = {} /\ Len(plans) < MaxPlans
  /\ request' = {[scope |-> scope, candidates |-> [f \in Candidates(scope) |-> tenant[f]]]}
  /\ UNCHANGED <<tenant, time, plans, planCache, runs, bundle, changes>>

\* matchCandidates: a selector's version replaces the candidate's.
Matched(r) ==
  [f \in DOMAIN r.candidates |->
     IF r.scope.versions[f] = Unpinned THEN r.candidates[f] ELSE r.scope.versions[f]]
Unmatched(r) == IF r.scope.kind = "flows" THEN DOMAIN r.scope.versions \ DOMAIN r.candidates ELSE {}

\* The client's confirmation covers nothing or everything.
NeedsConfirmation(r, confirmedMax) ==
  LET count == Cardinality(DOMAIN r.candidates)
  IN  r.scope.kind = "organization" /\ count > PolicyMax /\ confirmedMax < count

\* A plan without its confirmation is a preview, which is not stored.
CreatePlan ==
  /\ \E r \in request, confirmedMax \in {0, Cardinality(Flows)} :
       IF NeedsConfirmation(r, confirmedMax)
         THEN UNCHANGED <<plans, planCache>>
         ELSE /\ plans' = Append(plans,
                   [targetVersions |-> Matched(r), warnings |-> Unmatched(r),
                    pinned |-> {f \in DOMAIN r.candidates : r.scope.versions[f] # Unpinned},
                    expiresAt |-> time + Expiry])
              /\ planCache' = planCache \cup {Len(plans) + 1}
  /\ request' = {}
  /\ UNCHANGED <<tenant, time, runs, bundle, changes>>

-----------------------------------------------------------------------------
(* startRun, the capture of the run and its documents *)

PlanHash(p) == plans[p].targetVersions
\* The caller names a plan and the hash of one it was given.
VerifyPlan(planId, planHash) ==
  /\ planId \in planCache              \* else PLAN_NOT_FOUND
  /\ PlanHash(planId) = planHash       \* else PLAN_HASH_MISMATCH
  /\ time <= plans[planId].expiresAt   \* else PLAN_EXPIRED

InPlan(p) == DOMAIN plans[p].targetVersions
Published == {<<f, tenant[f]>> : f \in Flows}
NewRun(p) ==
  [stage |-> "started", pending |-> InPlan(p), read |-> {}, failed |-> {},
   documented |-> {}, source |-> 0, seen |-> Published]

\* A plan that has its run is answered with that run.
StartRun(planId, planHash) ==
  /\ VerifyPlan(planId, planHash) /\ planId \notin DOMAIN runs
  /\ runs' = [p \in DOMAIN runs \cup {planId} |->
                IF p = planId THEN NewRun(p) ELSE runs[p]]
  /\ UNCHANGED <<tenant, time, request, plans, planCache, bundle, changes>>

Run(p, m) == runs' = [runs EXCEPT ![p] = m]
RunStep(p, m) == Run(p, m) /\ UNCHANGED <<tenant, time, request, plans, planCache, bundle, changes>>

\* Mutant: captures of one root overlap.
Unlocked_Always == TRUE
Unlocked == \A p \in DOMAIN runs : runs[p].stage # "capturing"

\* runCapture takes the lock of the output root, is given the ids of the plan, and lists
\* the flows again: what is not listed any more is dropped.
CaptureLists(p) ==
  /\ runs[p].stage = "started" /\ Unlocked
  /\ RunStep(p, [runs[p] EXCEPT !.stage = "capturing", !.pending = {f \in @ : tenant[f] # Gone}])

\* Of each flow it reads the version that is published then, the draft if none is; a flow
\* that cannot be loaded is reported and left out.
Read(r, f) == [r EXCEPT !.pending = @ \ {f}, !.read = @ \cup {<<f, tenant[f]>>}]
NotRead(r, f) == [r EXCEPT !.pending = @ \ {f}, !.failed = @ \cup {f}]
CaptureReads(p) ==
  /\ runs[p].stage = "capturing"
  /\ \E f \in runs[p].pending :
       \/ tenant[f] # Gone /\ RunStep(p, Read(runs[p], f))
       \/ RunStep(p, NotRead(runs[p], f))

\* The new bundle replaces the one of the output root, and the lock is released.
CapturePromotes(p) ==
  /\ runs[p].stage = "capturing" /\ runs[p].pending = {}
  /\ bundle' = [of |-> p, flows |-> runs[p].read]
  /\ Run(p, [runs[p] EXCEPT !.stage = "captured", !.read = {}])
  /\ UNCHANGED <<tenant, time, request, plans, planCache, changes>>

\* documentBundleToDisk reads the bundle that is there.
Documents(p) ==
  /\ runs[p].stage = "captured"
  /\ RunStep(p, [runs[p] EXCEPT !.stage = "documented", !.documented = bundle.flows,
                                !.source = bundle.of])

\* The lock refused, another failure, or a cancellation.
Ends(p) == p \in Running /\ RunStep(p, EndedRun)

Next ==
  \/ \E f \in Flows : Publish(f) \/ Delete(f)
  \/ Tick \/ Restart
  \/ \E scope \in Scopes : Discover(scope)
  \/ CreatePlan
  \/ \E p, q \in DOMAIN plans : StartRun(p, PlanHash(q))
  \/ \E p \in DOMAIN runs :
       CaptureLists(p) \/ CaptureReads(p) \/ CapturePromotes(p) \/ Documents(p) \/ Ends(p)

Spec == Init /\ [][Next]_vars

-----------------------------------------------------------------------------
(* Properties *)

\* Whichever run's bundle a run finds when it documents (archivist-port.ts:574), it documents
\* no version that was out of date before the run started; and when the bundle is still its
\* own, it documents every flow of its plan but those reported as failed and those deleted.
NothingStaleIsDocumented ==
  \A p \in DOMAIN runs : runs[p].stage = "documented" =>
    /\ runs[p].documented \subseteq runs[p].seen
    /\ runs[p].source = p =>
         \A f \in InPlan(p) :
           (\E d \in runs[p].documented : d[1] = f) \/ f \in runs[p].failed \/ tenant[f] = Gone

\* docs/03-mcp-contract.md:181: "Promotion compares the source version again; stale plans
\* fail before replacing output."  Of the flows planned at the version that was published
\* then, a run would document no other version.
PlannedVersionIsDocumented ==
  \A p \in DOMAIN runs : \A d \in runs[p].documented :
    d[1] \in InPlan(p) \ plans[p].pinned => plans[p].targetVersions[d[1]] = d[2]

=============================================================================
