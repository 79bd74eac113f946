# Genesys Archivist: specifications

TLA+ specifications of Genesys Archivist (`src/`, TypeScript): how documentation
runs, captures and incremental updates use one output root, the primitives under
them (atomic replacement of a directory, the file lock), what is made of a
captured flow (snapshot, analysis, diff, narration, documents), and the services
around them (profiles, API client, listings, plans, self-update). TLC checks each
on small instances; TLAPS proves every safety property of the passing runs, and
that atomic replacement implements its contract, for every value of the
constants. `PROJECT.json` maps every definition to the lines it was translated
from, and lists the hazards of the code with the properties that cover them.

## 1. The system

A documentation run goes *plan → capture → document → promote*. A client (the
command line or the MCP server) asks the **port** (`archivist-port.ts`) to plan
and to start a plan. The port mints a run, saves its manifest through the **run
store** (`run-store.ts`) and executes the run in the background. **Capture**
(`capture-run.ts`, or `change-detection-io.ts` for an incremental one) reads the
flows through the **source provider** and the **API client**, walks what they
refer to (`resource-graph.ts`), and seals and promotes a *bundle*.
**Documentation** (`document-bundle*.ts`) reads the bundle, normalizes and
analyses each flow, has a model narrate it if asked, merges the documents over
the existing ones and promotes the *document set*. Bundle, document set,
manifests, profiles and narration files are all replaced by the same primitive,
`createStaging` and `promote` of `storage/atomic.ts`, and most of them under a
lock file of `storage/lock.ts`.

Everything interacts through the output root on disk, plus three maps in the
memory of a server process (`planCache`, `runIdByPlanId`,
`cancellationRequested`). Several processes may use one root at once.

| Component (lines) | State it keeps | What is hard | What makes it correct |
|---|---|---|---|
| `storage/atomic.ts` (348) | target, `.previous-<id>`, staging directory, journal | crash or failure between two renames; leftovers of an earlier attempt; two writers | the last good content is never the only copy deleted; readers never see a mix; recovery restores |
| `storage/lock.ts` (289) | lock file, reclaim mutex | every decision is a read followed by an unconditional removal; TTLs; crashed holders | one holder; a live lock goes only by its holder's release or through somebody who knows less; every caller is served |
| `application/run-state-machine.ts` (233), `composition/archivist-port.ts`, `run-store.ts` (1364) | run state, three maps, one manifest per run | two starts of one plan, a cancellation racing the phases, failing saves, restart, manifests unreadable between two renames | terminal is final; failed or cancelled means nothing promoted; every run ends |
| `application/plan.ts` (301) | plans in memory | the tenant changes between plan, start and capture; other runs replace the bundle; restart | nothing is documented that was out of date when the run started |
| `capture/capture-run.ts` (965) | `<root>/bundle`, capture manifest, staging | one of many flows failing, leftovers, resumption over an older bundle | a sealed bundle verifies; every run ends |
| `capture/resource-graph.ts` (159) | worklist, visited, request budget | budget at its limit, cycles, dangling references | closed, or says that it is not |
| `capture/bundle-writer.ts`, `bundle-verifier.ts` (787) | bundle files and their hash | the record is built twice, from memory and from disk | a copy verifies exactly when what the seal covers is what was sealed |
| `composition/change-detection-io.ts`, `analysis/change-detection.ts` (1209) | checkpoint, flows carried forward, merged graph | looks before it locks; failing loads, saves and reads; full captures in between; a draft and its version label come from two requests | nothing dropped that could be read, nothing skipped that changed since it was published |
| `composition/document-bundle*.ts` (883) | `<root>/documents` | read-merge-promote without a lock; reads in another run's rename gap | a run replaces its own flows' documents and nothing else; nothing dropped without a warning |
| `narrative/work-queue.ts`, `composition/narration-journal.ts` (391) | journal of jobs, saved sections | crash between checkpoint and saved sections; a journal that cannot be read is an empty one | a completed job's sections are there; nothing accepted is lost without a warning |
| `narrative/evidence-pack.ts`, `claim-validator.ts` (1151) | none | what evidence bears on what, nested limits | only grounded claims are kept, and none is dropped without a code |
| `normalization` (2650) | none | references to what is not there, identity of moved nodes | everything the walks look at is in the snapshot or in a warning |
| `analysis` graphs and diff, `composition/diff-flow.ts` (2942) | work stacks | cyclic graphs, limits, rerouted edges, cut lists | agrees with the definitions; a change of behaviour reaches a reviewer |
| `storage/profile-store.ts` (315), `cli/commands/profile.ts` (714) | one directory of profiles, a credential store beside it | read-modify-write, unreadable files, two stores that fail one at a time | no profile forgotten, no credential orphaned |
| `genesys-platform` (1354), `genesys-source` (984) | token, request counter, caches, pages | check-then-await, shared refresh, retries, paging over a changing tenant, eviction | bounded overrun; listings and references of the right version |
| `cli/commands/update.ts` (463) | the checkout, its install and its build | no rollback; re-run after a failure | stale code was reported |
| documentation, rendering, security, domain, testing, MCP server, scripts | none that outlives a call | text | not modelled, see section 7 |

## 2. Modules

| Module | Models | How state and actions correspond |
|---|---|---|
| `TargetContract` | what `promote` promises a reader | a version is published or the target vanishes and comes back; never a mix, never an older version |
| `AtomicPromotion` | `storage/atomic.ts` | one action per file-system call. A directory's content is the set of attempts whose files it holds. `FixedId` is the run store's staging id, `Exclusive` says whether callers hold the target's lock, `RecoveryMode` who calls the recovery and when (`never` is what the repository does, `onNextUse` what its comments say, `late` any other time) |
| `FileLock` | `storage/lock.ts` | one action per file-system call of acquireLock, withReclaimMutex and release. Time is reduced to the moment a record goes stale; `existing` is the record a reclaimer read, none included |
| `RunStateMachine`, `DocRun` | `run-state-machine.ts`; `archivist-port.ts`, `run-store.ts` | `calls` are concurrent startRun calls, `at` is the position in executeRun's body (`Program`), a save is two steps because between them the manifest cannot be read. `orphaned` records runs nobody executes any more |
| `Plans` | `plan.ts`, discovery, createPlan and startRun of the port, the selection and loading in `capture-run.ts`, the bundle between capture and documents | the tenant is flows with their published version; `Publish`, `Delete`, `Tick` and `Restart` come between the calls. A run captures under the lock, promotes to the shared `bundle` and documents, later and without a lock, the bundle that is there; `seen` remembers, for the property, what was published while it ran |
| `CaptureRun` | `capture-run.ts` | `pc` walks a run through runCapture; a flow is written and its references read in two steps; `staging` survives a crash and is taken up by the resumption |
| `ResourceWalk` | `resource-graph.ts` | a level is filtered, cut to the budget, and resolved one lookup at a time; `CaptureRun` uses its steps |
| `BundleSeal` | `bundle-writer.ts`, `bundle-verifier.ts`, `asset-store.ts` | writes, a seal, damage to a copy, a verification. A hash is the value that was hashed; a definition or a body has a `stable` part and a `volatile` one that canonicalization takes out |
| `ChangeDetection`, `IncrementalUpdate` | `change-detection.ts`; `change-detection-io.ts` | the decision per flow as an operator; a run looks, locks, plans, carries forward, fetches, merges, promotes and saves, beside full captures and edits. What a bundle has of a flow is both the version it is filed under and the one it is (`content`), which differ when a draft was saved between the two requests for it; `unread` remembers what a run could not see |
| `DocumentSet` | `document-bundle.ts`, `document-bundle-to-disk.ts`, the part of `capture-run.ts` that touches the shared trees | a tree is a set of entries (path, capturing run, documenting run); one action per read of a flow or of an existing path, per rename; a listing or a read may fail, and `hidden` and `unread` remember what that kept from the run |
| `Narration` | `work-queue.ts`, `narration-journal.ts`, the fold in `document-bundle-to-disk.ts` | `pc` walks a run through the queue (load, narrate, record) and the fold (reuse, save sections, publish); a record is the read under the lock, which may fail (`misread`), and the promote's two renames |
| `Claims` | `evidence-pack.ts`, `claim-validator.ts`, `narration-provider.ts` | a pack is built, a draft asked for with retries and answered claim by claim, then validated |
| `FlowSource`, `Normalize` | what Architect exports (external); `normalization` | a flow is edited; a snapshot is made of it. `shapeless` are its lists that are no arrays; of an object, `buried` are the references in a form the walks pass over, `deep` a value nested deeper than the settings look, `guid` whether it has a GUID and not a tracking id alone |
| `FlowGraph` | `reachability.ts`, `cycles.ts`, `journeys.ts`, `findings.ts` | one action per turn of their loops |
| `FlowDiff`, `DiffFlow` | `diff.ts`, `change-classification.ts`; `diff-flow.ts` | operators from two snapshots to changes, their review classes and the tool's answer |
| `ProfileStore` | `profile-store.ts`, `cli/commands/profile.ts` | a command is a snapshot, two renames and the calls to the credential store; readers take no lock. Any two commands may be about one profile: `crossed` remembers where one gave a credential while another removed the profile |
| `PlatformClient` | `client.ts`, `token.ts`, the download of a recording | a step is what runs between two awaits |
| `FlowListing`, `SourceProvider` | paged reads; caches of `platform-source-provider.ts` | a page at a time while flows come and go; loads, publications and evictions |
| `SelfUpdate` | `cli/commands/update.ts` | one action per command it runs; a developer and upstream act in between |
| `*_proofs` | theorems | section 5 |
| `MC…` | the instances | `MCServices` and `MCRecords` hold several components side by side; a behaviour is of one of them, chosen at the start, so their states add up and do not multiply |

`DocRun`, `DocumentSet`, `Narration`, `CaptureRun` and `IncrementalUpdate` take a
promotion to the one or two steps a concurrent reader can tell apart, which
`AtomicPromotion` takes apart further, and a lock to the grants `FileLock`
describes. `Plans` and `CaptureRun` look inside the capture phase that `DocRun`
takes as given, `DocumentSet` and `Narration` inside its documentation phase.

Definitions with an underscore in their name (`Swap_Overwrites`,
`SaveFails_Ignored`, …) are defect variants of the definition that follows them.
No specification uses them. Each is a plausible bug which, put in the place of
the original, makes TLC report the property it is listed with in
`PROJECT.json`: they show that the property can fail.

## 3. Runs

| Run | Shows | Bounds |
|---|---|---|
| `atomic_recovered` | one writer at a time and recovery before each use, whatever crashes or fails: last good content kept, restored when quiet, contract implemented | 3 attempts, 2 faults, 2 crashes: an attempt interrupted, its recovery interrupted or failing, and a third on top |
| `atomic_stray` (violated) | the saves of one run, which share a staging id, without a recovery: one archive that could not be removed makes the later saves fail | 3 saves, 1 fault |
| `lock_live` | stale lock, stale mutex, expiry, a crash anywhere, holders that release or do not: every caller that keeps asking is served, and a live lock file goes only by its holder's release or because somebody acts on what it knew before | 2 callers, 2 attempts, 2 grants |
| `lock_reclaim` (violated) | one caller reclaims a stale lock; another, which found no record, removes its new one: both are granted the key | 2 callers, 3 attempts, no crash, no release |
| `doc_runs` | two starts, a cancellation, a failing save, a vanishing profile, a restart: manifests follow the machine, unfinished runs touched nothing, cancellations are honoured, every run ends | 2 runs, 1 of each |
| `captures` | two captures over one root with leftovers, a failing write, reference or save, a crash and a resumption: a sealed bundle verifies, an importable one is closed, the walk says when it stopped early, every run ends | 2 flows, 2 resources in a cycle, of which one cannot be read; a budget of 2 lookups, enough for one flow and not for both; two faults, or one and a crash |
| `updates` | incremental and full captures while flows are edited: nothing is skipped that changed since it was published, nothing dropped that the run could read, the graph covers the definitions | 2 runs, 2 flows (one may be unpublished), 2 edits, 1 full capture, 1 fault |
| `documents_lost` (violated) | two runs over disjoint flows: one deletes the other's documents | 2 runs, no faults |
| `narrations` | two runs over the same jobs in opposite orders: records that could read the journal keep each other's entries, completed jobs have their sections or are owed them, nothing accepted is lost without a warning, every run ends | 2 runs, 2 jobs, 1 failing read or write, 1 crash; drafts with and without an accepted statement |
| `records` | what is made of captured flows, six components (below) | see below |
| `services` | what is around the pipeline, six components (below) | see below |
| `plan_stale` (violated) | a flow is published anew after the discovery of a plan, and the plan's run documents the new version | as `services` |

`records`: the document set with an earlier run and two overlapping ones (1
failing rename, listing or read, 1 crash); two unlocked writers of one target (3 attempts, 2
faults, 1 crash); a bundle of up to 2 writes after which up to 2 things are lost,
garbled, changed or merged (a flow in either format, a resource, an asset,
their index, the graph, the manifest), in what is hashed or in what is not; drafts of up
to 3 claims about a flow of 3 nodes, an edge, 2 variables and a dependency, with
every limit of the pack at one and the budgets at two claims and three
characters; two versions of a flow with a menu, two choices and a task, up to 2
edits apart (a move, a rename, a reroute, a type the normalizer does not know, a
lost target, …) — a nameless object or an unknown type from the start counts as one of
them — answered with lists cut at 3; and every graph of 3 nodes with
edges to each other, to a missing node and back, with journeys cut at depth 1 or
3 and at 4 in number.

`services`: 3 profile commands of 2 processes on 2 ids, the same one included, whose files may be
unreadable, with 1 fault; 2 callers of a client with 3 requests and 1 retry,
tokens that live 2 ticks of 3; a listing of up to 5 flows in pages of 2 during
which 2 flows come or go, and tables of up to 4 rows; 5 loads of 3 flows through
caches of 2; 3 self-updates over 2 upstream commits and 2 edits; 2 plans over 2
flows with 2 versions, their runs over one output root, 2 publications, deletions
or restarts, and a policy maximum of 1.

The bounds are small because every hazard needs few actors: a fault, a crash or
a race involves one or two attempts and shows in the next; a limit shows when
one entry is over it. `MAX_ATTEMPTS` of the lock is larger in the code; a
violation needs two iterations, and the proofs cover every number.

No run checks deadlock: every bounded instance stops when its attempts, grants,
edits or runs are used up.

### Fairness

Only weak fairness is assumed, and only of what Node's event loop does: it runs
every continuation whose promise has settled, and each file-system call settles.
Nothing obliges a fault, a crash, an edit, a new call or a new cancellation to
happen.
`DocRun.FairSpec`: each run's executor, each call and a recorded cancellation.
`FileLock.FairSpec`: a call in progress goes on, a refused caller calls again (as
`withRunLock` does until its deadline), and records go stale as time passes.
Releasing is not fair: every caller of `lock_live` is served even if no holder ever
releases.
`Narration.FairSpec`: each run goes on; the model call settles (the adapter makes
a bounded number of attempts) and the wait for the lock has a deadline. That a
dead run's lock expires is not assumed.
`CaptureRun.FairSpec`: each run goes on; a run that died is not one of them until
it is resumed. The other modules have safety properties only.

## 4. Where the code differs from its documentation

The violated runs, each quoted with its line in `PROJECT.json` ("findings"):

1. A record that is missing when the reclaim section reads it counts as stale, and
   what is removed is whatever is at the path by then: after one caller has cleared
   a stale lock, a second enters the section and finds nothing, the first creates
   its lock and is granted the key, and the second removes that lock and creates its
   own (`lock.ts:256-259`; the link at line 247 takes no mutex). A mutex that was
   just released and therefore looks abandoned (line 172) is another way to the
   same end, not the shortest.
2. The document set is read, merged and promoted without a lock, so two runs
   over one root can delete each other's documents
   (`document-bundle-to-disk.ts:448`).
3. Nothing compares a flow's version with the plan's, so a flow that is published
   after its plan's discovery is documented at the new version
   (`archivist-port.ts:494`, against `docs/03-mcp-contract.md:181`). A caller that
   asks for a version other than the published one does not get it either, which
   the property leaves aside (`pinned`).
4. "A stray archive directory is harmless; recovery cleans it up" (`atomic.ts:225`):
   all saves of a run use one staging id (`run-store.ts:279-282`), so an archive that
   could not be removed is where the next save must put its own, and that save and
   every later one of the run fails. Nothing outside the tests runs the recovery.

Where a property excepts something, the exception is what the code does:

- `RunEnds` of `DocRun` excepts orphaned runs: those whose profile could not be
  read outside the try block (`archivist-port.ts:451`), whose catch branch could
  not save either (line 651), whose first save failed (line 917) or whose server
  died. A second start of a plan whose manifest is between two renames mints a
  second run (line 907), against `port.ts:269-271`.
- `UndisturbedKeepsOthers` and `UndisturbedDropsNothing` are about runs no other
  run disturbed while they read; `disturbed` is exactly the set of runs for which
  finding 2 and its sibling on the bundle (`archivist-port.ts:574`) apply. They
  except what the code itself cannot see. A listing of the bundle that fails is an
  empty one (`document-bundle.ts:129-139`), against "Reported, never omitted"
  (lines 62-66): `hidden`. An existing document or directory that cannot be read is
  not merged (`document-bundle-to-disk.ts:166-170`, `175-181`), so the promotion
  deletes it, against lines 156-161: `unread`.
- `LiveLockStays` excepts the reclaimer of finding 1, and a holder whose own lock
  file is gone, whose release removes another's (`lock.ts:268-285`).
- `RecordKeepsOthers` excepts a record that could not read the journal: any error is
  "no entries" (`narration-journal.ts:77-83`), and the journal it writes has the new
  entry alone.
- `AcceptedIsNotLost` is about statements that were accepted. A skipped re-run of a
  job whose draft had only rejections publishes no narrative.md, and the one that
  listed the rejections is deleted without a warning, against
  `document-bundle-to-disk.ts:348-353` and `narration-journal.ts:18-20`: saved
  sections hold no rejections, so `Rerendered` is not `Rendered`.
- `CompletedHasSections` excepts jobs whose run died or warned: they are
  journalled as completed before their sections are saved, so no later run
  narrates them, and the warning that they will be narrated again is wrong
  (`document-bundle-to-disk.ts:396`).
- `SealedVerifies` excepts a flow whose references failed after it was written
  (`capture-run.ts:732`: it is in the bundle and counted as failed) and a staging
  directory with another attempt's files (line 634).
- `ReadyIsClosed` excepts truncated walks and bundles with flows taken over from
  an earlier attempt, which seed no walk: `archyImportableYaml`
  (`bundle-writer.ts:389`) counts only what the walk met.
- `CarriesTheRest` excepts a flow whose load failed, which leaves the bundle,
  against the comment at `change-detection-io.ts:644`, and runs overtaken between
  their look at the bundle (line 656) and their lock. It also excepts, as `unread`,
  what the code drops without a word: previous flows whose files cannot be read
  (lines 167-169) and the whole bundle when it cannot be listed (206-213), against
  the "conservative direction" of its comments. For the same reason a manifest that
  cannot be read lets a migration bundle be replaced by a context one (195-204).
  `GraphCovers` excepts bundles after an unreadable graph, which counts as empty
  (lines 186-193, 857) and is reported by nothing.
- `SkippedIsCurrent` speaks of the label when the definition was loaded as a draft:
  without a published version, the definition and its number come from two requests
  (`platform-source-provider.ts:354-355`), and a draft saved in between is filed
  under the newer number. Published then, it passes for current for ever, against
  "a real change is never missed" (`change-detection-io.ts:48-49`).
- `NothingForgotten` excepts a profile that could not be read during a snapshot:
  it is dropped without a word (`profile-store.ts:257`), and a directory that cannot
  be listed loses them all (lines 248-252). A crash between the two renames leaves
  all profiles in an archive nobody restores.
- `NoOrphanedSecret` excepts commands that were reported to have failed, the
  removal of a corrupt profile, which says there was none and keeps its secret, and
  profiles on which one command gave a credential while another removed the profile
  (`crossed`): set-secret stores it after its look at the profile
  (`profile.ts:497-516`) without a lock, and the removal (447-478) may come between.
- `NothingStaleIsDocumented` says that a run which finds its own bundle documents
  all of its plan; when another run's bundle is there it documents that one
  (`archivist-port.ts:574`), of which the property says only that it is not stale.
- `SealHolds` is about what the seal covers, `Covered`. The assets' bytes, the
  manifest's readiness and policy, what canonicalization takes out (line endings,
  Unicode form, the order of arrays, volatile keys: `canonical.ts:11-22`) and files
  that flow.json does not name change without a finding, against the "unmodified" of
  `bundle-verifier.ts:285-286`.
- `EverythingRepresented` is about what the walks look at. GUIDs in an array or
  beside a `config` (`extract-edges.ts:327-346`), against its comment "any GUID-shaped
  value found anywhere" (367-374); branches that are no records (line 233); the
  references of an object that has a tracking id and no GUID (469-470); and lists that are no
  arrays (`extract-nodes.ts:223`, `237`) are dropped without a warning.
- `BehaviourIsReviewed` is about what a snapshot has: arrays of objects, deeper
  nesting and what is beyond the bounds of a text or of the fields are no settings
  (`extract-settings.ts:188-193`, `242-259`, `320-332`), and the diff tool passes
  constants for name, type, security and languages (`diff-flow.ts:164-174`). A change
  of these alone gives an empty diff.
- `BudgetOverrunBounded`: the request budget is checked before the wait for a
  token and charged after it (`client.ts:232-247`), so it can be overrun by one
  request per concurrent caller.
- `PagedReadsAreExact` is about listings that were not disturbed: a flow deleted
  between two pages makes the listing skip another. A service that repeats a page
  ends it with a log line only.
- `StaleBuildWasReported`: after a failed install the next run says "Already up
  to date" (`update.ts:134-136`); the earlier report is all there is.

Changing the constants of a configuration shows more. `AtomicPromotion`:
`RecoveryMode = "never"`, which is what the repository does (nothing outside the
tests calls `recoverPendingPromotions`), violates `RestoredWhenQuiet`, which
`run-store.ts:227` promises; `"late"` lets recovery drop the archive that holds
the newest content (`atomic.ts:327`); `rollback` in `CanFault` leaves the previous
output in its archive for good (`atomic.ts:200`). `FileLock`: more grants with
`Releases = TRUE` let a release between a contender's read and its removal grant
the lock twice (`lock.ts:259`).

Seen while translating, without a property of its own:

- `archivist-port.ts:606` counts the capture's `RESOURCE_WALK_SKIPPED`, which
  `capture-run.ts:356-359` says must not turn a clean run into
  `completed_with_warnings`;
- a capture whose last save fails after the promotion reports failed although
  the bundle is replaced (`capture-run.ts:842`, `change-detection-io.ts:883`);
- a carried or fresh flow of an incremental capture keeps only id, type and
  format in flow.json, so its division is lost and every later run regenerates it;
- a start container that an edge leads back to is no entry node and is reported
  unreachable (`normalize.ts:276-284`, `findings.ts:192`); a change of the start
  container alone gives an empty diff;
- `diff.ts:264-268` compares operands in an order `extract-settings.ts:126` does
  not keep; changed `promptRefs` are reported twice;
- the list of changes is sorted by category before it is cut at 50
  (`diff.ts:945`, `diff-flow.ts:74`), so that what is cut first are the changes of
  variables, the security-sensitive ones among them; the line that says BLOCKED is
  never cut;
- a fact about an ordinary node or edge that cites its own evidence is rejected,
  because the pack has that evidence under the flow (`evidence-pack.ts:404-428`);
- a journey that ends exactly at the depth limit is called truncated
  (`journeys.ts:202-219`).

## 5. Proofs

`tlapm` proves every obligation of the eight `*_proofs` modules. A theorem holds
for every value of the constants that the named assumptions of its module allow
(`ASSUME` in the module and in those it extends; TLC evaluates each for the
instances); what else it assumes is in its statement.

| Theorem | Establishes |
|---|---|
| `AtomicPromotion_proofs!TypeCorrect` | `Spec => []TypeOK`, from the assumptions on the constants only |
| `…!LastGoodIsKept`, `…!NeverAMix` | under `Discipline`: the last good content stays on disk; the target is absent or holds exactly it |
| `…!NothingIsOverwritten` | with `RecoveryMode = "never"`, locked or not: `LastGoodKept` for any number of concurrent writers |
| `…!RecoveryRestores` | with recovery before each use: content back when quiet |
| `…!Refinement` | what a reader sees implements `TargetContract` |
| `DocRun_proofs!RunsStayInStep` | `Spec => []DocInv`: record, manifest, place in `executeRun` and the port's maps fit together |
| `…!FailedRunsTouchNothing` | `Spec => []UnfinishedTouchedNothing` |
| `…!ManifestsFollowTheMachine` | `Spec => ManifestFollowsMachine` |
| `CaptureRun_proofs!WalkTypeCorrect`, `…!WalkIsClosed` | `WalkSpec => [](walk \in Walks)`; `WalkSpec => []ClosedUnlessTruncated`, for every shape of references, all seeds and every budget |
| `…!CaptureTypeCorrect`, `…!OneCaptureAtATime` | types; a capture under way is the only holder of the lock |
| `…!SealIsVerified` | `Spec => []SealedVerifies` |
| `…!ImportableIsClosed` | `Spec => []ReadyIsClosed` |
| `IncrementalUpdate_proofs!UpdatesAreConsistent` | `Spec => []UpdateInv` |
| `…!NoChangeIsMissed`, `…!GraphCoversTheBundle` | `Spec => []SkippedIsCurrent`, `Spec => []GraphCovers` |
| `…!NothingIsLeftOut` | `Spec => CarriesTheRest` |
| `Narration_proofs!TypeCorrect` | `Spec => []TypeOK`, with at most one holder of the journal's lock |
| `…!OthersAreKept`, `…!CompletedIsKept` | `Spec => RecordKeepsOthers`, `Spec => []CompletedHasSections` |
| `…!NothingAcceptedIsLost` | `Spec => []AcceptedIsNotLost` |
| `MCFlow_proofs!NothingIsLeftOutOfASnapshot` | `FlowSpec => []EverythingRepresented` |
| `…!ARegressionBlocks`, `…!BehaviourIsNeverPassedOver` | `FlowSpec => []CoverageRegressionBlocks`, `FlowSpec => []BehaviourIsReviewed` |
| `…!MovingIsNoChange` | `FlowSpec => []MovementIsNoChange` |
| `…!WalksAreExact`, `…!NoJourneyIsMadeUp` | `FlowSpec => []AnalysisIsExact`, `FlowSpec => []JourneysAreHonest`, for every graph over any finite set of nodes |
| `MCRecords_proofs!DocumentsTypeCorrect` | `Spec => []TypeOK` |
| `…!UndisturbedRunsDropNothing`, `…!UndisturbedRunsKeepOthers` | `Spec => []UndisturbedDropsNothing`, `Spec => UndisturbedKeepsOthers` |
| `…!LastGoodStays` | `RecordsSpec => []LastGoodKept`: `NothingIsOverwritten`, for the two writers of the documents |
| `…!VerificationIsOfTheContent` | `RecordsSpec => []SealHolds` |
| `…!OnlyGroundedClaimsAreKept` | `RecordsSpec => []NarrationIsGrounded` |
| `…!FlowsOfTheRecords` | `RecordsSpec => FlowSpec`, with what is proved from it |
| `MCServices_proofs!NoCredentialIsOrphaned`, `…!NoProfileIsForgotten` | `ServicesSpec => []NoOrphanedSecret`, `ServicesSpec => NothingForgotten` |
| `…!OverrunIsBounded` | `ServicesSpec => []BudgetOverrunBounded` |
| `…!PagedReadsYieldAll` | `ServicesSpec => []PagedReadsAreExact`, if the limit of pages covers the tenant |
| `…!ReferencesAreOfTheLoaded` | `ServicesSpec => ReferencesOfTheLoaded` |
| `…!NothingDocumentedIsStale` | `ServicesSpec => []NothingStaleIsDocumented` |
| `…!StaleBuildsAreReported` | `ServicesSpec => []StaleBuildWasReported` |
| `…!LockTypeCorrect` | `Spec => []TypeOK` of `FileLock`, which that module extends too |
| `…!LiveLocksStay` | `Spec => LiveLockStays` of `FileLock`, with releases, expiry and crashes |

*AtomicPromotion.* `Discipline` is one writer at a time and either no recovery at
all (the repository as it is) or recovery before each use with a rollback that
does not fail. `LastGoodKept` is not inductive by itself: that `Archive` does not
overwrite the only copy depends on what earlier attempts left in the same place.
`IInv` adds who may be active (`Alone`), what a staging area may hold
(`StagingClean`), where the content is at each step (`Progress`), and that a
vacant target always has its pending entry, staging area and archive
(`Recoverable`). Without `Discipline` the conclusions do
not all hold: see section 4. One of them does: writers that overlap (the document
set's, finding 2) can mix up whose output is live, but delete no only copy.
`SharedInv` says why: ids are used by one writer at a time (`OwnIds`), what a
writer is to rename into the target never was there (`Unspent`), so that the
archive it then removes does not hold what was renamed there last.

*FileLock* (in `MCServices_proofs`). Mutual exclusion does not hold (finding 1).
What does, with releases, expiry and crashes anywhere, is `LiveLocksStay`: a live
lock file goes only by its holder's release or by a step of somebody whose
knowledge of the key is `Outdated`. It needs that whoever is about to clear the
lock read no live record (`Judged`).

*DocRun.* `DocInv` ties a run's position in `Program` to the state of its machine
and of its manifest, the one it is saving included (`RunInv`), and a minted run
to the call that minted it until the first save (`OneStarter`). Machine and
manifest differ only while a save is under way, and then by one step of the
machine. `UnfinishedTouchedNothing` is not inductive: it needs that a run whose
documents are promoted has only its end left to record, as completed
(`Documented`); if that save fails the manifest stays where it is.

*CaptureRun.* `Exclusive` comes first: the rest speaks of the one capture under
way. `Swept` says that files are left in staging only by a crash or a second
failure, `Staged` that what is staged is what the seal will cover unless such
files or a failed flow are there, `Walked` that the walk started from the
references of all the run wrote and, with `WalkInv`, has resolved them when the
resources are written. `WalkInv` adds `Accounted` to the types of the walk:
unless it is truncated, every seed and every reference of a resolved node is
resolved, in the batch or in the worklist (`Known`), and a walk is done only with
both empty.

*IncrementalUpdate.* `SkippedIsCurrent` needs to know how old each view is:
`Behind` says that no listing and no bundle is ahead of the organization, across
full captures that may pair a definition with an older listing, and that only a
draft may be another definition than its number says (`Recorded`);
`Held` says who may replace the bundle meanwhile. `RunInv` follows a run from its
look at the bundle (before the lock, and possibly without seeing its flows:
`Looked`) to what it carries forward, whose resources
the merged graph has unless a gap is reported.

*Narration.* No assumption beyond those on the constants. `RecordHoldsLock` says
that a recording run holds the lock and that the journal is, or was when moved
aside, what the run read, if it could read it: that gives `OthersAreKept`. `CompletedHasSections` is
not inductive: sections that are there can be moved aside by a second run that
saves the same job. The invariant is `Kept`: whatever any run narrated is on disk
or `Owed` by a run, and a run stops owing a job only when it fills its sections'
place or passes the job in the fold. That needs the order of the two loops
(`QueueOrder`: no outcome yet for what is still to be visited, every job of the
batch visited again in the fold) and that a journal only calls completed what
was narrated (`Attested`), the journals moved aside included. `AcceptedIsNotLost`
adds an account of each job the fold has passed (`Folded`), and that empty sections
come from a narration that accepted nothing (`EmptyIsNarrated`).

*The services.* The theorems are about `MCServices`, whose behaviours are of one
component at a time, so each invariant is preserved by its own component's steps.
`ProfileInv`: the write lock is held through the snapshot and both renames
(`Serialized`), a process is about to write all that the store holds but what it
removes or could not read (`Snapped`), and a credential without a profile is
accounted for, also half way through a command (`Credited`), unless two commands
crossed on its profile (`Apart`). `Charged`: what has
been charged and what is past the check but not yet charged overruns together by
at most one less than the callers. `PlanInv`: what is published, what the one capture under way
has read and what is in the shared bundle has all been published during, or when it
started, every run that may yet document it (`AllSeen`); and each flow of a plan is
read, pending, reported or deleted, in the run and in the bundle of that run
(`AllCovered`). `Owing`: a report is owed
whenever tree and build differ outside the command. `ProviderInv`: a cache has one
entry for a flow, and the flows of all later entries came in since (`Fits`); so
the entry that goes has seen as many others as the cache holds (`OldestIsOld`),
and what was loaded more recently is still there (`Recent`). A lookup that misses
does not make a flow recent, for it may fetch a newer version than the one that
was loaded: only a load empties a flow's `since`.

`ListInv`: an undisturbed listing has yielded the tenant's first pages, in order
(`ReadSoFar`), and stops where the tenant does. With `MaxPages` pages too few the
code logs a line and yields what it has, so the theorem says that they are enough.

*What is made of captured flows.* `MCRecords` holds `DocumentSet`, two writers of
`AtomicPromotion`, `BundleSeal`, `Claims` and `MCFlow` side by side; again each
invariant is preserved by its own component's steps.

- `DocumentInv` follows an undisturbed run: bundle and `source` are what it
  discovered but for what a failing listing hid (`FromCapture`), `existing` is what
  it moved out of the way but for what it could not read (`FromDocuments`). Both speak of `~disturbed` runs only; for the others finding 2
  shows what happens.
- `LastGoodStays` proves nothing anew: it cites `AtomicPromotion_proofs` through an
  `INSTANCE` with `MCRecords`' substitution.
- `SealInv` keeps apart what was written, what was sealed and what has become of the
  copy. As long as nothing is sealed the disk holds the record (`Holds`). Afterwards
  `Copied` says what damage cannot do: nothing is there that was not written, and the
  manifest keeps its hash or cannot be read. The rest is that the two ways of building
  the hashed record, from memory and from the files, agree exactly on the copies
  `SealHolds` describes.
- `ClaimsInv`: a pack cites only what the snapshot has and what bears on it
  (`Supported`). The budgets need that `validateNarration`'s fold over the claims
  never adds one past a limit, and that lengths add up over the sections. The
  snapshot is `MCRecords`' (three nodes, limits of one in the pack); sections, claims,
  attempts and the draft's budgets are arbitrary.

*MCFlow.* The configurations are those that any number of edits makes of its flow.
`DiffInv` says what edits leave alone (`Shape`: what stands in the lists of
containers, actions and choices) and that an answer is about the two
configurations as they are. `Sized` adds that all they have is finite, so that the
list of changes is; `Legible`, what an object may refer to; `Original`, of the
first version, that each object is in one list. The rest is about operators: each
part of a configuration shows in its snapshot, each difference of two snapshots in
a change of a category that the review classifies, and what the cut list leaves
out in its count. An object that was moved keeps the identity read off itself
(`Home` is where it stands), so nothing is a change but the order.

Graphs are arbitrary over any finite set of nodes. `AnalysisIsExact` states
reachability as the least set closed under the edges, so that an invariant need
not speak of paths: `Reached` says that every closed set around the entry nodes
contains what was visited, and that what a visited node leads to is visited or the
node is still queued. The invariant of Tarjan's algorithm is `Walked`: indices are
distinct and ascend along both stacks (`Numbered`, `Stacked`); a node on the stack
leads to every node above it and to a frame at or below it (`Connected`), and its
lowlink is the index of a node on the stack that it leads to, no higher than any
that was seen from what the frame governs (`Linked`); a component is a class of
nodes that lead to each other, and what its nodes lead to is in components too
(`Parted`). A frame that returns with its own index as lowlink therefore has its
whole class above it, and nothing else. `Told` says that every path on the stack
is a way from an entry (`Way`), and, unless the walk was cut short, that each node
a call can get to is on a journey or a path, or follows the end of a path still to
be extended (`Covered`, `Pending`); with the stack empty that is the completeness
of the journeys.

*Induction.* The library's induction theorems take an operator as a parameter, which
the provers at hand cannot instantiate. The lemma `Least` stands in for them: a
nonempty set of naturals has a least element, so an induction becomes a set of
counterexamples and the contradiction at its least one. What is proved that way:
flattened lists, sets listed in an order, folds over a draft, lengths that add up,
the page a listing has got to. The models use functions over finite sets and
`FlattenSeq`, never a RECURSIVE operator.

Every property was checked by TLC before it was proved. Only model-checked is
liveness (`RunEnds`, `CancelIsHonoured`, `EveryCallerServed`): fairness and
ENABLED are out of this prover's reach. The violated runs stay what they are: the
properties are false of the code, and the theorems nearest to them
(`LiveLocksStay`, `UndisturbedRunsKeepOthers`, `NothingDocumentedIsStale`) say what
remains true.

## 6. Assumptions of the models

- One file-system call is one atomic step; a rename is atomic. A rename that is
  retried (`withTransientRetry`) is one step that succeeds or fails for good.
- JavaScript runs one callback at a time; a step of `DocRun`, `CaptureRun`,
  `IncrementalUpdate` or `PlatformClient` is what happens between two awaits.
- `DocRun`: each run's manifest has one writer, its own executor, so the store's
  lock is never contended. Each process has its own maps; the model has one
  process and its restarts. A save that fails leaves the old manifest (what
  happens when the archive's rename fails too is in `AtomicPromotion`).
- `DocumentSet`: a flow's directory is read in one step; a bundle's flow has one
  version; names do not collide. The capture lock expires only for a dead run;
  a capture longer than the 30-minute TTL is left to `FileLock`. A directory
  that is absent and one that is empty are the same to both readers.
- `Narration`: a job's evidence pack does not change between the runs of an
  instance (a changed pack is another job); each run's batch has no job twice; a
  journal that is absent, unreadable or empty reads the same. Its failing read is
  a fault of the record's own read; the queue's first read may also fail, and then
  narrates what it need not.
- `CaptureRun`: flows are loaded one after the other, as the code does; a manifest
  is its state and the statuses of its flows.
- `Plans`: the capture lock outlives its capture (a longer one is left to
  `FileLock`); the run's own states and saves are in `DocRun`.
- `IncrementalUpdate`: a definition refers to one resource of its own; a run's
  scope is the whole organization or one flow.
- `ProfileStore`: different ids have different files. The code's file name is a
  cleaned-up id (`safeSegment`), so that two ids that differ in a trailing hyphen
  only share a file; such ids are left out (`ServicesAssumption`).
- The flows of an organization, the callers of a client, the flows of a plan, the
  files of a bundle and the nodes of a graph are finitely many; a proof that counts
  them says so (`CaptureAssumption`, `ServicesAssumption`, `BundleAssumption`,
  `FlowAssumption`).
- What is lost or cannot be read is none of the values there are
  (`RecordsAssumption`, `BundleAssumption`).
- `Claims`: one of a pack's items is one record of evidence and one text. `fact`
  stands for the kinds `fact` and `derived`, which are validated alike.
- Hashes do not collide: equal hashes are equal values.
- Sorting by an id is the one order TLC has of a set; no property depends on it.
- Bounds (`Max…`, `Expiry`, `Lifetimes`) are constants and appear in guards only,
  except where they are the code's own limits (`MaxRequests`, `MaxRetries`,
  `MaxListItems`, `PageSize`, `MaxRows`, the limits of `Claims`).

## 7. Not modelled

- Text in, text out: the documentation renderers, diagrams, the wording of
  prompts, redaction, error texts, the MCP envelope, the command line's
  arguments. They keep no state between calls, and a model of them would be a
  copy of their string handling.
- Interfaces to other systems: the operating system's secret stores, Playwright,
  the Genesys endpoints. Their outcomes are nondeterministic in the models.
- Read-only calls of the port: listFlows (which pages by offset over a list it
  discovers anew), inspectFlow, getRun, readResource, checkConnection.
- `draft-drift.ts`, which nothing outside its tests calls.
- Counters and texts of the manifests; the verification of a draft's unknowns.

`PROJECT.json` lists each part with its reason, and under "hazards" the main
things that are hard to test, with the properties that cover them. Hazards of the
code that no property covers:

- A writer waits 5 s for the lock (`run-store.ts:211`), exactly the age at which a
  reclaim mutex counts as abandoned: the models reduce time to a record going
  stale.
- A holder that outlives its TTL is reclaimed, and its own release then removes the
  next holder's file (`lock.ts:286`): `LiveLockStays` names it.
- What section 4 lists as exceptions of `RecordKeepsOthers`, `SealedVerifies`,
  `ReadyIsClosed`, `SkippedIsCurrent`, `CarriesTheRest`, `GraphCovers`,
  `NothingForgotten`, `NoOrphanedSecret`, `RunEnds` and `RestoredWhenQuiet` is modelled
  and excepted by name: the hazards say so, with no property.
- A second `startRun` may load the manifest while a save has renamed it away
  (`archivist-port.ts:907`) and mints a second run: `DocRun` models it, and each of
  the two runs still ends and follows the machine.
- A cancellation recorded after `executeRun`'s finally leaves a flag in the map
  for ever (`archivist-port.ts:950`): a leak that nothing reads.
- A repeated start after the plan expired is refused although its run exists
  (`archivist-port.ts:894`): `Plans` models it; no document promises otherwise.
- A planned flow that discovery no longer lists is left out of the capture without
  a warning (`capture-run.ts:608`): `DocumentSet` models it; no document says that
  it is reported.
- The narration queue decides what to skip from one load (`work-queue.ts:102`); what
  another run completes later is narrated twice: the journal asks for one
  narration more, which the models allow.
- Concurrent callers share one token request (`token.ts:150`): `PlatformClient` has
  the sharing; a property of what each caller gets would restate it.
- Flows may be created or deleted between two pages of a listing
  (`platform-source-provider.ts:217`): `FlowListing` models it, and
  `PagedReadsAreExact` speaks of the listings that were not disturbed.

## 8. State of the plan

Done: every module of section 2 with its runs, and proofs of all the safety
properties of the passing runs. The modules were written in the order of section 2:
the primitives and the pipeline first, what is made of a captured flow and the
services around it after them.

Not done: that an undisturbed documentation run implements the promotion of
`AtomicPromotion` step by step (both are proved on their own, and `DocumentSet`
takes the promotion to the renames that a concurrent reader can tell apart); and
liveness, which stays with TLC.
