------------------------------- MODULE MCServices -------------------------------
(***************************************************************************)
(* The components around the pipeline, side by side: a behaviour is one    *)
(* component's, chosen at the start.                                       *)
(***************************************************************************)
EXTENDS Integers, FiniteSets, TLC

CONSTANTS
  None,
  Writers, Ids, ProfileFiles, Clients, MaxCommands, MaxFaults,
  Callers, MaxRequests, MaxRetries, EarlyRefresh, Lifetimes, MaxTime, MaxCalls,
  Flows, PageSize, MaxPages, MaxRows, MaxChanges,
  Cached, CacheLimit, Languages, MaxPublished, MaxLoads,
  MaxCommit, MaxRuns, MaxEdits,
  Planned, Unpinned, PolicyMax, Expiry, MaxVersion, MaxClock, MaxMoves, MaxPlans

VARIABLES subject,
  dir, aside, secrets, keys, writeLock, command, cmd, snap, reported, lost, crossed, commands, faults,
  now, cached, inFlight, requestCount, caller, call, attempt, token, uri, result,
  issued, calls,
  server, tenant, listing, undisturbed, table, rows, changes,
  version, configs, selves, inUse, last, since, answer, prompt, published, loads,
  upstream, tracking, head, ahead, dirty, remoteOk, installed, built, update, check, shown,
  said, owed, runs, edits,
  offered, clock, request, plans, planCache, planRuns, planBundle, moves

\* The ids have files of their own.
MCFileOf == CHOOSE f \in [Ids -> ProfileFiles] : \A i, j \in Ids : f[i] = f[j] => i = j
\* Some flows share a language, some do not.
MCLanguageOf == CHOOSE f \in [Cached -> Languages] : {f[x] : x \in Cached} = Languages

\* Two selections, one of a flow at a version, and a tenant with an unpublished flow.
First == CHOOSE f \in Planned : TRUE
Second == CHOOSE f \in Planned \ {First} : TRUE
MCSelections == {[f \in {First} |-> MaxVersion], [f \in {First, Second} |-> Unpinned]}
MCTenants == {[f \in Planned |-> 1], [f \in Planned |-> IF f = Second THEN 0 ELSE 1]}

Profiles == [id : Ids \cup {None}, client : Clients \cup {None}]

ASSUME ServicesAssumption ==
  /\ None \notin Clients /\ Clients # {} /\ None \notin Writers
  /\ \A fs \in SUBSET ProfileFiles : None \notin [fs -> Profiles]
  /\ \A i, j \in Ids : MCFileOf[i] = MCFileOf[j] => i = j
  /\ MCFileOf \in [Ids -> ProfileFiles]
  /\ MCLanguageOf \in [Cached -> Languages]
  /\ PageSize \in Nat \ {0} /\ CacheLimit \in Nat \ {0}
  /\ IsFiniteSet(Flows) /\ MaxPages \in Nat \ {0} /\ MaxRows \in Nat
  /\ None \notin Nat \X Flows \X Flows
  /\ \A l \in Lifetimes : l > 0
  /\ IsFiniteSet(Callers) /\ Callers # {} /\ MaxRequests \in Nat
  /\ IsFiniteSet(Planned) /\ PolicyMax \in Nat /\ MaxVersion \in Nat
  /\ Cardinality(Planned) > 1 /\ MaxVersion > 0 /\ Unpinned \notin 0..MaxVersion

P == INSTANCE ProfileStore WITH Procs <- Writers, Files <- ProfileFiles, FileOf <- MCFileOf,
       lock <- writeLock, pc <- command
C == INSTANCE PlatformClient WITH pc <- caller
L == INSTANCE FlowListing
S == INSTANCE SourceProvider WITH Flows <- Cached, LanguageOf <- MCLanguageOf,
       MaxChanges <- MaxPublished, changes <- published
U == INSTANCE SelfUpdate WITH pc <- update
D == INSTANCE Plans WITH Flows <- Planned, Selections <- MCSelections, Tenants <- MCTenants,
       MaxTime <- MaxClock, MaxChanges <- MaxMoves,
       tenant <- offered, time <- clock, runs <- planRuns, bundle <- planBundle, changes <- moves

profiles == <<dir, aside, secrets, keys, writeLock, command, cmd, snap, reported, lost, crossed, commands, faults>>
client == <<now, cached, inFlight, requestCount, caller, call, attempt, token, uri,
            result, issued, calls>>
lists == <<server, tenant, listing, undisturbed, table, rows, changes>>
provider == <<version, configs, selves, inUse, last, since, answer, prompt, published, loads>>
self == <<upstream, tracking, head, ahead, dirty, remoteOk, installed, built, update, check,
          shown, said, owed, runs, edits>>
planning == <<offered, clock, request, plans, planCache, planRuns, planBundle, moves>>
services == <<subject, profiles, client, lists, provider, self, planning>>

ServicesInit ==
  /\ subject \in {"profiles", "client", "listing", "provider", "update", "plans"}
  /\ P!Init /\ (subject # "profiles" => DOMAIN dir.files = {})
  /\ L!Init /\ (subject # "listing" => server = "silent" /\ tenant = <<>> /\ table = 0)
  /\ U!Init /\ (subject # "update" => remoteOk)
  /\ D!Init /\ (subject # "plans" => offered = [f \in Planned |-> 1])
  /\ C!Init /\ S!Init

ServicesNext ==
  /\ UNCHANGED subject
  /\ \/ subject = "profiles" /\ P!Next /\ UNCHANGED <<client, lists, provider, self, planning>>
     \/ subject = "client"   /\ C!Next /\ UNCHANGED <<profiles, lists, provider, self, planning>>
     \/ subject = "listing"  /\ L!Next /\ UNCHANGED <<profiles, client, provider, self, planning>>
     \/ subject = "provider" /\ S!Next /\ UNCHANGED <<profiles, client, lists, self, planning>>
     \/ subject = "update"   /\ U!Next /\ UNCHANGED <<profiles, client, lists, provider, planning>>
     \/ subject = "plans"    /\ D!Next /\ UNCHANGED <<profiles, client, lists, provider, self>>

ServicesSpec == ServicesInit /\ [][ServicesNext]_services

-----------------------------------------------------------------------------
(* Each component's properties, as its module states them *)

\* A secret or a key without a profile is there only after a failure or crossing commands.
NoOrphanedSecret == P!NoOrphanedSecret
\* No write of one profile forgets another's.
NothingForgotten == P!NothingForgotten

\* The request budget is overrun by no more than one request for each other caller.
BudgetOverrunBounded == C!BudgetOverrunBounded

\* An undisturbed listing is exact; a data table's rows are captured whole.
PagedReadsAreExact == L!PagedReadsAreExact

\* A flow's references are those of the version that was loaded.
ReferencesOfTheLoaded == S!ReferencesOfTheLoaded

\* A tree that is not what is installed and built is so after a reported failure.
StaleBuildWasReported == U!StaleBuildWasReported
\* No run documents what was out of date before it started.
NothingStaleIsDocumented == D!NothingStaleIsDocumented
\* docs/03-mcp-contract.md:181 of a plan that is stale when its run captures.
PlannedVersionIsDocumented == D!PlannedVersionIsDocumented

=============================================================================
