------------------------------- MODULE DocRun -------------------------------
(***************************************************************************)
(* The life of the runs of one plan: startRun, cancelRun and executeRun of *)
(* packages/composition/src/archivist-port.ts over the run store of        *)
(* run-store.ts, in one server process that may crash and be restarted.    *)
(*                                                                         *)
(* JavaScript runs one callback at a time, so a step is what happens       *)
(* between two awaits.  Saving a manifest is a promote (AtomicPromotion):  *)
(* the old manifest vanishes, then the new one appears; a save that fails  *)
(* leaves the old one.  Only the run's own executor saves it, so the run   *)
(* store's lock is never contended here.                                   *)
(***************************************************************************)
EXTENDS RunStateMachine, Naturals, Sequences

CONSTANTS
  Calls,             \* concurrent calls of startRun with the same plan
  MaxRuns,           \* bound on the runs ever minted
  MaxFaults,         \* bound on the manifest saves that fail
  MaxCrashes,        \* bound on the crashes of the server
  MaxCancels,        \* bound on the calls of cancelRun
  ProfileMayVanish   \* TRUE when profileStore.get may return null for a while

ASSUME DocRunAssumption ==
  /\ MaxRuns \in Nat /\ MaxFaults \in Nat /\ MaxCrashes \in Nat
  /\ MaxCancels \in Nat /\ ProfileMayVanish \in BOOLEAN

Runs == 1..MaxRuns

\* executeRun's body, one entry per awaited phase.
Program ==
  <<"profile", "ENQUEUE", "checkpoint", "BEGIN_EXTRACTING", "capture",
    "checkpoint", "BEGIN_NORMALIZING", "BEGIN_ANALYZING", "BEGIN_RENDERING",
    "checkpoint", "BEGIN_VALIDATING", "checkpoint", "BEGIN_PROMOTING",
    "document", "finish">>
Returned == Len(Program) + 1
LastCheckpoint == 12

\* What of a manifest matters: the run's state, and whether it carries RUN_FAILED.
ManifestOf(state, failed) == [state |-> state, failed |-> failed]
NoManifest == ManifestOf("none", FALSE)

VARIABLES
  runOf,       \* runIdByPlanId for the plan, 0 when unset
  planCached,  \* does planCache still hold the plan?
  cancel,      \* the runs whose cancellationRequested flag is set
  calls,       \* per startRun call: its next step and its run
  cancelling,  \* runs a cancelRun has read as not terminal, flag still unset
  manifest,    \* per run: the manifest last saved
  visible,     \* per run: can its manifest be read?
  at,          \* per run: program counter of executeRun, 0 before it
  io,          \* per run: "none", or the next rename of a save in progress
  saving,      \* per run: the manifest being saved
  leaving,     \* per run: does executeRun return after this save?
  machine,     \* per run: executeRun's machine
  documented,  \* the runs whose documents were promoted
  orphaned,    \* runs nothing executes any more although no one recorded an end
  minted, faults, crashes, cancels

vars == <<runOf, planCached, cancel, calls, cancelling, manifest, visible, at,
          io, saving, leaving, machine, documented, orphaned, minted, faults, crashes, cancels>>
runVars == <<manifest, visible, at, io, saving, leaving, machine, documented, orphaned>>
memory == <<runOf, planCached, cancel, calls, cancelling>>

Init ==
  /\ runOf = 0 /\ planCached = TRUE /\ cancel = {} /\ cancelling = {}
  /\ calls = [c \in Calls |-> [step |-> "idle", run |-> 0]]
  /\ manifest = [r \in Runs |-> NoManifest]
  /\ visible = [r \in Runs |-> FALSE]
  /\ at = [r \in Runs |-> 0]
  /\ io = [r \in Runs |-> "none"]
  /\ saving = [r \in Runs |-> NoManifest]
  /\ leaving = [r \in Runs |-> "no"]
  /\ machine = [r \in Runs |-> InitialMachine]
  /\ documented = {} /\ orphaned = {}
  /\ minted = 0 /\ faults = 0 /\ crashes = 0 /\ cancels = 0

-----------------------------------------------------------------------------
(* Saving a manifest *)

\* persist: `exit` says what happens after the save: "no" goes on, "return"
\* returns, "catch" is the save of the catch branch, whose failure is swallowed.
BeginSave(r, state, failed, exit) ==
  /\ saving' = [saving EXCEPT ![r] = ManifestOf(state, failed)]
  /\ leaving' = [leaving EXCEPT ![r] = exit]
  /\ io' = [io EXCEPT ![r] = "vacate"]

\* RunStore.load: a manifest that promote has moved out of the way is absent.
Load(r) == IF visible[r] THEN manifest[r] ELSE NoManifest

\* promote's first rename.
SaveVacates(r) ==
  /\ io[r] = "vacate"
  /\ visible' = [visible EXCEPT ![r] = FALSE]
  /\ io' = [io EXCEPT ![r] = "fill"]
  /\ UNCHANGED <<memory, manifest, at, saving, leaving, machine, documented,
                 orphaned, minted, faults, crashes, cancels>>

\* executeRun is over: its finally drops the cancellation flag.
Finish(r) ==
  /\ at' = [at EXCEPT ![r] = Returned]
  /\ cancel' = cancel \ {r}

\* promote's second rename, and what follows the save.
SaveFills(r) ==
  /\ io[r] = "fill"
  /\ manifest' = [manifest EXCEPT ![r] = saving[r]]
  /\ visible' = [visible EXCEPT ![r] = TRUE]
  /\ io' = [io EXCEPT ![r] = "none"]
  /\ IF leaving[r] = "no"
       THEN at' = [at EXCEPT ![r] = @ + 1] /\ UNCHANGED cancel
       ELSE Finish(r)
  /\ UNCHANGED <<runOf, planCached, calls, cancelling, saving, leaving, machine,
                 documented, orphaned, minted, faults, crashes, cancels>>

\* Mutant: the catch forgets that the machine may be terminal already.
Catch_Unconditional(r) ==
  /\ machine' = [machine EXCEPT ![r].runState = "failed"]
  /\ BeginSave(r, "failed", TRUE, "catch")

\* executeRun's catch: FAIL unless the machine is already terminal, and one
\* more save, with the RUN_FAILED error.
Catch(r) ==
  LET m == IF Legal(machine[r], "FAIL") THEN Transition(machine[r], "FAIL")
                                        ELSE machine[r] IN
  /\ machine' = [machine EXCEPT ![r] = m]
  /\ BeginSave(r, m.runState, TRUE, "catch")

\* Mutant: a save that fails is ignored and the run goes on.
SaveFails_Ignored(r) ==
  /\ io[r] # "none" /\ faults < MaxFaults
  /\ faults' = faults + 1
  /\ visible' = [visible EXCEPT ![r] = manifest[r] # NoManifest]
  /\ io' = [io EXCEPT ![r] = "none"]
  /\ IF leaving[r] = "no"
       THEN at' = [at EXCEPT ![r] = @ + 1] /\ UNCHANGED cancel
       ELSE Finish(r)
  /\ UNCHANGED <<runOf, planCached, calls, cancelling, manifest, saving, leaving,
                 machine, documented, orphaned, minted, crashes, cancels>>

\* Mutant: a save that fails leaves executeRun without its catch branch.
SaveFails_Escapes(r) ==
  /\ io[r] # "none" /\ faults < MaxFaults
  /\ faults' = faults + 1
  /\ visible' = [visible EXCEPT ![r] = manifest[r] # NoManifest]
  /\ io' = [io EXCEPT ![r] = "none"]
  /\ Finish(r)
  /\ UNCHANGED <<runOf, planCached, calls, cancelling, manifest, saving, leaving,
                 machine, documented, orphaned, minted, crashes, cancels>>

\* A save throws.  startRun's own save rejects the call and the run is never
\* executed; the catch branch's is swallowed; any other one ends in the catch.
SaveFails(r) ==
  /\ io[r] # "none" /\ faults < MaxFaults
  /\ faults' = faults + 1
  /\ visible' = [visible EXCEPT ![r] = manifest[r] # NoManifest]
  /\ \/ /\ at[r] = 0 \/ leaving[r] = "catch"
        /\ io' = [io EXCEPT ![r] = "none"]
        /\ Finish(r)
        /\ orphaned' = orphaned \cup {r}
        /\ UNCHANGED <<saving, leaving, machine>>
     \/ /\ at[r] # 0 /\ leaving[r] # "catch"
        /\ Catch(r)
        /\ UNCHANGED <<at, cancel, orphaned>>
  /\ UNCHANGED <<runOf, planCached, calls, cancelling, manifest, documented, minted, crashes, cancels>>

-----------------------------------------------------------------------------
(* startRun and cancelRun *)

SetCall(c, step, r) == calls' = [calls EXCEPT ![c] = [step |-> step, run |-> r]]

\* A fresh run id; later calls for the plan find it from now on.
Mint(c) ==
  /\ minted < MaxRuns
  /\ minted' = minted + 1
  /\ runOf' = minted'
  /\ cancel' = cancel \ {minted'}
  /\ SetCall(c, "profile", minted')

\* startRun up to its first await: an unknown plan is rejected, a plan that
\* was started before is looked up, any other gets a new run.
StartRun(c) ==
  /\ calls[c].step = "idle"
  /\ \/ ~planCached /\ SetCall(c, "rejected", 0) /\ UNCHANGED <<runOf, cancel, minted>>
     \/ planCached /\ runOf # 0 /\ SetCall(c, "load", runOf)
        /\ UNCHANGED <<runOf, cancel, minted>>
     \/ planCached /\ runOf = 0 /\ Mint(c)
  /\ UNCHANGED <<planCached, cancelling, runVars, faults, crashes, cancels>>

\* The existing run's manifest is loaded once; if it cannot be read just now
\* the call falls through to a new run.
StartLoads(c) ==
  /\ calls[c].step = "load"
  /\ \/ Load(calls[c].run) # NoManifest /\ SetCall(c, "returned", calls[c].run)
        /\ UNCHANGED <<runOf, cancel, minted>>
     \/ Load(calls[c].run) = NoManifest /\ Mint(c)
  /\ UNCHANGED <<planCached, cancelling, runVars, faults, crashes, cancels>>

\* requireProfile, then the save of the 'planned' manifest.
StartProfile(c) ==
  LET r == calls[c].run IN
  /\ calls[c].step = "profile"
  /\ \/ SetCall(c, "saving", r) /\ BeginSave(r, "planned", FALSE, "no")
     \/ /\ ProfileMayVanish
        /\ SetCall(c, "rejected", 0)
        /\ UNCHANGED <<io, saving, leaving>>
  /\ UNCHANGED <<runOf, planCached, cancel, cancelling, manifest, visible, at,
                 machine, documented, orphaned, minted, faults, crashes, cancels>>

\* startRun returns, and executeRun goes on in the background.
StartReturns(c) ==
  LET r == calls[c].run IN
  /\ calls[c].step = "saving" /\ at[r] # 0
  /\ IF manifest[r] = NoManifest THEN SetCall(c, "rejected", 0) ELSE SetCall(c, "returned", r)
  /\ UNCHANGED <<runOf, planCached, cancel, cancelling, runVars, minted, faults, crashes, cancels>>

\* The load is repeated while the manifest is absent; giving up changes nothing.
LoadRunOrThrow(r) == Load(r) # NoManifest

\* cancelRun's load: a terminal run is left alone.
CancelLoads(r) ==
  /\ LoadRunOrThrow(r) /\ Load(r).state \notin TerminalStates
  /\ r \notin cancelling /\ cancels < MaxCancels
  /\ cancels' = cancels + 1
  /\ cancelling' = cancelling \cup {r}
  /\ UNCHANGED <<runOf, planCached, cancel, calls, runVars, minted, faults, crashes>>

\* cancelRun records the request.
CancelRecords(r) ==
  /\ r \in cancelling
  /\ cancelling' = cancelling \ {r}
  /\ cancel' = cancel \cup {r}
  /\ UNCHANGED <<runOf, planCached, calls, runVars, minted, faults, crashes, cancels>>

-----------------------------------------------------------------------------
(* executeRun *)

Ready(r, op) ==
  /\ at[r] \in DOMAIN Program /\ Program[at[r]] = op
  /\ io[r] = "none"

\* executeRun's requireProfile is outside its try block.
ExecuteProfile(r) ==
  /\ Ready(r, "profile")
  /\ \/ /\ at' = [at EXCEPT ![r] = @ + 1]
        /\ UNCHANGED orphaned
     \/ /\ ProfileMayVanish
        /\ at' = [at EXCEPT ![r] = Returned]
        /\ orphaned' = orphaned \cup {r}
  /\ UNCHANGED <<memory, manifest, visible, io, saving, leaving, machine,
                 documented, minted, faults, crashes, cancels>>

\* transition() followed by the save of the new state, or its throw.
Advance(r, event, exit) ==
  LET m == Transition(machine[r], event) IN
  IF Legal(machine[r], event)
    THEN machine' = [machine EXCEPT ![r] = m] /\ BeginSave(r, m.runState, FALSE, exit)
    ELSE Catch(r)

ExecuteAdvance(r) ==
  /\ \E event \in LinearEvents \ {"COMPLETE", "COMPLETE_WITH_WARNINGS"} :
       Ready(r, event) /\ Advance(r, event, "no")
  /\ UNCHANGED <<memory, manifest, visible, at, documented, orphaned, minted, faults, crashes, cancels>>

\* Mutant: the checkpoint does not look at the flag cancelRun has set.
ExecuteCheckpoint_Blind(r) ==
  LET n == Transition(machine[r], "CHECKPOINT") IN
  /\ Ready(r, "checkpoint")
  /\ machine' = [machine EXCEPT ![r] = n]
  /\ IF n.runState = machine[r].runState
       THEN at' = [at EXCEPT ![r] = @ + 1] /\ UNCHANGED <<io, saving, leaving>>
       ELSE BeginSave(r, n.runState, FALSE, "return") /\ UNCHANGED at
  /\ UNCHANGED <<memory, manifest, visible, documented, orphaned, minted, faults, crashes, cancels>>

\* checkpoint(): fold the flag into the machine, then act on it.
ExecuteCheckpoint(r) ==
  LET m == IF r \in cancel THEN Transition(machine[r], "REQUEST_CANCEL") ELSE machine[r]
      n == Transition(m, "CHECKPOINT") IN
  /\ Ready(r, "checkpoint")
  /\ machine' = [machine EXCEPT ![r] = n]
  /\ IF n.runState = m.runState
       THEN at' = [at EXCEPT ![r] = @ + 1] /\ UNCHANGED <<io, saving, leaving>>
       ELSE BeginSave(r, n.runState, FALSE, "return") /\ UNCHANGED at
  /\ UNCHANGED <<memory, manifest, visible, documented, orphaned, minted, faults, crashes, cancels>>

\* providerFor and runCapture: a bundle, a reported failure, or an exception.
ExecuteCapture(r) ==
  /\ Ready(r, "capture")
  /\ \/ at' = [at EXCEPT ![r] = @ + 1] /\ UNCHANGED <<machine, io, saving, leaving>>
     \/ Advance(r, "FAIL", "return") /\ UNCHANGED at
     \/ Catch(r) /\ UNCHANGED at
  /\ UNCHANGED <<memory, manifest, visible, documented, orphaned, minted, faults, crashes, cancels>>

\* documentBundleToDisk: the documents are promoted, or it throws before that.
ExecuteDocument(r) ==
  /\ Ready(r, "document")
  /\ \/ /\ documented' = documented \cup {r}
        /\ at' = [at EXCEPT ![r] = @ + 1]
        /\ UNCHANGED <<machine, io, saving, leaving>>
     \/ Catch(r) /\ UNCHANGED <<at, documented>>
  /\ UNCHANGED <<memory, manifest, visible, orphaned, minted, faults, crashes, cancels>>

\* The terminal state, chosen by the warnings of capture and documentation
\* (DocumentSet says which occur; here either event may come).  The last save is
\* also executeRun's last statement.
ExecuteFinish(r) ==
  /\ Ready(r, "finish")
  /\ \E event \in {"COMPLETE", "COMPLETE_WITH_WARNINGS"} : Advance(r, event, "return")
  /\ UNCHANGED <<memory, manifest, visible, at, documented, orphaned, minted, faults, crashes, cancels>>

\* The server dies and is started again: the disk stays, the maps are empty.
CrashRestart ==
  /\ crashes < MaxCrashes /\ minted > 0
  /\ crashes' = crashes + 1
  /\ runOf' = 0 /\ planCached' = FALSE /\ cancel' = {} /\ cancelling' = {}
  /\ calls' = [c \in Calls |-> IF calls[c].step \in {"idle", "returned", "rejected"}
                                 THEN calls[c] ELSE [step |-> "rejected", run |-> 0]]
  /\ orphaned' = orphaned \cup {r \in 1..minted : at[r] # Returned}
  /\ at' = [r \in Runs |-> Returned]
  /\ io' = [r \in Runs |-> "none"]
  /\ saving' = [r \in Runs |-> NoManifest]
  /\ leaving' = [r \in Runs |-> "no"]
  /\ machine' = [r \in Runs |-> InitialMachine]
  /\ UNCHANGED <<manifest, visible, documented, minted, faults, cancels>>

Execute(r) ==
  \/ ExecuteProfile(r) \/ ExecuteAdvance(r) \/ ExecuteCheckpoint(r)
  \/ ExecuteCapture(r) \/ ExecuteDocument(r) \/ ExecuteFinish(r)
  \/ SaveVacates(r) \/ SaveFills(r)

CallStep(c) == StartLoads(c) \/ StartProfile(c) \/ StartReturns(c)

Next ==
  \/ \E c \in Calls : StartRun(c) \/ CallStep(c)
  \/ \E r \in Runs : Execute(r) \/ SaveFails(r) \/ CancelLoads(r) \/ CancelRecords(r)
  \/ CrashRestart

Spec == Init /\ [][Next]_vars

\* The event loop runs every continuation whose promise has settled.
Fairness ==
  /\ \A r \in Runs : WF_vars(Execute(r)) /\ WF_vars(CancelRecords(r))
  /\ \A c \in Calls : WF_vars(CallStep(c))

FairSpec == Spec /\ Fairness

-----------------------------------------------------------------------------
(* Properties *)

\* A run reported as failed or cancelled left the documents of earlier runs
\* alone, whichever save failed and whenever the cancellation came.
UnfinishedTouchedNothing ==
  \A r \in Runs : manifest[r].state \in {"failed", "cancelled"} => r \notin documented

Succeeds(s, t) ==
  \/ s = t
  \/ s = "none" /\ t = "planned"
  \/ s \in Chain /\ t \in {"failed", "cancelled"}
  \/ \E e \in LinearEvents : LinearTransitions[e] = [from |-> s, to |-> t]

\* The states a client can read follow the machine, one legal edge at a time.
ManifestFollowsMachine ==
  [][\A r \in Runs : Succeeds(manifest[r].state, manifest'[r].state)]_vars

\* A run that startRun has announced ends in a persisted terminal manifest
\* that clients can read, whatever throws on the way, unless it is orphaned:
\* the server died, the save of the catch branch failed as well, or the
\* profile could not be read outside the try block.
RunEnds ==
  \A r \in Runs :
    (manifest[r].state = "planned")
      ~> (r \in orphaned \/ (visible[r] /\ manifest[r].state \in TerminalStates))

\* A cancellation recorded before the last checkpoint is acted upon: the run
\* ends cancelled or failed, and never goes on to complete.
CancelIsHonoured ==
  \A r \in Runs :
    (r \in cancel /\ at[r] \in 1..LastCheckpoint)
      ~> (r \in orphaned \/ (visible[r] /\ manifest[r].state \in {"cancelled", "failed"}))

=============================================================================
