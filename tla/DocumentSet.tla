---------------------------- MODULE DocumentSet ----------------------------
(***************************************************************************)
(* Several documentation runs over one output root: each captures its      *)
(* flows into <root>/bundle under the capture lock (capture-run.ts), then, *)
(* holding no lock, reads the bundle back, merges its documents over the   *)
(* ones it finds in <root>/documents and promotes the whole tree           *)
(* (document-bundle.ts, document-bundle-to-disk.ts).                       *)
(*                                                                         *)
(* A tree on disk is a set of entries: the path of one flow version, the   *)
(* run that captured it and the run that documented it.  Both readers turn *)
(* a tree that is absent into an empty one, so absent is {} here; a tree   *)
(* that cannot be listed is empty to them as well.  An entry of which a    *)
(* file is not read counts as not read.                                    *)
(* A promote is its two renames; FileLock and AtomicPromotion look inside. *)
(***************************************************************************)
EXTENDS Naturals, FiniteSets

CONSTANTS
  Runs,        \* documentation runs, in one process or in several
  Flows,       \* paths: ivrs/<flow>/<version>
  Selected,    \* the flows each run's plan selects
  Earlier,     \* runs that had completed before the others started
  MaxFaults,   \* bound on the second renames, listings and reads that fail
  MaxCrashes   \* bound on the crashes

ASSUME SelectionAssumption == Selected \in [Runs -> SUBSET Flows \ {{}}]
ASSUME EarlierAssumption == Earlier \subseteq Runs /\ Cardinality(Earlier) <= 1
ASSUME BoundAssumption == MaxFaults \in Nat /\ MaxCrashes \in Nat

VARIABLES
  pc,          \* the next step of each run
  captureLock, \* the runs holding the capture lock: at most one
  discovered,  \* per run: the selected flows its discovery found
  bundle,      \* <root>/bundle
  bundleAside, \* <root>/bundle.previous-<...> of the capture that promotes
  documents,   \* <root>/documents
  archive,     \* per run: <root>/documents.previous-<its staging id>
  listed,      \* per run: what a directory listing named and is still unread
  source,      \* per run: the bundle entries it has read
  existing,    \* per run: the documents it has read
  warnings,    \* per run: the warnings it has to report
  disturbed,   \* history: runs during whose reads another run moved a tree
  hidden,      \* history, per run: the flows of the bundle that a failing listing hid
  unread,      \* history, per run: the documents it could not list or read
  faults, crashes

capture == <<captureLock, discovered, bundle, bundleAside>>
missed == <<hidden, unread>>
vars == <<pc, capture, documents, archive, listed, source, existing,
          warnings, disturbed, missed, faults, crashes>>

Entries == [path : Flows, capturedBy : Runs, documentedBy : Runs]

Reading == {"list", "read"}                       \* between capture and merge
Merging == {"collect", "fill"}                    \* between walk and promotion
Ended == {"completed", "completed_with_warnings", "failed", "dead"}
Steps == {"start", "discover", "captureVacate", "captureFill", "walk", "finish"}
           \cup Reading \cup Merging \cup Ended

\* What a run of mode "context" always reports, and what reports a failure.
Policy == {"RESOURCE_WALK_SKIPPED"}

Captured(r, flows) == [path : flows, capturedBy : {r}]

Init ==
  /\ pc = [r \in Runs |-> IF r \in Earlier THEN "completed_with_warnings" ELSE "start"]
  /\ captureLock = {}
  /\ discovered = [r \in Runs |-> IF r \in Earlier THEN Selected[r] ELSE {}]
  /\ bundle = UNION {Captured(r, Selected[r]) : r \in Earlier} /\ bundleAside = {}
  /\ documents = UNION {[path : Selected[r], capturedBy : {r}, documentedBy : {r}] : r \in Earlier}
  /\ archive = [r \in Runs |-> {}]
  /\ listed = [r \in Runs |-> {}]
  /\ source = [r \in Runs |-> IF r \in Earlier THEN Captured(r, Selected[r]) ELSE {}]
  /\ existing = [r \in Runs |-> {}]
  /\ warnings = [r \in Runs |-> IF r \in Earlier THEN Policy ELSE {}]
  /\ disturbed = {}
  /\ hidden = [r \in Runs |-> {}] /\ unread = [r \in Runs |-> {}]
  /\ faults = 0 /\ crashes = 0

Goto(r, step) == pc' = [pc EXCEPT ![r] = step]
At(r, step) == pc[r] = step
Fault == faults < MaxFaults /\ faults' = faults + 1
Paths(tree) == {e.path : e \in tree}

\* r moves a tree that other runs may be in the middle of reading.
Disturbs(r, phases) ==
  disturbed' = disturbed \cup {s \in Runs \ {r} : pc[s] \in phases}

-----------------------------------------------------------------------------
(* runCapture *)

\* acquireLock(root, "capture"): a refused run fails with OUTPUT_LOCKED.
CaptureStart(r) ==
  /\ At(r, "start")
  /\ \/ captureLock = {} /\ captureLock' = {r} /\ Goto(r, "discover")
     \/ captureLock # {} /\ Goto(r, "failed") /\ UNCHANGED captureLock
  /\ UNCHANGED <<discovered, bundle, bundleAside, documents, archive, listed, source,
                 existing, warnings, disturbed, missed, faults, crashes>>

\* The connection, the tenant guard, discovery and the definitions.  A selected
\* flow that is not discovered is left out without a word; one that cannot be
\* loaded is reported.  Anything else that goes wrong ends the capture.
CaptureDiscover(r) ==
  /\ At(r, "discover")
  /\ \/ /\ \E found \in SUBSET Selected[r] : discovered' = [discovered EXCEPT ![r] = found]
        /\ Goto(r, "captureVacate")
        /\ UNCHANGED captureLock
     \/ Goto(r, "failed") /\ captureLock' = captureLock \ {r} /\ UNCHANGED discovered
  /\ UNCHANGED <<bundle, bundleAside, documents, archive, listed, source, existing,
                 warnings, disturbed, missed, faults, crashes>>

\* The bundle's promote, first rename.
CaptureVacate(r) ==
  /\ At(r, "captureVacate")
  /\ bundle' = {} /\ bundleAside' = bundle
  /\ Disturbs(r, Reading)
  /\ Goto(r, "captureFill")
  /\ UNCHANGED <<captureLock, discovered, documents, archive, listed, source, existing,
                 warnings, missed, faults, crashes>>

\* The second rename, the archive's removal and the release of the lock.
CaptureFill(r) ==
  /\ At(r, "captureFill")
  /\ \E got \in SUBSET discovered[r] :
       /\ bundle' = Captured(r, got)
       /\ warnings' = [warnings EXCEPT ![r] =
            Policy \cup IF got = discovered[r] THEN {} ELSE {"FLOW_LOAD_FAILED"}]
  /\ bundleAside' = {}
  /\ captureLock' = captureLock \ {r}
  /\ Disturbs(r, Reading)
  /\ Goto(r, "list")
  /\ UNCHANGED <<discovered, documents, archive, listed, source, existing, missed, faults, crashes>>

\* The second rename fails and the previous bundle is put back.
CaptureFillFails(r) ==
  /\ At(r, "captureFill") /\ Fault
  /\ bundle' = bundleAside /\ bundleAside' = {}
  /\ captureLock' = captureLock \ {r}
  /\ Disturbs(r, Reading)
  /\ Goto(r, "failed")
  /\ UNCHANGED <<discovered, documents, archive, listed, source, existing, warnings, missed, crashes>>

-----------------------------------------------------------------------------
(* documentBundle *)

\* readBundleFlows: the listing of <bundle>/flows, empty if there is none, and
\* empty if it fails: nobody is told of the flows that are there.
ListBundle(r) ==
  /\ At(r, "list")
  /\ \/ listed' = [listed EXCEPT ![r] = Paths(bundle)] /\ UNCHANGED <<hidden, faults>>
     \/ Fault /\ listed' = [listed EXCEPT ![r] = {}]
        /\ hidden' = [hidden EXCEPT ![r] = Paths(bundle)]
  /\ Goto(r, "read")
  /\ UNCHANGED <<capture, documents, archive, source, existing, warnings,
                 disturbed, unread, crashes>>

\* Mutant: a flow that cannot be read is left out without a word.
ReadFlow_Silent(r) ==
  /\ At(r, "read")
  /\ \E f \in listed[r] :
       /\ listed' = [listed EXCEPT ![r] = @ \ {f}]
       /\ \/ \E e \in bundle : e.path = f /\ source' = [source EXCEPT ![r] = @ \cup {e}]
          \/ UNCHANGED source
  /\ UNCHANGED <<pc, capture, documents, archive, existing, warnings,
                 disturbed, missed, faults, crashes>>

\* One flow's files: what the bundle holds by now, or a skipped flow.  A
\* definition that does not parse or validate is skipped as well; a flow whose
\* versions cannot be listed has none, and is not.
ReadFlow(r) ==
  /\ At(r, "read")
  /\ \E f \in listed[r] :
       /\ listed' = [listed EXCEPT ![r] = @ \ {f}]
       /\ \/ /\ \E e \in bundle : e.path = f /\ source' = [source EXCEPT ![r] = @ \cup {e}]
             /\ UNCHANGED <<warnings, hidden, faults>>
          \/ /\ warnings' = [warnings EXCEPT ![r] = @ \cup {"FLOW_NOT_DOCUMENTED"}]
             /\ UNCHANGED <<source, hidden, faults>>
          \/ Fault /\ hidden' = [hidden EXCEPT ![r] = @ \cup {f}] /\ UNCHANGED <<source, warnings>>
  /\ UNCHANGED <<pc, capture, documents, archive, existing, disturbed, unread, crashes>>

ReadDone(r) ==
  /\ At(r, "read") /\ listed[r] = {}
  /\ Goto(r, "walk")
  /\ UNCHANGED <<capture, documents, archive, listed, source, existing,
                 warnings, disturbed, missed, faults, crashes>>

-----------------------------------------------------------------------------
(* documentBundleToDisk *)

\* collectExistingDocuments: an absent directory is taken for a first run, and
\* so is one that cannot be listed.  It is absent, too, while another run is
\* between its two renames.
WalkDocuments(r) ==
  /\ At(r, "walk")
  /\ \/ listed' = [listed EXCEPT ![r] = Paths(documents)] /\ UNCHANGED <<unread, faults>>
     \/ Fault /\ listed' = [listed EXCEPT ![r] = {}]
        /\ unread' = [unread EXCEPT ![r] = Paths(documents)]
  /\ disturbed' = IF documents = {} /\ \E s \in Runs \ {r} : archive[s] # {}
                    THEN disturbed \cup {r} ELSE disturbed
  /\ Goto(r, "collect")
  /\ UNCHANGED <<capture, documents, archive, source, existing, warnings, hidden, crashes>>

\* Mutant: the walk does not descend into what it has listed.
CollectExisting_Shallow(r) ==
  /\ At(r, "collect")
  /\ \E f \in listed[r] : listed' = [listed EXCEPT ![r] = @ \ {f}]
  /\ UNCHANGED <<pc, capture, documents, archive, source, existing, warnings,
                 disturbed, missed, faults, crashes>>

\* One existing path: what vanished during the walk or cannot be read is left out
\* without a word.
CollectExisting(r) ==
  /\ At(r, "collect")
  /\ \E f \in listed[r] :
       /\ listed' = [listed EXCEPT ![r] = @ \ {f}]
       /\ \/ existing' = [existing EXCEPT ![r] = @ \cup {e \in documents : e.path = f}]
             /\ UNCHANGED <<unread, faults>>
          \/ Fault /\ unread' = [unread EXCEPT ![r] = @ \cup {f}] /\ UNCHANGED existing
  /\ UNCHANGED <<pc, capture, documents, archive, source, warnings, disturbed, hidden, crashes>>

\* The files this run produced, and those it found under other prefixes.
Produced(r) ==
  {[path |-> e.path, capturedBy |-> e.capturedBy, documentedBy |-> r] : e \in source[r]}

Merged(r) == Produced(r) \cup {e \in existing[r] : \A p \in Produced(r) : p.path # e.path}

\* promote, first rename: target -> archive, if there is a target.
Vacate(r) ==
  /\ At(r, "collect") /\ listed[r] = {}
  /\ archive' = [archive EXCEPT ![r] = documents]
  /\ documents' = {}
  /\ Disturbs(r, Merging)
  /\ Goto(r, "fill")
  /\ UNCHANGED <<capture, listed, source, existing, warnings, missed, faults, crashes>>

\* promote, second rename: staging -> target, if the target is vacant; the
\* archive is removed then.
Fill(r) ==
  /\ At(r, "fill") /\ documents = {}
  /\ documents' = Merged(r)
  /\ archive' = [archive EXCEPT ![r] = {}]
  /\ Disturbs(r, Merging)
  /\ Goto(r, "finish")
  /\ UNCHANGED <<capture, listed, source, existing, warnings, missed, faults, crashes>>

\* The second rename fails, because the target is occupied or for a fault.
\* The archive goes back if the target is vacant, and stays where it is if not.
FillFails(r) ==
  /\ At(r, "fill")
  /\ \/ documents # {} /\ UNCHANGED <<documents, archive, faults, disturbed>>
     \/ /\ documents = {} /\ Fault
        /\ documents' = archive[r]
        /\ archive' = [archive EXCEPT ![r] = {}]
        /\ Disturbs(r, Merging)
  /\ Goto(r, "failed")
  /\ UNCHANGED <<capture, listed, source, existing, warnings, missed, crashes>>

Finish(r) ==
  /\ At(r, "finish")
  /\ Goto(r, IF warnings[r] = {} THEN "completed" ELSE "completed_with_warnings")
  /\ UNCHANGED <<capture, documents, archive, listed, source, existing,
                 warnings, disturbed, missed, faults, crashes>>

Crash(r) ==
  /\ pc[r] \notin Ended /\ crashes < MaxCrashes
  /\ crashes' = crashes + 1
  /\ Goto(r, "dead")
  /\ UNCHANGED <<capture, documents, archive, listed, source, existing,
                 warnings, disturbed, missed, faults>>

\* A dead run's capture lock passes its TTL and is reclaimed.
LockReclaimed(r) ==
  /\ At(r, "dead") /\ r \in captureLock
  /\ captureLock' = {}
  /\ UNCHANGED <<pc, discovered, bundle, bundleAside, documents, archive, listed, source, existing, warnings,
                 disturbed, missed, faults, crashes>>

RunStep(r) ==
  \/ CaptureStart(r) \/ CaptureDiscover(r)
  \/ CaptureVacate(r) \/ CaptureFill(r) \/ CaptureFillFails(r)
  \/ ListBundle(r) \/ ReadFlow(r) \/ ReadDone(r)
  \/ WalkDocuments(r) \/ CollectExisting(r)
  \/ Vacate(r) \/ Fill(r) \/ FillFails(r) \/ Finish(r)

Next == \E r \in Runs : RunStep(r) \/ Crash(r) \/ LockReclaimed(r)

Spec == Init /\ [][Next]_vars

-----------------------------------------------------------------------------
(* Properties *)

\* A run during whose reads no other run moved a tree replaces the documents of
\* the flows it documented and loses those that its walk could not list or read,
\* which the code leaves out and the promotion deletes: every other entry is
\* promoted as it was.
UndisturbedKeepsOthers ==
  [][\A r \in Runs \ disturbed :
       pc[r] = "fill" /\ pc'[r] = "finish"
         => documents' = Produced(r) \cup
              {e \in archive[r] : e.path \notin Paths(Produced(r)) \cup unread[r]}]_vars

Finished(r) == pc[r] \in {"completed", "completed_with_warnings"}

\* Such a run ends without a warning of its own only if it documented, from its
\* own capture, every flow it discovered, but for those that a failing listing
\* of the bundle hid: nothing else is dropped without a word on the way from the
\* definitions over the bundle to the documents.
UndisturbedDropsNothing ==
  \A r \in Runs \ disturbed :
    Finished(r) /\ warnings[r] \subseteq Policy
      => source[r] = Captured(r, discovered[r] \ hidden[r])

\* document-bundle-to-disk.ts: documenting some flows never deletes every other
\* flow's last known-good documentation.
OthersKept ==
  \A r \in Runs :
    Finished(r) /\ (\A s \in Runs : pc[s] # "fill") => Paths(source[r]) \subseteq Paths(documents)
=============================================================================
