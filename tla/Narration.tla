------------------------------ MODULE Narration ------------------------------
(***************************************************************************)
(* The resumable narration of documented flows: runNarrationQueue          *)
(* (packages/narrative/src/work-queue.ts), the journal and the saved       *)
(* sections on disk (composition/src/narration-journal.ts) and the part of *)
(* composition/src/document-bundle-to-disk.ts that folds the queue's       *)
(* results into the document set.                                          *)
(*                                                                         *)
(* A job is one flow version with one evidence pack, so its key is the job *)
(* itself.  A draft is known by what validateNarration makes of it: some   *)
(* statement was accepted, some was rejected, both or neither.             *)
(*                                                                         *)
(* A journal that is absent or unreadable is read as one without entries:  *)
(* the absent one is the journal that maps every job to "none", and a read *)
(* of one that is there may fail.  Absent sections are "absent".  A        *)
(* promote is its two renames (AtomicPromotion takes it apart), the lock   *)
(* is the grants of FileLock.                                              *)
(***************************************************************************)
EXTENDS Naturals, Sequences

CONSTANTS
  Runs,        \* documentation runs with narrate on, over one output root
  Jobs,        \* job keys
  Batch,       \* the jobs of each run, in the order of its documented flows
  Drafts,      \* what the provider may return
  MaxFaults,   \* bound on the failing reads and writes
  MaxCrashes   \* bound on the crashes

ASSUME BatchAssumption ==
  /\ Batch \in [Runs -> Seq(Jobs)]
  /\ \A r \in Runs : \A i, k \in DOMAIN Batch[r] : Batch[r][i] = Batch[r][k] => i = k
\* validateNarration never throws: some statement of a draft was accepted, some
\* was rejected, both or neither.
DraftKinds == {"accepted", "mixed", "rejected", "empty"}

ASSUME DraftAssumption == Drafts \subseteq DraftKinds
ASSUME BoundAssumption == MaxFaults \in Nat /\ MaxCrashes \in Nat

VARIABLES
  pc,        \* the next step of each run
  todo,      \* per run: the jobs the loop it is in has still to visit
  known,     \* per run: completedKeys
  entry,     \* per run: the outcome it is about to record for Head(todo)
  outcome,   \* per run: the queue's result for each job
  snapshot,  \* per run: the journal as record read it under the lock
  aside,     \* per run: the journal its promote has renamed out of the way
  sectionsAside,   \* per run: likewise the sections of Head(todo)
  misread,   \* history: the runs whose record could not read the journal that is there
  merged,    \* per run: the narrative.md it will write for each job
  warned,    \* per run: the warnings about each job
  lock,      \* the runs holding the journal's lock: at most one
  journal,   \* .archivist/narration/journal.json: the status of each job
  sections,  \* .archivist/narration-sections/<job>/sections.json
  documents, \* narrative.md of each job in <root>/documents
  faults, crashes

memory == <<known, entry, outcome, snapshot, merged, warned>>
moved == <<aside, sectionsAside, misread>>
disk == <<journal, sections, documents>>
vars == <<pc, todo, memory, moved, lock, disk, faults, crashes>>

Statuses == {"none", "failed", "completed"}
Outcomes == {"none", "skipped", "failed"} \cup Drafts
Saved == {"absent", "accepted", "empty"}
Markdown == {"none", "accepted", "mixed", "rejected"}
Warnings == {"provider failed", "could not be located", "could not be cached"}
Ended == {"done", "aborted", "unpublished", "dead"}
Steps == {"start", "queue", "lock", "vacate", "fill", "fold", "saveVacate", "saveFill"}
           \cup Ended

Unwritten == [j \in Jobs |-> "none"]

\* What saveSections keeps of a draft: the rejections are not part of it.
SectionsOf(draft) == IF draft \in {"accepted", "mixed"} THEN "accepted" ELSE "empty"

\* renderNarrative of a draft just validated, and of saved sections, for which
\* the caller passes no rejections.  "none": there is nothing to show.
Rendered(draft) == IF draft = "empty" THEN "none" ELSE draft
Rerendered(saved) == IF saved = "accepted" THEN "accepted" ELSE "none"

Init ==
  /\ pc = [r \in Runs |-> "start"]
  /\ todo = [r \in Runs |-> <<>>]
  /\ known = [r \in Runs |-> {}]
  /\ entry = [r \in Runs |-> "failed"]
  /\ outcome = [r \in Runs |-> [j \in Jobs |-> "none"]]
  /\ snapshot = [r \in Runs |-> Unwritten] /\ aside = [r \in Runs |-> Unwritten]
  /\ sectionsAside = [r \in Runs |-> "absent"] /\ misread = {}
  /\ merged = [r \in Runs |-> [j \in Jobs |-> "none"]]
  /\ warned = [r \in Runs |-> [j \in Jobs |-> {}]]
  /\ lock = {}
  /\ journal = Unwritten
  /\ sections = [j \in Jobs |-> "absent"]
  /\ documents = [j \in Jobs |-> "none"]
  /\ faults = 0 /\ crashes = 0

At(r, step) == pc[r] = step
Goto(r, step) == pc' = [pc EXCEPT ![r] = step]
Job(r) == Head(todo[r])
NextJob(r) == todo' = [todo EXCEPT ![r] = Tail(@)]
Warn(r, warning) == warned' = [warned EXCEPT ![r][Job(r)] = @ \cup {warning}]
Fault == faults < MaxFaults /\ faults' = faults + 1

-----------------------------------------------------------------------------
(* runNarrationQueue *)

\* The journal is loaded once, without the lock: between another run's two
\* renames, or after a crash between them, it reads as empty, and so does one that
\* cannot be read.
Load(r) ==
  /\ At(r, "start")
  /\ \/ known' = [known EXCEPT ![r] = {j \in Jobs : journal[j] = "completed"}] /\ UNCHANGED faults
     \/ journal # Unwritten /\ Fault /\ UNCHANGED known
  /\ todo' = [todo EXCEPT ![r] = Batch[r]]
  /\ Goto(r, "queue")
  /\ UNCHANGED <<entry, outcome, snapshot, merged, warned, moved, lock, disk, crashes>>

Skip(r) ==
  /\ At(r, "queue") /\ todo[r] # <<>> /\ Job(r) \in known[r]
  /\ outcome' = [outcome EXCEPT ![r][Job(r)] = "skipped"]
  /\ NextJob(r)
  /\ UNCHANGED <<pc, known, entry, snapshot, merged, warned, moved, lock, disk, faults, crashes>>

\* The model call, and validateNarration, which never throws.
Narrate(r) ==
  /\ At(r, "queue") /\ todo[r] # <<>> /\ Job(r) \notin known[r]
  /\ \E result \in Drafts \cup {"failed"} : entry' = [entry EXCEPT ![r] = result]
  /\ Goto(r, "lock")
  /\ UNCHANGED <<todo, known, outcome, snapshot, merged, warned, moved, lock, disk,
                 faults, crashes>>

QueueDone(r) ==
  /\ At(r, "queue") /\ todo[r] = <<>>
  /\ todo' = [todo EXCEPT ![r] = Batch[r]]
  /\ Goto(r, "fold")
  /\ UNCHANGED <<memory, moved, lock, disk, faults, crashes>>

-----------------------------------------------------------------------------
(* record, under the journal's lock *)

\* readJsonFile: whatever goes wrong with a journal that is there, it has no entries.
RecordRead(r) ==
  /\ At(r, "lock") /\ lock = {}
  /\ lock' = {r}
  /\ \/ /\ snapshot' = [snapshot EXCEPT ![r] = journal]
        /\ misread' = misread \ {r} /\ UNCHANGED faults
     \/ /\ journal # Unwritten /\ Fault
        /\ snapshot' = [snapshot EXCEPT ![r] = Unwritten]
        /\ misread' = misread \cup {r}
  /\ Goto(r, "vacate")
  /\ UNCHANGED <<todo, known, entry, outcome, merged, warned, aside, sectionsAside, disk, crashes>>

\* promote's first rename.
RecordVacate(r) ==
  /\ At(r, "vacate")
  /\ aside' = [aside EXCEPT ![r] = journal]
  /\ journal' = Unwritten
  /\ Goto(r, "fill")
  /\ UNCHANGED <<todo, memory, sectionsAside, misread, lock, sections, documents, faults, crashes>>

\* Mutant: the journal is replaced by the new entry instead of extended by it.
RecordFill_Alone(r) ==
  LET status == IF entry[r] = "failed" THEN "failed" ELSE "completed" IN
  /\ At(r, "fill")
  /\ journal' = [Unwritten EXCEPT ![Job(r)] = status]
  /\ lock' = lock \ {r}
  /\ outcome' = [outcome EXCEPT ![r][Job(r)] = entry[r]]
  /\ known' = IF status = "completed" THEN [known EXCEPT ![r] = @ \cup {Job(r)}] ELSE known
  /\ NextJob(r)
  /\ Goto(r, "queue")
  /\ UNCHANGED <<entry, snapshot, merged, warned, moved, sections, documents, faults, crashes>>

\* The second rename; the other jobs' entries are those of the snapshot.
RecordFill(r) ==
  LET status == IF entry[r] = "failed" THEN "failed" ELSE "completed" IN
  /\ At(r, "fill")
  /\ journal' = [snapshot[r] EXCEPT ![Job(r)] = status]
  /\ lock' = lock \ {r}
  /\ outcome' = [outcome EXCEPT ![r][Job(r)] = entry[r]]
  /\ known' = IF status = "completed" THEN [known EXCEPT ![r] = @ \cup {Job(r)}] ELSE known
  /\ NextJob(r)
  /\ Goto(r, "queue")
  /\ UNCHANGED <<entry, snapshot, merged, warned, moved, sections, documents, faults, crashes>>

\* record throws.  The queue's catch records the job as failed, whatever the
\* draft was worth; a record of a failure that throws ends the whole run.
RecordThrows(r) ==
  IF entry[r] = "failed"
    THEN Goto(r, "aborted") /\ UNCHANGED entry
    ELSE Goto(r, "lock") /\ entry' = [entry EXCEPT ![r] = "failed"]

\* Mutant: the loop that waits for the lock has no deadline.
LockTimeout_Never(r) == At(r, "lock") /\ lock # {} /\ UNCHANGED vars

\* withJournalLock gives up: another run holds the lock, or died with it.
LockTimeout(r) ==
  /\ At(r, "lock") /\ lock # {}
  /\ RecordThrows(r)
  /\ UNCHANGED <<todo, known, outcome, snapshot, merged, warned, moved, lock, disk,
                 faults, crashes>>

\* The staging or the second rename fails; the journal is put back.
RecordFails(r) ==
  /\ \/ At(r, "vacate") /\ UNCHANGED journal
     \/ At(r, "fill") /\ journal' = aside[r]
  /\ Fault
  /\ lock' = lock \ {r}
  /\ RecordThrows(r)
  /\ UNCHANGED <<todo, known, outcome, snapshot, merged, warned, moved, sections, documents,
                 crashes>>

-----------------------------------------------------------------------------
(* narrateDocumentedFlows: the fold over the results *)

Fold(r) == At(r, "fold") /\ todo[r] # <<>>

\* Mutant: what cannot be reused is left out without a word.
FoldSkipped_Silent(r) ==
  /\ Fold(r) /\ outcome[r][Job(r)] = "skipped"
  /\ merged' = [merged EXCEPT ![r][Job(r)] = Rerendered(sections[Job(r)])]
  /\ NextJob(r)
  /\ UNCHANGED <<pc, known, entry, outcome, snapshot, warned, moved, lock, disk, faults, crashes>>

\* A skipped job reuses the saved sections, read without a lock.
FoldSkipped(r) ==
  /\ Fold(r) /\ outcome[r][Job(r)] = "skipped"
  /\ \/ /\ \/ sections[Job(r)] = "absent" /\ UNCHANGED faults
           \/ sections[Job(r)] # "absent" /\ Fault
        /\ Warn(r, "could not be located") /\ UNCHANGED merged
     \/ /\ sections[Job(r)] # "absent"
        /\ merged' = [merged EXCEPT ![r][Job(r)] = Rerendered(sections[Job(r)])]
        /\ UNCHANGED <<warned, faults>>
  /\ NextJob(r)
  /\ UNCHANGED <<pc, known, entry, outcome, snapshot, moved, lock, disk, crashes>>

\* Mutant: the first failure ends the fold.
FoldFailed_Stops(r) ==
  /\ Fold(r) /\ outcome[r][Job(r)] = "failed"
  /\ Warn(r, "provider failed")
  /\ todo' = [todo EXCEPT ![r] = <<>>]
  /\ UNCHANGED <<pc, known, entry, outcome, snapshot, merged, moved, lock, disk, faults, crashes>>

FoldFailed(r) ==
  /\ Fold(r) /\ outcome[r][Job(r)] = "failed"
  /\ Warn(r, "provider failed")
  /\ NextJob(r)
  /\ UNCHANGED <<pc, known, entry, outcome, snapshot, merged, moved, lock, disk, faults, crashes>>

FoldCompleted(r) ==
  /\ Fold(r) /\ outcome[r][Job(r)] \in Drafts
  /\ Goto(r, "saveVacate")
  /\ UNCHANGED <<todo, memory, moved, lock, disk, faults, crashes>>

Merge(r) ==
  /\ merged' = [merged EXCEPT ![r][Job(r)] = Rendered(outcome[r][Job(r)])]
  /\ NextJob(r)
  /\ Goto(r, "fold")

\* saveSections takes no lock: two runs may save the same job's sections.
SaveVacate(r) ==
  /\ At(r, "saveVacate")
  /\ sectionsAside' = [sectionsAside EXCEPT ![r] = sections[Job(r)]]
  /\ sections' = [sections EXCEPT ![Job(r)] = "absent"]
  /\ Goto(r, "saveFill")
  /\ UNCHANGED <<todo, memory, aside, misread, lock, journal, documents, faults, crashes>>

SaveFill(r) ==
  /\ At(r, "saveFill") /\ sections[Job(r)] = "absent"
  /\ sections' = [sections EXCEPT ![Job(r)] = SectionsOf(outcome[r][Job(r)])]
  /\ Merge(r)
  /\ UNCHANGED <<known, entry, outcome, snapshot, warned, moved, lock, journal, documents,
                 faults, crashes>>

\* saveSections throws, at its first rename or before (saveVacate), at its
\* second for a fault, or because another run has filled the place meanwhile.
SaveFails(r) ==
  /\ \/ At(r, "saveVacate") /\ Fault /\ UNCHANGED sections
     \/ /\ At(r, "saveFill") /\ sections[Job(r)] = "absent" /\ Fault
        /\ sections' = [sections EXCEPT ![Job(r)] = sectionsAside[r]]
     \/ At(r, "saveFill") /\ sections[Job(r)] # "absent" /\ UNCHANGED <<sections, faults>>
  /\ Warn(r, "could not be cached")
  /\ Merge(r)
  /\ UNCHANGED <<known, entry, outcome, snapshot, moved, lock, journal, documents, crashes>>

\* documentBundleToDisk promotes the documents of its flows: narrative.md is
\* there for the merged ones and gone for the others.
Publish(r) ==
  /\ At(r, "fold") /\ todo[r] = <<>>
  /\ \/ /\ documents' = [j \in Jobs |->
             IF \E i \in DOMAIN Batch[r] : Batch[r][i] = j THEN merged[r][j] ELSE documents[j]]
        /\ Goto(r, "done") /\ UNCHANGED faults
     \/ Fault /\ Goto(r, "unpublished") /\ UNCHANGED documents
  /\ UNCHANGED <<todo, memory, moved, lock, journal, sections, crashes>>

Crash(r) ==
  /\ pc[r] \notin Ended \cup {"start"} /\ crashes < MaxCrashes
  /\ crashes' = crashes + 1
  /\ Goto(r, "dead")
  /\ UNCHANGED <<todo, memory, moved, lock, disk, faults>>

\* The lock of a dead run passes its TTL and is cleared away.
LockReclaimed(r) ==
  /\ At(r, "dead") /\ r \in lock
  /\ lock' = lock \ {r}
  /\ UNCHANGED <<pc, todo, memory, moved, disk, faults, crashes>>

RunStep(r) ==
  \/ Load(r) \/ Skip(r) \/ Narrate(r) \/ QueueDone(r)
  \/ RecordRead(r) \/ RecordVacate(r) \/ RecordFill(r) \/ LockTimeout(r) \/ RecordFails(r)
  \/ FoldSkipped(r) \/ FoldFailed(r) \/ FoldCompleted(r)
  \/ SaveVacate(r) \/ SaveFill(r) \/ SaveFails(r) \/ Publish(r)

Next == \E r \in Runs : RunStep(r) \/ Crash(r) \/ LockReclaimed(r)

Spec == Init /\ [][Next]_vars

\* Every await settles: the model call, the file-system calls and the wait for
\* the lock, which has a deadline.  Nothing obliges a dead run's lock to expire
\* within the time that is watched.
FairSpec == Spec /\ \A r \in Runs : WF_vars(RunStep(r))

-----------------------------------------------------------------------------
(* Properties *)

TypeOK ==
  /\ pc \in [Runs -> Steps]
  /\ todo \in [Runs -> Seq(Jobs)]
  /\ known \in [Runs -> SUBSET Jobs]
  /\ entry \in [Runs -> Drafts \cup {"failed"}]
  /\ outcome \in [Runs -> [Jobs -> Outcomes]]
  /\ snapshot \in [Runs -> [Jobs -> Statuses]] /\ aside \in [Runs -> [Jobs -> Statuses]]
  /\ sectionsAside \in [Runs -> Saved] /\ misread \subseteq Runs
  /\ merged \in [Runs -> [Jobs -> Markdown]]
  /\ warned \in [Runs -> [Jobs -> SUBSET Warnings]]
  /\ lock \subseteq Runs /\ \A r, s \in lock : r = s
  /\ journal \in [Jobs -> Statuses]
  /\ sections \in [Jobs -> Saved]
  /\ documents \in [Jobs -> Markdown]
  /\ faults \in 0..MaxFaults /\ crashes \in 0..MaxCrashes

\* narration-journal.ts, record: whatever other runs record meanwhile, the
\* journal a record makes live has the entries of every other job exactly as
\* they were in the journal it replaced, unless that record could not read it: then
\* they are gone, and none of the other runs learns of it.
RecordKeepsOthers ==
  [][\A r \in Runs \ misread :
       At(r, "fill") /\ pc'[r] = "queue"
         => \A j \in Jobs \ {Job(r)} : journal'[j] = aside[r][j]]_vars

\* A job the journal calls completed has its sections on disk, except while a
\* run that narrated it is still to save them, and where such a run died, was
\* ended by the journal or reported that it could not save them.
CompletedHasSections ==
  \A j \in Jobs :
    journal[j] = "completed" =>
      \/ sections[j] # "absent"
      \/ \E r \in Runs :
           /\ outcome[r][j] \in Drafts
           /\ pc[r] \notin {"done", "unpublished"} \/ "could not be cached" \in warned[r][j]

\* Some run's narration of the job accepted no statement.
AcceptedNone(j) == \E r \in Runs : outcome[r][j] \in {"rejected", "empty"}

\* document-bundle-to-disk.ts: no job of a run that published is lost without a word,
\* whatever other runs narrate, move aside or fill of its sections: one without a
\* narrative.md has a warning, or had an empty draft, or is skipped and a narration of it
\* had accepted nothing.  In the last case a narrative.md that listed rejections is gone.
AcceptedIsNotLost ==
  \A r \in Runs : At(r, "done") => \A i \in DOMAIN Batch[r] :
    LET j == Batch[r][i]
    IN  merged[r][j] = "none" =>
          \/ warned[r][j] # {}
          \/ outcome[r][j] = "empty"
          \/ outcome[r][j] = "skipped" /\ AcceptedNone(j)

\* Every run that loads the journal ends, also when another died with the lock.
RunEnds == \A r \in Runs : At(r, "queue") ~> pc[r] \in Ended

=============================================================================
