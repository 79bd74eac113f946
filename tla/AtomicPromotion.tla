-------------------------- MODULE AtomicPromotion --------------------------
(***************************************************************************)
(* packages/storage/src/atomic.ts: the two-rename swap by which every      *)
(* staged writer of the system (run manifests, profiles, narration files,  *)
(* document sets, capture bundles) replaces one target directory.          *)
(*                                                                         *)
(* A writer makes one attempt at a time.  Attempt n writes content n, so a *)
(* directory's content is the set of attempts whose files it holds: a      *)
(* singleton is one attempt's output, a larger set is a mix of several.    *)
(* The journal is append-only and read back as the latest phase per run    *)
(* id, which is all that is kept here.                                     *)
(*                                                                         *)
(* A rename, rm or append that keeps failing until withTransientRetry      *)
(* gives up is one fault; CanFault names the operations that may fail and  *)
(* MaxFaults bounds how often.  A process may crash between any two steps. *)
(***************************************************************************)
EXTENDS Naturals

CONSTANTS
  Writers,       \* processes that stage and promote into the target
  MaxAttempts,   \* bound on the attempts made altogether
  MaxFaults,     \* bound on the file-system operations that fail
  MaxCrashes,    \* bound on the crashes of a writer or of a recovery
  CanFault,      \* the operations that may fail
  FixedId,       \* TRUE: run-store, whose staging id depends on the run only
  Exclusive,     \* TRUE: the writer holds the target's lock (not document sets)
  RecoveryMode   \* who calls recoverPendingPromotions, and when

Operations == {"archive", "swap", "rollback", "restore", "rm", "journal"}

ASSUME BoundAssumption ==
  MaxAttempts \in Nat \ {0} /\ MaxFaults \in Nat /\ MaxCrashes \in Nat
ASSUME ModeAssumption ==
  /\ CanFault \subseteq Operations
  /\ FixedId \in BOOLEAN /\ Exclusive \in BOOLEAN
  /\ RecoveryMode \in {"never", "onNextUse", "late"}
  /\ FixedId => Exclusive
  /\ RecoveryMode = "onNextUse" => Exclusive

VARIABLES
  live,       \* content of the target directory
  previous,   \* content of <target>.previous-<id>, per staging id
  staging,    \* content of .archivist/staging/<id>
  journal,    \* latest phase journalled for the id
  pc,         \* the next step of each writer
  cur,        \* the attempt a writer is making
  archived,   \* the writers whose promote has archived the target
  hurt,       \* the writers whose current attempt a file-system fault hit
  attempts, faults, crashes,
  committed,  \* the attempt whose content was last renamed into the target
  recStep, recTodo, recId, recVerdict   \* the recovery process: its next step,
              \* its work list, the entry it reconciles and the phase it will journal

vars == <<live, previous, staging, journal, pc, cur, archived, hurt,
          attempts, faults, crashes, committed, recStep, recTodo, recId, recVerdict>>

recVars == <<recStep, recTodo, recId, recVerdict>>
Attempts == 1..MaxAttempts
NoDir == {0}   \* the content of a directory that does not exist
Content == (SUBSET Attempts) \cup {NoDir}
Phases == {"none", "staging", "promoting", "completed", "rolled_back"}
WriterSteps == {"idle", "journal", "write", "mark", "archive", "swap", "rollback",
                "noteRollback", "discard", "noteDiscard", "clean", "noteDone"}

IdOf(n) == IF FixedId THEN 1 ELSE n
Pending == {i \in Attempts : journal[i] = "promoting"}
WritersIdle == \A w \in Writers : pc[w] = "idle"
Exists(dir) == dir # NoDir

Init ==
  /\ live = NoDir
  /\ previous = [i \in Attempts |-> NoDir]
  /\ staging = [i \in Attempts |-> NoDir]
  /\ journal = [i \in Attempts |-> "none"]
  /\ pc = [w \in Writers |-> "idle"]
  /\ cur = [w \in Writers |-> 1]
  /\ archived = {} /\ hurt = {}
  /\ attempts = 0 /\ faults = 0 /\ crashes = 0
  /\ committed = 0
  /\ recStep = "idle" /\ recTodo = {} /\ recId = 1 /\ recVerdict = "completed"

-----------------------------------------------------------------------------
(* Steps of one writer *)

Goto(w, step) == pc' = [pc EXCEPT ![w] = step]

\* The operation failed for good: the attempt is no longer a clean one.
Fault(w, op) ==
  /\ op \in CanFault
  /\ faults < MaxFaults
  /\ faults' = faults + 1
  /\ hurt' = hurt \cup {w}

NoFault == UNCHANGED <<faults, hurt>>

Journal(w, phase) == journal' = [journal EXCEPT ![IdOf(cur[w])] = phase]

\* createStaging: mkdir { recursive: true } keeps whatever an interrupted
\* attempt of the same id left behind.
CreateStaging(w) ==
  LET n == attempts + 1 IN
  /\ pc[w] = "idle" /\ n <= MaxAttempts
  /\ Exclusive => WritersIdle
  /\ recStep = "idle"
  /\ RecoveryMode = "onNextUse" => Pending = {}
  /\ attempts' = n
  /\ cur' = [cur EXCEPT ![w] = n]
  /\ archived' = archived \ {w} /\ hurt' = hurt \ {w}
  /\ staging' = [staging EXCEPT ![IdOf(n)] = IF Exists(@) THEN @ ELSE {}]
  /\ Goto(w, "journal")
  /\ UNCHANGED <<live, previous, journal, faults, crashes, committed, recVars>>

\* createStaging's append.  It throws outside every caller's try block, so a
\* failure leaves the empty staging directory behind.
JournalStaging(w) ==
  /\ pc[w] = "journal"
  /\ \/ NoFault /\ Journal(w, "staging") /\ Goto(w, "write")
     \/ Fault(w, "journal") /\ UNCHANGED journal /\ Goto(w, "idle")
  /\ UNCHANGED <<live, previous, staging, cur, archived, attempts, crashes, committed, recVars>>

\* StagingArea.write.  The one caller with a fixed id writes the single file
\* manifest.json, which replaces a leftover; the others add files, making the
\* directory if it is gone.
Write(w) ==
  /\ pc[w] = "write"
  /\ staging' = [staging EXCEPT ![IdOf(cur[w])] =
                   IF FixedId \/ ~Exists(@) THEN {cur[w]} ELSE @ \cup {cur[w]}]
  /\ Goto(w, "mark")
  /\ UNCHANGED <<live, previous, journal, cur, archived, hurt, attempts,
                 faults, crashes, committed, recVars>>

\* StagingArea.markPromoting; its failure is the caller's to handle.
MarkPromoting(w) ==
  /\ pc[w] = "mark"
  /\ \/ NoFault /\ Journal(w, "promoting") /\ Goto(w, "archive")
     \/ Fault(w, "journal") /\ UNCHANGED journal /\ Goto(w, "discard")
  /\ UNCHANGED <<live, previous, staging, cur, archived, attempts, crashes, committed, recVars>>

\* Mutant: the target is removed instead of renamed out of the way.
Archive_Removes(w) ==
  /\ pc[w] = "archive"
  /\ live' = NoDir
  /\ Goto(w, "swap")
  /\ UNCHANGED <<previous, staging, journal, cur, archived, hurt, attempts,
                 faults, crashes, committed, recVars>>

\* promote's first rename, target -> previous.  Any failure is read as "no
\* existing target": an absent target, an archive that already exists
\* (ENOTEMPTY until the retries run out) or an I/O fault.
Archive(w) ==
  LET i == IdOf(cur[w]) IN
  /\ pc[w] = "archive"
  /\ \/ /\ Exists(live) /\ ~Exists(previous[i])
        /\ previous' = [previous EXCEPT ![i] = live]
        /\ live' = NoDir
        /\ archived' = archived \cup {w}
        /\ NoFault
     \/ /\ \/ NoFault /\ (~Exists(live) \/ Exists(previous[i]))
           \/ Fault(w, "archive")
        /\ UNCHANGED <<live, previous, archived>>
  /\ Goto(w, "swap")
  /\ UNCHANGED <<staging, journal, cur, attempts, crashes, committed, recVars>>

\* Mutant: the rename replaces a target that could not be archived.
Swap_Overwrites(w) ==
  LET i == IdOf(cur[w]) IN
  /\ pc[w] = "swap" /\ Exists(staging[i])
  /\ live' = staging[i]
  /\ staging' = [staging EXCEPT ![i] = NoDir]
  /\ committed' = cur[w]
  /\ Goto(w, IF w \in archived THEN "clean" ELSE "noteDone")
  /\ UNCHANGED <<previous, journal, cur, archived, hurt, attempts, faults,
                 crashes, recVars>>

\* promote's second rename, staging -> target, which is the commit point.  It
\* needs a vacant target.
Swap(w) ==
  LET i == IdOf(cur[w]) IN
  /\ pc[w] = "swap"
  /\ \/ /\ Exists(staging[i]) /\ ~Exists(live)
        /\ live' = staging[i]
        /\ staging' = [staging EXCEPT ![i] = NoDir]
        /\ committed' = cur[w]
        /\ NoFault
        /\ Goto(w, IF w \in archived THEN "clean" ELSE "noteDone")
     \/ /\ \/ NoFault /\ (~Exists(staging[i]) \/ Exists(live))
           \/ Fault(w, "swap")
        /\ Goto(w, IF w \in archived THEN "rollback" ELSE "noteRollback")
        /\ UNCHANGED <<live, staging, committed>>
  /\ UNCHANGED <<previous, journal, cur, archived, attempts, crashes, recVars>>

\* Mutant: a failed swap does not put the archived target back.
Rollback_Forgotten(w) ==
  /\ pc[w] = "rollback"
  /\ Goto(w, "noteRollback")
  /\ UNCHANGED <<live, previous, staging, journal, cur, archived, hurt, attempts,
                 faults, crashes, committed, recVars>>

\* promote's catch: put the archived target back; a failure is swallowed.
Rollback(w) ==
  LET i == IdOf(cur[w]) IN
  /\ pc[w] = "rollback"
  /\ \/ /\ Exists(previous[i]) /\ ~Exists(live)
        /\ live' = previous[i]
        /\ previous' = [previous EXCEPT ![i] = NoDir]
        /\ NoFault
     \/ /\ \/ NoFault /\ (~Exists(previous[i]) \/ Exists(live))
           \/ Fault(w, "rollback")
        /\ UNCHANGED <<live, previous>>
  /\ Goto(w, "noteRollback")
  /\ UNCHANGED <<staging, journal, cur, archived, attempts, crashes, committed, recVars>>

\* promote's catch: append 'rolled_back', swallowing a failure, and rethrow.
NoteRollback(w) ==
  /\ pc[w] = "noteRollback"
  /\ \/ NoFault /\ Journal(w, "rolled_back")
     \/ Fault(w, "journal") /\ UNCHANGED journal
  /\ Goto(w, "discard")
  /\ UNCHANGED <<live, previous, staging, cur, archived, attempts, crashes, committed, recVars>>

\* The caller's catch: StagingArea.discard, its rm.  A failure escapes.
Discard(w) ==
  /\ pc[w] = "discard"
  /\ \/ /\ NoFault /\ staging' = [staging EXCEPT ![IdOf(cur[w])] = NoDir]
        /\ Goto(w, "noteDiscard")
     \/ Fault(w, "rm") /\ UNCHANGED staging /\ Goto(w, "idle")
  /\ UNCHANGED <<live, previous, journal, cur, archived, attempts, crashes, committed, recVars>>

\* StagingArea.discard, its append; the attempt ends in failure.
NoteDiscard(w) ==
  /\ pc[w] = "noteDiscard"
  /\ \/ NoFault /\ Journal(w, "rolled_back")
     \/ Fault(w, "journal") /\ UNCHANGED journal
  /\ Goto(w, "idle")
  /\ UNCHANGED <<live, previous, staging, cur, archived, attempts, crashes, committed, recVars>>

\* Past the commit point: remove the archive, swallowing a failure.
RemovePrevious(w) ==
  /\ pc[w] = "clean"
  /\ \/ NoFault /\ previous' = [previous EXCEPT ![IdOf(cur[w])] = NoDir]
     \/ Fault(w, "rm") /\ UNCHANGED previous
  /\ Goto(w, "noteDone")
  /\ UNCHANGED <<live, staging, journal, cur, archived, attempts, crashes, committed, recVars>>

\* Past the commit point: append 'completed', swallowing a failure.
NoteCompleted(w) ==
  /\ pc[w] = "noteDone"
  /\ \/ NoFault /\ Journal(w, "completed")
     \/ Fault(w, "journal") /\ UNCHANGED journal
  /\ Goto(w, "idle")
  /\ UNCHANGED <<live, previous, staging, cur, archived, attempts, crashes, committed, recVars>>

Crash(w) ==
  /\ pc[w] # "idle" /\ crashes < MaxCrashes
  /\ crashes' = crashes + 1
  /\ Goto(w, "idle")
  /\ UNCHANGED <<live, previous, staging, journal, cur, archived, hurt,
                 attempts, faults, committed, recVars>>

WriterStep(w) ==
  \/ CreateStaging(w) \/ JournalStaging(w) \/ Write(w) \/ MarkPromoting(w)
  \/ Archive(w) \/ Swap(w) \/ Rollback(w) \/ NoteRollback(w)
  \/ Discard(w) \/ NoteDiscard(w) \/ RemovePrevious(w) \/ NoteCompleted(w)

-----------------------------------------------------------------------------
(* recoverPendingPromotions, run on a quiet root *)

RecFault(op) ==
  /\ op \in CanFault /\ faults < MaxFaults
  /\ faults' = faults + 1

\* recoverPendingPromotions: one read of the journal fixes the work list.
RecoverStart ==
  /\ RecoveryMode # "never"
  /\ recStep = "idle" /\ WritersIdle /\ Pending # {}
  /\ recStep' = "next" /\ recTodo' = Pending
  /\ UNCHANGED <<live, previous, staging, journal, pc, cur, archived, hurt,
                 attempts, faults, crashes, committed, recId, recVerdict>>

\* The entries come in the order their ids first appeared in the journal,
\* which is the order of the attempts.
RecoverNext ==
  /\ recStep = "next"
  /\ \/ /\ recTodo = {}
        /\ recStep' = "idle"
        /\ UNCHANGED <<recTodo, recId>>
     \/ \E i \in recTodo :
          /\ \A j \in recTodo : i <= j
          /\ recStep' = "fix" /\ recId' = i /\ recTodo' = recTodo \ {i}
  /\ UNCHANGED <<live, previous, staging, journal, pc, cur, archived, hurt,
                 attempts, faults, crashes, committed, recVerdict>>

\* reconcilePendingPromotion: the three stats and the rename or rm they
\* choose.  A failed rename throws out of the whole recovery, a failed rm is
\* swallowed.
MustRestore(i) == Exists(staging[i]) /\ ~Exists(live) /\ Exists(previous[i])

RecoverRestore ==
  /\ recStep = "fix" /\ MustRestore(recId)
  /\ \/ /\ live' = previous[recId]
        /\ previous' = [previous EXCEPT ![recId] = NoDir]
        /\ recStep' = "unstage" /\ recVerdict' = "rolled_back"
        /\ UNCHANGED faults
     \/ /\ RecFault("restore")
        /\ recStep' = "idle"
        /\ UNCHANGED <<live, previous, recVerdict>>
  /\ UNCHANGED <<staging, journal, pc, cur, archived, hurt, attempts, crashes,
                 committed, recTodo, recId>>

RecoverDrop ==
  /\ recStep = "fix" /\ ~MustRestore(recId)
  /\ \/ previous' = [previous EXCEPT ![recId] = NoDir] /\ UNCHANGED faults
     \/ UNCHANGED previous /\ Exists(previous[recId]) /\ RecFault("rm")
  /\ IF Exists(staging[recId])
       THEN recStep' = "unstage" /\ recVerdict' = "rolled_back"
       ELSE recStep' = "note" /\ recVerdict' = "completed"
  /\ UNCHANGED <<live, staging, journal, pc, cur, archived, hurt, attempts,
                 crashes, committed, recTodo, recId>>

\* The abandoned staging directory goes; a failure is swallowed.
RecoverUnstage ==
  /\ recStep = "unstage"
  /\ \/ staging' = [staging EXCEPT ![recId] = NoDir] /\ UNCHANGED faults
     \/ UNCHANGED staging /\ RecFault("rm")
  /\ recStep' = "note"
  /\ UNCHANGED <<live, previous, journal, pc, cur, archived, hurt, attempts,
                 crashes, committed, recTodo, recId, recVerdict>>

\* The terminal journal entry; a failure throws out of the whole recovery.
RecoverNote ==
  /\ recStep = "note"
  /\ \/ /\ journal' = [journal EXCEPT ![recId] = recVerdict]
        /\ recStep' = "next"
        /\ UNCHANGED faults
     \/ /\ RecFault("journal")
        /\ recStep' = "idle"
        /\ UNCHANGED journal
  /\ UNCHANGED <<live, previous, staging, pc, cur, archived, hurt, attempts,
                 crashes, committed, recTodo, recId, recVerdict>>

RecoverCrash ==
  /\ recStep # "idle" /\ crashes < MaxCrashes
  /\ crashes' = crashes + 1
  /\ recStep' = "idle"
  /\ UNCHANGED <<live, previous, staging, journal, pc, cur, archived, hurt,
                 attempts, faults, committed, recTodo, recId, recVerdict>>

RecoverStep == RecoverNext \/ RecoverRestore \/ RecoverDrop \/ RecoverUnstage \/ RecoverNote

Next ==
  \/ \E w \in Writers : WriterStep(w) \/ Crash(w)
  \/ RecoverStart \/ RecoverStep \/ RecoverCrash

Spec == Init /\ [][Next]_vars

-----------------------------------------------------------------------------
(* Properties *)

TypeOK ==
  /\ live \in Content
  /\ previous \in [Attempts -> Content]
  /\ staging \in [Attempts -> Content]
  /\ journal \in [Attempts -> Phases]
  /\ pc \in [Writers -> WriterSteps]
  /\ cur \in [Writers -> Attempts]
  /\ archived \subseteq Writers /\ hurt \subseteq Writers
  /\ attempts \in 0..MaxAttempts
  /\ faults \in 0..MaxFaults
  /\ crashes \in 0..MaxCrashes
  /\ committed \in 0..MaxAttempts
  /\ recStep \in {"idle", "next", "fix", "unstage", "note"}
  /\ recTodo \subseteq Attempts
  /\ recId \in Attempts
  /\ recVerdict \in {"completed", "rolled_back"}

\* Whatever fails or crashes, the content that was last live is still on disk,
\* in the target or in one of its archives: no step deletes the only copy.
LastGoodKept ==
  committed # 0 =>
    \/ live = {committed}
    \/ \E i \in Attempts : previous[i] = {committed}

\* A reader of the target sees nothing, or exactly the content that was last
\* made live: never a mix of two attempts and never an older attempt again.
ReaderSeesLastGood == live \in {NoDir, {committed}}

Contract == INSTANCE TargetContract
              WITH Versions <- Attempts, Absent <- NoDir,
                   visible <- live, last <- {committed}

\* The same promise as an abstract specification: what a reader sees of the
\* target refines TargetContract.
RefinesContract == Contract!Spec

\* Once nothing runs and no entry is pending, the last good content is back in
\* the target: recovery (or the writer's own rollback) lost nothing for good.
RestoredWhenQuiet ==
  WritersIdle /\ recStep = "idle" /\ Pending = {} /\ committed # 0
    => live = {committed}

\* An attempt that no fault hit does not fail: what earlier attempts left
\* behind (a stray archive, a leftover staging directory) is harmless, as
\* atomic.ts:225 says of the archive that could not be removed.
StrayIsHarmless ==
  [][\A w \in Writers :
       pc[w] = "noteDiscard" /\ pc'[w] = "idle" /\ crashes' = crashes => w \in hurt']_vars
=============================================================================
