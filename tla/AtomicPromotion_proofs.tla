----------------------- MODULE AtomicPromotion_proofs -----------------------
(***************************************************************************)
(* Proofs about AtomicPromotion, for every number of writers, attempts,    *)
(* faults and crashes.                                                     *)
(*                                                                         *)
(* Under the callers' discipline (one writer at a time, and a recovery     *)
(* that, if it is ever called, is called before the next attempt and can   *)
(* always put the archive back) the inductive invariant IInv ties the      *)
(* target, the archives, the staging area and the journal together.        *)
(***************************************************************************)
EXTENDS AtomicPromotion, TLAPS

Discipline ==
  /\ Exclusive
  /\ \/ RecoveryMode = "never"
     \/ RecoveryMode = "onNextUse" /\ "rollback" \notin CanFault

Last == IdOf(attempts)          \* the id of the latest attempt
BeforeCommit == {"journal", "write", "mark", "archive", "swap", "rollback"}

\* One process at a time, and it works on the latest attempt.
Alone ==
  /\ \A v, w \in Writers : pc[v] # "idle" /\ pc[w] # "idle" => v = w
  /\ \A w \in Writers : pc[w] # "idle" =>
       recStep = "idle" /\ attempts # 0 /\ cur[w] = attempts
  /\ recStep # "idle" => RecoveryMode = "onNextUse"

\* Staging areas of attempts still to come do not exist, and the latest one
\* holds its own attempt's content only.
StagingClean ==
  /\ ~FixedId => \A i \in Attempts : i > attempts => ~Exists(staging[i])
  /\ \A w \in Writers :
       /\ pc[w] \in {"journal", "write"} => Exists(staging[Last])
       /\ pc[w] \in {"journal", "write"} /\ ~FixedId => staging[Last] = {}
       /\ pc[w] \in {"mark", "archive", "swap"} => staging[Last] = {attempts}

\* Who has committed what, and where the archived content is meanwhile.
Progress ==
  /\ committed <= attempts
  /\ committed = 0 => \A i \in Attempts : ~Exists(previous[i])
  /\ \A w \in Writers :
       /\ pc[w] \in BeforeCommit => committed < attempts
       /\ pc[w] \in {"clean", "noteDone"} => live = {committed} /\ committed # 0
       /\ pc[w] = "rollback" => w \in archived
       /\ pc[w] \in {"journal", "write", "mark", "archive"} => w \notin archived
       /\ pc[w] \in {"swap", "rollback"} /\ w \in archived =>
            ~Exists(live) /\ previous[Last] = {committed} /\ committed # 0

\* With recovery, a vacant target means an interrupted swap that recovery
\* will undo: the latest attempt is pending, staged, and its archive is the
\* last good content.
Recoverable ==
  RecoveryMode = "onNextUse" =>
    /\ attempts = 0 => Pending = {}
    /\ Pending \subseteq {Last}
    /\ recStep # "idle" => recTodo \subseteq {Last}
    /\ recStep \in {"fix", "unstage", "note"} => recId = Last
    /\ \A w \in Writers : pc[w] \in {"journal", "write", "mark"} => Pending = {}
    /\ \A w \in Writers : pc[w] \in {"archive", "swap", "rollback"} => Last \in Pending
    /\ committed # 0 /\ ~Exists(live) =>
         /\ Last \in Pending
         /\ Exists(staging[Last])
         /\ previous[Last] = {committed}
         /\ recStep \in {"idle", "next", "fix"}
         /\ \A w \in Writers :
              \/ pc[w] = "idle"
              \/ pc[w] \in {"swap", "rollback"} /\ w \in archived

IInv ==
  /\ TypeOK
  /\ Alone
  /\ StagingClean
  /\ Progress
  /\ Recoverable
  /\ ReaderSeesLastGood
  /\ LastGoodKept

-----------------------------------------------------------------------------
(* Type correctness *)

\* Attempts are numbered from 1, and so are their ids.
LEMMA AttemptFacts ==
  /\ 1 \in Attempts
  /\ \A n \in Attempts : IdOf(n) \in Attempts /\ n \in 0..MaxAttempts /\ n # 0
  /\ \A n \in Nat : n # 0 /\ n <= MaxAttempts => n \in Attempts
BY BoundAssumption DEF Attempts, IdOf

\* The contents a directory gets by the steps are contents.
LEMMA ContentFacts ==
  /\ NoDir \in Content /\ {} \in Content
  /\ \A n \in Attempts : {n} \in Content
  /\ \A c \in Content, n \in Attempts : Exists(c) => c \cup {n} \in Content
BY DEF Content, Exists

\* The initial state is well formed.
LEMMA TypeInit == Init => TypeOK
BY BoundAssumption, AttemptFacts, ContentFacts DEF Init, TypeOK, Phases, WriterSteps

\* Every step keeps the state well formed.
LEMMA TypeStep == TypeOK /\ [Next]_vars => TypeOK'
<1> SUFFICES ASSUME TypeOK, [Next]_vars PROVE TypeOK'
  OBVIOUS
<1> USE BoundAssumption, AttemptFacts, ContentFacts
          DEF TypeOK, Phases, WriterSteps, Goto, Fault, NoFault, Journal, recVars, RecFault
<1>1. ASSUME NEW w \in Writers, CreateStaging(w) PROVE TypeOK'
  BY <1>1 DEF CreateStaging
<1>2. ASSUME NEW w \in Writers, JournalStaging(w) PROVE TypeOK'
  BY <1>2 DEF JournalStaging
<1>3. ASSUME NEW w \in Writers, Write(w) PROVE TypeOK'
  BY <1>3 DEF Write
<1>4. ASSUME NEW w \in Writers, MarkPromoting(w) PROVE TypeOK'
  BY <1>4 DEF MarkPromoting
<1>5. ASSUME NEW w \in Writers, Archive(w) PROVE TypeOK'
  BY <1>5 DEF Archive
<1>6. ASSUME NEW w \in Writers, Swap(w) PROVE TypeOK'
  BY <1>6 DEF Swap
<1>7. ASSUME NEW w \in Writers, Rollback(w) PROVE TypeOK'
  BY <1>7 DEF Rollback
<1>8. ASSUME NEW w \in Writers, NoteRollback(w) PROVE TypeOK'
  BY <1>8 DEF NoteRollback
<1>9. ASSUME NEW w \in Writers, Discard(w) PROVE TypeOK'
  BY <1>9 DEF Discard
<1>10. ASSUME NEW w \in Writers, NoteDiscard(w) PROVE TypeOK'
  BY <1>10 DEF NoteDiscard
<1>11. ASSUME NEW w \in Writers, RemovePrevious(w) PROVE TypeOK'
  BY <1>11 DEF RemovePrevious
<1>12. ASSUME NEW w \in Writers, NoteCompleted(w) PROVE TypeOK'
  BY <1>12 DEF NoteCompleted
<1>13. ASSUME NEW w \in Writers, Crash(w) PROVE TypeOK'
  BY <1>13 DEF Crash
<1>14. CASE RecoverStart
  BY <1>14 DEF RecoverStart, Pending
<1>15. CASE RecoverNext
  BY <1>15 DEF RecoverNext
<1>16. CASE RecoverRestore
  BY <1>16 DEF RecoverRestore
<1>17. CASE RecoverDrop
  BY <1>17 DEF RecoverDrop
<1>18. CASE RecoverUnstage
  BY <1>18 DEF RecoverUnstage
<1>19. CASE RecoverNote
  BY <1>19 DEF RecoverNote
<1>20. CASE RecoverCrash
  BY <1>20 DEF RecoverCrash
<1>21. CASE UNCHANGED vars
  BY <1>21 DEF vars
<1>22. QED
  BY <1>1, <1>2, <1>3, <1>4, <1>5, <1>6, <1>7, <1>8, <1>9, <1>10, <1>11, <1>12, <1>13, <1>14, <1>15, <1>16, <1>17, <1>18, <1>19, <1>20, <1>21 DEF Next, WriterStep, RecoverStep

\* Every reachable state is well typed, whatever fails, crashes or interleaves
\* (promote, createStaging, discard, recoverPendingPromotions).
THEOREM TypeCorrect == Spec => []TypeOK
BY TypeInit, TypeStep, PTL DEF Spec

-----------------------------------------------------------------------------
(* The inductive invariant *)

\* A directory with anything in it, or empty, is there.
LEMMA DirFacts ==
  /\ \A n \in Nat : n # 0 => Exists({n})
  /\ Exists({}) /\ ~Exists(NoDir) /\ {0} = NoDir
BY DEF Exists, NoDir

\* Ids are shared by all attempts or by none.
LEMMA IdFacts ==
  /\ FixedId => \A m, n \in Nat : IdOf(m) = IdOf(n)
  /\ ~FixedId => \A n \in Nat : IdOf(n) = n
BY DEF IdOf

\* The inductive invariant holds before the first attempt.
LEMMA InvInit == Init => IInv
BY TypeInit, BoundAssumption, DirFacts
   DEF Init, IInv, Alone, StagingClean, Progress, Recoverable, ReaderSeesLastGood,
       LastGoodKept, Pending, BeforeCommit, Exists

\* Under the discipline every step of a writer and of recovery keeps it.
LEMMA InvStep == Discipline /\ IInv /\ [Next]_vars => IInv'
<1> SUFFICES ASSUME Discipline, IInv, [Next]_vars PROVE IInv'
  OBVIOUS
<1>t. TypeOK'
  BY TypeStep DEF IInv
<1> USE <1>t, BoundAssumption, ModeAssumption, AttemptFacts, DirFacts, IdFacts
    DEF IInv, TypeOK, Discipline, Last, Alone, StagingClean, Progress, Recoverable,
        ReaderSeesLastGood, LastGoodKept, Pending, BeforeCommit, WritersIdle,
        Goto, Fault, NoFault, Journal, recVars, RecFault, Phases, WriterSteps
<1>1. ASSUME NEW w \in Writers, CreateStaging(w) PROVE IInv'
  <2>1. Alone'
    BY <1>1, SMTT(30) DEF CreateStaging
  <2>2. StagingClean'
    <3>1. \A v \in Writers : pc'[v] # "idle" => v = w /\ pc'[v] = "journal"
      BY <1>1 DEF CreateStaging
    <3>2. Exists(staging'[IdOf(attempts')])
      BY <1>1 DEF CreateStaging
    <3>3. ~FixedId => staging'[IdOf(attempts')] = {}
      BY <1>1 DEF CreateStaging
    <3>4. ~FixedId => \A i \in Attempts : i > attempts' => ~Exists(staging'[i])
      BY <1>1 DEF CreateStaging, Attempts
    <3>5. QED
      BY <3>1, <3>2, <3>3, <3>4
  <2>3. Progress'
    BY <1>1, SMTT(30) DEF CreateStaging
  <2>4. Recoverable'
    BY <1>1, SMTT(30) DEF CreateStaging
  <2>5. ReaderSeesLastGood'
    BY <1>1, SMTT(30) DEF CreateStaging
  <2>6. LastGoodKept'
    BY <1>1, SMTT(30) DEF CreateStaging
  <2>7. QED
    BY <2>1, <2>2, <2>3, <2>4, <2>5, <2>6
<1>2. ASSUME NEW w \in Writers, JournalStaging(w) PROVE IInv'
  BY <1>2, SMTT(30) DEF JournalStaging
<1>3. ASSUME NEW w \in Writers, Write(w) PROVE IInv'
  BY <1>3, SMTT(30) DEF Write
<1>4. ASSUME NEW w \in Writers, MarkPromoting(w) PROVE IInv'
  BY <1>4, SMTT(30) DEF MarkPromoting
<1>5. ASSUME NEW w \in Writers, Archive(w) PROVE IInv'
  <2>1. Alone'
    BY <1>5, SMTT(30) DEF Archive
  <2>2. StagingClean'
    BY <1>5, SMTT(30) DEF Archive
  <2>3. Progress'
    <3>1. Exists(live) => committed # 0 /\ live = {committed}
      BY ZenonT(60)
    <3>2. QED
      BY <3>1, <1>5, SMTT(30) DEF Archive
  <2>4. Recoverable'
    BY <1>5, SMTT(30) DEF Archive
  <2>5. ReaderSeesLastGood'
    BY <1>5, SMTT(30) DEF Archive
  <2>6. LastGoodKept'
    BY <1>5, SMTT(30) DEF Archive
  <2>7. QED
    BY <2>1, <2>2, <2>3, <2>4, <2>5, <2>6
<1>6. ASSUME NEW w \in Writers, Swap(w) PROVE IInv'
  BY <1>6, SMTT(30) DEF Swap
<1>7. ASSUME NEW w \in Writers, Rollback(w) PROVE IInv'
  BY <1>7, SMTT(30) DEF Rollback
<1>8. ASSUME NEW w \in Writers, NoteRollback(w) PROVE IInv'
  BY <1>8, SMTT(30) DEF NoteRollback
<1>9. ASSUME NEW w \in Writers, Discard(w) PROVE IInv'
  BY <1>9, SMTT(30) DEF Discard
<1>10. ASSUME NEW w \in Writers, NoteDiscard(w) PROVE IInv'
  BY <1>10, SMTT(30) DEF NoteDiscard
<1>11. ASSUME NEW w \in Writers, RemovePrevious(w) PROVE IInv'
  BY <1>11, SMTT(30) DEF RemovePrevious
<1>12. ASSUME NEW w \in Writers, NoteCompleted(w) PROVE IInv'
  BY <1>12, SMTT(30) DEF NoteCompleted
<1>13. ASSUME NEW w \in Writers, Crash(w) PROVE IInv'
  BY <1>13, SMTT(30) DEF Crash
<1>14. CASE RecoverStart
  BY <1>14, SMTT(30) DEF RecoverStart
<1>15. CASE RecoverNext
  BY <1>15, SMTT(30) DEF RecoverNext
<1>16. CASE RecoverRestore
  <2>1. Alone'
    BY <1>16, SMTT(30) DEF RecoverRestore, MustRestore
  <2>2. StagingClean'
    BY <1>16, SMTT(30) DEF RecoverRestore, MustRestore
  <2>3. Progress'
    BY <1>16, SMTT(30) DEF RecoverRestore, MustRestore
  <2>4. Recoverable'
    BY <1>16, SMTT(30) DEF RecoverRestore, MustRestore
  <2>5. ReaderSeesLastGood'
    BY <1>16, SMTT(30) DEF RecoverRestore, MustRestore
  <2>6. LastGoodKept'
    BY <1>16, SMTT(30) DEF RecoverRestore, MustRestore
  <2>7. QED
    BY <2>1, <2>2, <2>3, <2>4, <2>5, <2>6
<1>17. CASE RecoverDrop
  BY <1>17, SMTT(30) DEF RecoverDrop, MustRestore
<1>18. CASE RecoverUnstage
  BY <1>18, SMTT(30) DEF RecoverUnstage
<1>19. CASE RecoverNote
  BY <1>19, SMTT(30) DEF RecoverNote
<1>20. CASE RecoverCrash
  BY <1>20, SMTT(30) DEF RecoverCrash
<1>21. CASE UNCHANGED vars
  BY <1>21 DEF vars
<1>22. QED
  BY <1>1, <1>2, <1>3, <1>4, <1>5, <1>6, <1>7, <1>8, <1>9, <1>10, <1>11, <1>12, <1>13, <1>14, <1>15, <1>16, <1>17, <1>18, <1>19, <1>20, <1>21 DEF Next, WriterStep, RecoverStep

\* So it holds throughout.
LEMMA Invariance == ASSUME Discipline PROVE Spec => []IInv
<1>1. IInv /\ [Next]_vars => IInv'
  BY InvStep
<1>2. QED
  BY InvInit, <1>1, PTL DEF Spec

-----------------------------------------------------------------------------
(* What follows from it *)

\* promote, discard and recoverPendingPromotions: whatever fails or crashes,
\* no step deletes the only copy of the content that was last live.
THEOREM LastGoodIsKept == ASSUME Discipline PROVE Spec => []LastGoodKept
<1>1. IInv => LastGoodKept
  BY DEF IInv
<1>2. QED
  BY Invariance, <1>1, PTL

\* A reader of the target sees nothing or exactly the content last made live.
THEOREM NeverAMix == ASSUME Discipline PROVE Spec => []ReaderSeesLastGood
<1>1. IInv => ReaderSeesLastGood
  BY DEF IInv
<1>2. QED
  BY Invariance, <1>1, PTL

\* recoverPendingPromotions: when nothing runs and no entry is pending, the
\* last good content is back in the target.
THEOREM RecoveryRestores ==
  ASSUME Discipline, RecoveryMode = "onNextUse" PROVE Spec => []RestoredWhenQuiet
<1>1. IInv => RestoredWhenQuiet
  BY DEF IInv, Recoverable, ReaderSeesLastGood, RestoredWhenQuiet, Exists
<1>2. QED
  BY Invariance, <1>1, PTL

-----------------------------------------------------------------------------
(* Refinement of the reader's contract *)

\* A step that a reader can see is one the contract allows.
LEMMA ContractStep ==
  ASSUME Discipline, IInv, IInv', [Next]_vars
  PROVE  [Contract!Next]_<<live, {committed}>>
<1> USE DEF Contract!Next, Contract!Publish, Contract!Vanish, Contract!Return
<1>1. ASSUME live' = live, committed' = committed
      PROVE  [Contract!Next]_<<live, {committed}>>
  BY <1>1
<1>2. ASSUME NEW w \in Writers, Archive(w)
      PROVE  [Contract!Next]_<<live, {committed}>>
  <2>1. CASE live' = live
    BY <2>1, <1>1, <1>2 DEF Archive
  <2>2. CASE live' # live
    <3>1. live' = NoDir /\ live # NoDir /\ committed' = committed
      BY <1>2, <2>2 DEF Archive, Exists
    <3>2. live = {committed}
      BY <3>1 DEF IInv, ReaderSeesLastGood
    <3>3. QED
      BY <3>1, <3>2
  <2>3. QED
    BY <2>1, <2>2
<1>3. ASSUME NEW w \in Writers, Swap(w)
      PROVE  [Contract!Next]_<<live, {committed}>>
  <2>1. CASE UNCHANGED <<live, committed>>
    BY <2>1, <1>1
  <2>2. CASE ~UNCHANGED <<live, committed>>
    <3>1. /\ live = NoDir /\ live' = staging[IdOf(cur[w])]
          /\ committed' = cur[w] /\ pc[w] = "swap"
      BY <1>3, <2>2 DEF Swap, Exists
    <3>2. /\ cur[w] = attempts /\ attempts # 0 /\ committed < attempts
          /\ staging[IdOf(attempts)] = {attempts}
      BY <3>1 DEF IInv, Alone, Progress, StagingClean, BeforeCommit, Last
    <3>3. cur[w] \in Attempts
      BY DEF IInv, TypeOK
    <3>4. live' = {cur[w]} /\ {committed'} = {cur[w]} /\ \A u \in {committed} : u < cur[w]
      BY <3>1, <3>2
    <3>5. QED
      BY <3>1, <3>3, <3>4
  <2>3. QED
    BY <2>1, <2>2
<1>4. ASSUME live = NoDir, committed' = committed, live' # live
      PROVE  [Contract!Next]_<<live, {committed}>>
  BY <1>4 DEF IInv, ReaderSeesLastGood
<1>5. ASSUME NEW w \in Writers, Rollback(w)
      PROVE  [Contract!Next]_<<live, {committed}>>
  BY <1>1, <1>4, <1>5 DEF Rollback, Exists
<1>6. CASE RecoverRestore
  BY <1>1, <1>4, <1>6 DEF RecoverRestore, MustRestore, Exists
<1>7. CASE UNCHANGED vars
  BY <1>1, <1>7 DEF vars
<1>8. ASSUME NEW w \in Writers,
             \/ CreateStaging(w) \/ JournalStaging(w) \/ Write(w) \/ MarkPromoting(w)
             \/ NoteRollback(w) \/ Discard(w) \/ NoteDiscard(w) \/ RemovePrevious(w)
             \/ NoteCompleted(w) \/ Crash(w)
      PROVE  [Contract!Next]_<<live, {committed}>>
  BY <1>1, <1>8 DEF CreateStaging, JournalStaging, Write, MarkPromoting, NoteRollback,
     Discard, NoteDiscard, RemovePrevious, NoteCompleted, Crash
<1>9. CASE RecoverStart \/ RecoverNext \/ RecoverDrop \/ RecoverUnstage \/ RecoverNote
           \/ RecoverCrash
  BY <1>1, <1>9 DEF RecoverStart, RecoverNext, RecoverDrop, RecoverUnstage, RecoverNote,
     RecoverCrash
<1>10. QED
  BY <1>2, <1>3, <1>5, <1>6, <1>7, <1>8, <1>9 DEF Next, WriterStep, RecoverStep

\* The two-rename swap, with its rollback, its crashes and its recovery,
\* implements the contract its readers are promised.
THEOREM Refinement == ASSUME Discipline PROVE Spec => RefinesContract
<1>1. Init => Contract!Init
  BY DirFacts DEF Init, Contract!Init
<1>2. IInv /\ IInv' /\ [Next]_vars => [Contract!Next]_<<live, {committed}>>
  BY ContractStep
<1>3. QED
  BY Invariance, <1>1, <1>2, PTL DEF Spec, RefinesContract, Contract!Spec


-----------------------------------------------------------------------------
(* Writers without a lock and without a recovery, as the repository has them *)

\* The content of attempt n has been in the target, or may still come back to it.
Spent(n) == live = {n} \/ committed = n \/ \E i \in Attempts : previous[i] = {n}

\* An id is used by one writer at a time, and was handed out.
OwnIds ==
  /\ recStep = "idle"
  /\ \A v, w \in Writers : pc[v] # "idle" /\ pc[w] # "idle" /\ cur[v] = cur[w] => v = w
  /\ \A w \in Writers : pc[w] # "idle" => cur[w] <= attempts

\* What a writer is to rename into the target was never there, and the archive it
\* is to remove does not hold what was renamed there last.
Unspent ==
  /\ \A n \in Attempts : Spent(n) => n <= attempts
  /\ \A i \in Attempts : i > attempts => ~Exists(previous[i]) /\ ~Exists(staging[i])
  /\ \A w \in Writers :
       /\ pc[w] \in {"journal", "write"} => staging[cur[w]] = {}
       /\ pc[w] \in {"mark", "archive", "swap"} => staging[cur[w]] = {cur[w]}
       /\ pc[w] \in {"journal", "write", "mark", "archive", "swap"} => ~Spent(cur[w])
       /\ pc[w] = "clean" => previous[cur[w]] # {committed}

SharedInv == TypeOK /\ OwnIds /\ Unspent /\ LastGoodKept

\* A swap puts the content of its own attempt into the target, unless it fails.
LEMMA SharedSwap ==
  ASSUME ~FixedId, SharedInv, NEW w \in Writers, Swap(w), TypeOK'
  PROVE  SharedInv'
<1>1. /\ pc[w] = "swap" /\ IdOf(cur[w]) = cur[w] /\ pc \in [Writers -> WriterSteps] /\ cur[w] \in Attempts
      /\ \A i \in Attempts : staging[i] = NoDir => ~Exists(staging[i])
  BY DEF SharedInv, TypeOK, Swap, IdOf, Exists
<1>2. cur[w] <= attempts /\ staging[cur[w]] = {cur[w]} /\ ~Spent(cur[w])
  BY <1>1 DEF SharedInv, OwnIds, Unspent
<1>3. /\ UNCHANGED <<previous, attempts, cur, recStep>>
      /\ \A v \in Writers : v # w => pc'[v] = pc[v]
      /\ pc'[w] \notin {"idle", "journal", "write", "mark", "archive", "swap"}
      /\ pc'[w] = "clean" => committed' = cur[w]
      /\ \A i \in Attempts : i # cur[w] => staging'[i] = staging[i]
      /\ staging'[cur[w]] \in {staging[cur[w]], NoDir}
  BY <1>1 DEF Swap, Goto, recVars, SharedInv, TypeOK
<1>4. \/ live' = live /\ committed' = committed
      \/ live' = {cur[w]} /\ committed' = cur[w]
  <2>1. \/ live' = live /\ committed' = committed
        \/ live' = staging[IdOf(cur[w])] /\ committed' = cur[w]
    BY DEF Swap
  <2>2. QED
    BY <1>1, <1>2, <2>1
<1>5. \A n \in Attempts : Spent(n)' => Spent(n) \/ n = cur[w]
  BY <1>3, <1>4 DEF Spent
<1>6. OwnIds'
  BY <1>1, <1>3 DEF SharedInv, OwnIds
<1>7. LastGoodKept'
  BY <1>3, <1>4 DEF SharedInv, LastGoodKept
<1>8. \A n \in Attempts : Spent(n)' => n <= attempts'
  BY <1>2, <1>3, <1>5 DEF SharedInv, Unspent
<1>9. \A i \in Attempts : i > attempts' => ~Exists(previous'[i]) /\ ~Exists(staging'[i])
  BY <1>3, <1>1 DEF SharedInv, Unspent, Exists
<1>10. ASSUME NEW v \in Writers, v # w
       PROVE  /\ pc'[v] \in {"journal", "write"} => staging'[cur'[v]] = {}
              /\ pc'[v] \in {"mark", "archive", "swap"} => staging'[cur'[v]] = {cur'[v]}
              /\ pc'[v] \in {"journal", "write", "mark", "archive", "swap"} => ~Spent(cur[v])'
              /\ pc'[v] = "clean" => previous'[cur'[v]] # {committed'}
  <2>1. cur[v] \in Attempts /\ cur'[v] = cur[v] /\ pc'[v] = pc[v] /\ (pc[v] # "idle" => cur[v] # cur[w])
    BY <1>1, <1>3, <1>10 DEF SharedInv, TypeOK, OwnIds
  <2>2. Spent(cur[v])' => Spent(cur[v]) \/ cur[v] = cur[w]
    BY <2>1, <1>3, <1>4 DEF Spent
  <2>3. previous[cur[v]] # {cur[w]}
    BY <2>1, <1>2 DEF Spent
  <2>4. QED
    BY <2>1, <2>2, <2>3, <1>3, <1>4 DEF SharedInv, Unspent
<1>11. pc'[w] = "clean" => previous'[cur'[w]] # {committed'}
  BY <1>1, <1>2, <1>3 DEF Spent
<1>12. Unspent'
  BY <1>3, <1>8, <1>9, <1>10, <1>11 DEF Unspent
<1>. QED
  BY <1>6, <1>7, <1>12 DEF SharedInv

\* Ids of their own and no recovery: what a step of any writer may not do to the others.
LEMMA SharedStep ==
  ~FixedId /\ RecoveryMode = "never" /\ SharedInv /\ [Next]_vars => SharedInv'
<1> SUFFICES ASSUME ~FixedId, RecoveryMode = "never", SharedInv, [Next]_vars PROVE SharedInv'
  OBVIOUS
<1>t. TypeOK'
  BY TypeStep DEF SharedInv
<1> USE <1>t, BoundAssumption, AttemptFacts, DirFacts, IdFacts
    DEF SharedInv, TypeOK, OwnIds, Unspent, Spent, LastGoodKept,
        Goto, Fault, NoFault, Journal, recVars, WriterSteps
<1>1. ASSUME NEW w \in Writers, CreateStaging(w) PROVE SharedInv'
  <2>0. /\ attempts' = attempts + 1 /\ attempts \in Nat /\ UNCHANGED <<live, previous, committed>>
        /\ \A i \in Attempts : i \in Nat /\ (i # attempts + 1 => staging'[i] = staging[i])
        /\ \A v \in Writers : v # w => cur'[v] = cur[v] /\ pc'[v] = pc[v]
        /\ cur'[w] = attempts + 1 /\ recStep' = "idle"
        /\ \A v \in Writers : cur[v] \in Nat
    BY <1>1 DEF CreateStaging
  <2>1. OwnIds'
    BY <2>0
  <2>2. \A n \in Attempts : Spent(n)' => n <= attempts'
    <3>1. \A n \in Attempts : Spent(n)' => Spent(n)
      BY <2>0
    <3>2. \A n \in Attempts : Spent(n) => n <= attempts
      OBVIOUS
    <3>. HIDE DEF Spent
    <3>3. QED
      BY <3>1, <3>2, <2>0
  <2>3. \A i \in Attempts : i > attempts' => ~Exists(previous'[i]) /\ ~Exists(staging'[i])
    <3>1. \A i \in Attempts : i > attempts => ~Exists(previous[i]) /\ ~Exists(staging[i])
      OBVIOUS
    <3>2. QED
      BY <2>0, <3>1
  <2>4. \A v \in Writers : pc'[v] \in {"journal", "write"} => staging'[cur'[v]] = {}
    BY <1>1 DEF CreateStaging
  <2>5. \A v \in Writers : pc'[v] \in {"mark", "archive", "swap"} => staging'[cur'[v]] = {cur'[v]}
    BY <1>1 DEF CreateStaging
  <2>6. \A v \in Writers :
          pc'[v] \in {"journal", "write", "mark", "archive", "swap"} => ~Spent(cur[v])'
    BY <1>1 DEF CreateStaging
  <2>7. \A v \in Writers : pc'[v] = "clean" => previous'[cur'[v]] # {committed'}
    BY <1>1 DEF CreateStaging
  <2>8. LastGoodKept'
    BY <1>1 DEF CreateStaging
  <2>9. QED
    BY <2>1, <2>2, <2>3, <2>4, <2>5, <2>6, <2>7, <2>8
<1>2. ASSUME NEW w \in Writers, JournalStaging(w) PROVE SharedInv'
  BY <1>2, SMTT(30) DEF JournalStaging
<1>3. ASSUME NEW w \in Writers, Write(w) PROVE SharedInv'
  BY <1>3, SMTT(30) DEF Write
<1>4. ASSUME NEW w \in Writers, MarkPromoting(w) PROVE SharedInv'
  BY <1>4, SMTT(30) DEF MarkPromoting
<1>5. ASSUME NEW w \in Writers, Archive(w) PROVE SharedInv'
  <2>1. OwnIds'
    BY <1>5 DEF Archive
  <2>2. \A n \in Attempts : Spent(n)' => n <= attempts'
    <3>1. \A n \in Attempts : Spent(n)' => Spent(n)
      <4>1. /\ committed' = committed /\ live' \in {live, NoDir}
            /\ \A i \in Attempts : previous'[i] \in {previous[i], live}
        BY <1>5 DEF Archive
      <4>2. \A n \in Attempts : {n} # NoDir
        BY DEF NoDir
      <4>3. QED
        BY <4>1, <4>2
    <3>2. attempts' = attempts /\ \A n \in Attempts : Spent(n) => n <= attempts
      BY <1>5 DEF Archive
    <3>. HIDE DEF Spent
    <3>3. QED
      BY <3>1, <3>2
  <2>3. \A i \in Attempts : i > attempts' => ~Exists(previous'[i]) /\ ~Exists(staging'[i])
    BY <1>5, SMTT(30) DEF Archive
  <2>4. \A v \in Writers : pc'[v] \in {"journal", "write"} => staging'[cur'[v]] = {}
    BY <1>5 DEF Archive
  <2>5. \A v \in Writers : pc'[v] \in {"mark", "archive", "swap"} => staging'[cur'[v]] = {cur'[v]}
    BY <1>5 DEF Archive
  <2>6. \A v \in Writers :
          pc'[v] \in {"journal", "write", "mark", "archive", "swap"} => ~Spent(cur[v])'
    BY <1>5, SMTT(30) DEF Archive
  <2>7. \A v \in Writers : pc'[v] = "clean" => previous'[cur'[v]] # {committed'}
    BY <1>5, SMTT(30) DEF Archive
  <2>8. LastGoodKept'
    BY <1>5, SMTT(30) DEF Archive
  <2>9. QED
    BY <2>1, <2>2, <2>3, <2>4, <2>5, <2>6, <2>7, <2>8
<1>6. ASSUME NEW w \in Writers, Swap(w) PROVE SharedInv'
  BY <1>6, SharedSwap
<1>7. ASSUME NEW w \in Writers, Rollback(w) PROVE SharedInv'
  <2>1. OwnIds'
    BY <1>7 DEF Rollback
  <2>2. \A n \in Attempts : Spent(n)' => n <= attempts'
    <3>1. \A n \in Attempts : Spent(n)' => Spent(n)
      <4>1. /\ committed' = committed /\ \A i \in Attempts : previous'[i] \in {previous[i], NoDir}
            /\ live' = live \/ \E i \in Attempts : live' = previous[i]
        BY <1>7 DEF Rollback
      <4>2. \A n \in Attempts : {n} # NoDir
        BY DEF NoDir
      <4>3. QED
        BY <4>1, <4>2
    <3>2. attempts' = attempts /\ \A n \in Attempts : Spent(n) => n <= attempts
      BY <1>7 DEF Rollback
    <3>. HIDE DEF Spent
    <3>3. QED
      BY <3>1, <3>2
  <2>3. \A i \in Attempts : i > attempts' => ~Exists(previous'[i]) /\ ~Exists(staging'[i])
    BY <1>7 DEF Rollback
  <2>4. \A v \in Writers : pc'[v] \in {"journal", "write"} => staging'[cur'[v]] = {}
    BY <1>7 DEF Rollback
  <2>5. \A v \in Writers : pc'[v] \in {"mark", "archive", "swap"} => staging'[cur'[v]] = {cur'[v]}
    BY <1>7 DEF Rollback
  <2>6. \A v \in Writers :
          pc'[v] \in {"journal", "write", "mark", "archive", "swap"} => ~Spent(cur[v])'
    BY <1>7 DEF Rollback
  <2>7. \A v \in Writers : pc'[v] = "clean" => previous'[cur'[v]] # {committed'}
    BY <1>7 DEF Rollback
  <2>8. LastGoodKept'
    BY <1>7 DEF Rollback
  <2>9. QED
    BY <2>1, <2>2, <2>3, <2>4, <2>5, <2>6, <2>7, <2>8
<1>8. ASSUME NEW w \in Writers, NoteRollback(w) PROVE SharedInv'
  BY <1>8, SMTT(30) DEF NoteRollback
<1>9. ASSUME NEW w \in Writers, Discard(w) PROVE SharedInv'
  BY <1>9, SMTT(30) DEF Discard
<1>10. ASSUME NEW w \in Writers, NoteDiscard(w) PROVE SharedInv'
  BY <1>10, SMTT(30) DEF NoteDiscard
<1>11. ASSUME NEW w \in Writers, RemovePrevious(w) PROVE SharedInv'
  <2>1. OwnIds'
    BY <1>11, SMTT(30) DEF RemovePrevious
  <2>2. \A n \in Attempts : Spent(n)' => n <= attempts'
    BY <1>11, SMTT(30) DEF RemovePrevious
  <2>3. \A i \in Attempts : i > attempts' => ~Exists(previous'[i]) /\ ~Exists(staging'[i])
    BY <1>11, SMTT(30) DEF RemovePrevious
  <2>4. \A v \in Writers : pc'[v] \in {"journal", "write"} => staging'[cur'[v]] = {}
    BY <1>11, SMTT(30) DEF RemovePrevious
  <2>5. \A v \in Writers : pc'[v] \in {"mark", "archive", "swap"} => staging'[cur'[v]] = {cur'[v]}
    BY <1>11, SMTT(30) DEF RemovePrevious
  <2>6. \A v \in Writers :
          pc'[v] \in {"journal", "write", "mark", "archive", "swap"} => ~Spent(cur[v])'
    BY <1>11, SMTT(30) DEF RemovePrevious
  <2>7. \A v \in Writers : pc'[v] = "clean" => previous'[cur'[v]] # {committed'}
    BY <1>11, SMTT(30) DEF RemovePrevious
  <2>8. LastGoodKept'
    BY <1>11, SMTT(30) DEF RemovePrevious
  <2>9. QED
    BY <2>1, <2>2, <2>3, <2>4, <2>5, <2>6, <2>7, <2>8
<1>12. ASSUME NEW w \in Writers, NoteCompleted(w) PROVE SharedInv'
  BY <1>12, SMTT(30) DEF NoteCompleted
<1>13. ASSUME NEW w \in Writers, Crash(w) PROVE SharedInv'
  BY <1>13, SMTT(30) DEF Crash
<1>14. CASE RecoverStart \/ RecoverStep \/ RecoverCrash
  BY <1>14 DEF RecoverStep, RecoverStart, RecoverNext, RecoverRestore, RecoverDrop,
               RecoverUnstage, RecoverNote, RecoverCrash
<1>15. CASE UNCHANGED vars
  BY <1>15 DEF vars
<1>. HIDE DEF SharedInv, TypeOK, OwnIds, Unspent, LastGoodKept, Goto, Fault, NoFault, Journal, recVars, WriterSteps, Spent
<1>16. QED
  BY <1>1, <1>2, <1>3, <1>4, <1>5, <1>6, <1>7, <1>8, <1>9, <1>10, <1>11, <1>12, <1>13, <1>14, <1>15
     DEF Next, WriterStep

\* promote as the repository uses it, where nothing calls the recovery: whatever any
\* number of writers do to each other, locked or not, and whatever fails or crashes,
\* the content that was last renamed into the target is still on disk.
THEOREM NothingIsOverwritten == ASSUME RecoveryMode = "never" PROVE Spec => []LastGoodKept
<1>1. CASE FixedId
  BY <1>1, LastGoodIsKept, ModeAssumption DEF Discipline
<1>2. CASE ~FixedId
  <2>1. Init => SharedInv
    BY TypeInit, BoundAssumption, DirFacts
       DEF Init, SharedInv, OwnIds, Unspent, Spent, LastGoodKept
  <2>2. SharedInv /\ [Next]_vars => SharedInv'
    BY <1>2, SharedStep
  <2>3. SharedInv => LastGoodKept
    BY DEF SharedInv
  <2>4. QED
    BY <2>1, <2>2, <2>3, PTL DEF Spec
<1>3. QED
  BY <1>1, <1>2

=============================================================================
