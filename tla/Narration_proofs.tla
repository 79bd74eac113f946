-------------------------- MODULE Narration_proofs --------------------------
(***************************************************************************)
(* Proofs about Narration, for every set of runs and jobs, every batch and *)
(* every number of failing writes and crashes.                             *)
(***************************************************************************)
EXTENDS Narration, TLAPS

In(j, queue) == \E i \in DOMAIN queue : queue[i] = j

\* What is in a queue is its head or in its tail.
LEMMA HeadTail ==
  ASSUME NEW S, NEW queue \in Seq(S), queue # <<>>
  PROVE  /\ Head(queue) \in S /\ Tail(queue) \in Seq(S)
         /\ \A j : In(j, queue) <=> j = Head(queue) \/ In(j, Tail(queue))
<1>1. Len(queue) \in Nat \ {0} /\ DOMAIN queue = 1..Len(queue)
  OBVIOUS
<1>2. Head(queue) = queue[1] /\ Head(queue) \in S
  BY <1>1
<1>3. /\ Tail(queue) \in Seq(S) /\ Len(Tail(queue)) = Len(queue) - 1
      /\ \A i \in 1..Len(queue) - 1 : Tail(queue)[i] = queue[i + 1]
  BY <1>1
<1>4. ASSUME NEW j, In(j, queue) PROVE j = Head(queue) \/ In(j, Tail(queue))
  <2>1. PICK i \in 1..Len(queue) : queue[i] = j
    BY <1>1, <1>4 DEF In
  <2>2. CASE i = 1
    BY <1>2, <2>1, <2>2
  <2>3. CASE i # 1
    <3>1. i - 1 \in 1..Len(queue) - 1 /\ (i - 1) + 1 = i
      BY <1>1, <2>1, <2>3
    <3>2. Tail(queue)[i - 1] = j /\ i - 1 \in DOMAIN Tail(queue)
      BY <1>3, <2>1, <3>1
    <3>3. QED
      BY <3>2 DEF In
  <2>4. QED
    BY <2>2, <2>3
<1>5. ASSUME NEW j, In(j, Tail(queue)) PROVE In(j, queue)
  <2>1. PICK i \in 1..Len(queue) - 1 : Tail(queue)[i] = j
    BY <1>3, <1>5 DEF In
  <2>2. i + 1 \in DOMAIN queue /\ queue[i + 1] = j
    BY <1>1, <1>3, <2>1
  <2>3. QED
    BY <2>2 DEF In
<1>6. In(Head(queue), queue)
  BY <1>1, <1>2 DEF In
<1>7. QED
  BY <1>2, <1>3, <1>4, <1>5, <1>6

\* An empty queue has no elements.
LEMMA EmptyQueue == ASSUME NEW j PROVE ~In(j, <<>>)
BY DEF In

-----------------------------------------------------------------------------
(* Type correctness, and what record relies on *)

\* A run between two steps on a job has that job at the head of its queue, and
\* saves the sections of a job it has narrated.
InHand ==
  \A r \in Runs :
    /\ pc[r] \in {"lock", "vacate", "fill", "saveVacate", "saveFill"} => todo[r] # <<>>
    /\ pc[r] \in {"saveVacate", "saveFill"} => outcome[r][Job(r)] \in Drafts

\* A run that replaces the journal holds the lock, and the journal is still, or
\* was when it was moved aside, what the run has read, if it could read it.
RecordHoldsLock ==
  \A r \in Runs :
    /\ pc[r] \in {"vacate", "fill"} => r \in lock
    /\ pc[r] = "vacate" => snapshot[r] = IF r \in misread THEN Unwritten ELSE journal
    /\ pc[r] = "fill" => snapshot[r] = IF r \in misread THEN Unwritten ELSE aside[r]

RecordInv == TypeOK /\ InHand /\ RecordHoldsLock

\* Before the runs start nothing is in hand and nobody holds the lock.
LEMMA RecordInit == Init => RecordInv
<1> SUFFICES ASSUME Init PROVE RecordInv
  OBVIOUS
<1> USE DEF Init
<1>1. <<>> \in Seq(Jobs)
  OBVIOUS
<1>2. Unwritten \in [Jobs -> Statuses]
  BY DEF Unwritten, Statuses
<1>3. pc \in [Runs -> Steps] /\ todo \in [Runs -> Seq(Jobs)] /\ known \in [Runs -> SUBSET Jobs]
  BY <1>1 DEF Steps
<1>4. /\ entry \in [Runs -> Drafts \cup {"failed"}] /\ outcome \in [Runs -> [Jobs -> Outcomes]]
      /\ sectionsAside \in [Runs -> Saved] /\ sections \in [Jobs -> Saved]
  BY DEF Outcomes, Saved
<1>5. /\ merged \in [Runs -> [Jobs -> Markdown]] /\ documents \in [Jobs -> Markdown]
      /\ warned \in [Runs -> [Jobs -> SUBSET Warnings]]
  BY DEF Markdown
<1>6. faults \in 0..MaxFaults /\ crashes \in 0..MaxCrashes
  BY BoundAssumption
<1>7. TypeOK
  BY <1>2, <1>3, <1>4, <1>5, <1>6 DEF TypeOK
<1>8. QED
  BY <1>7 DEF RecordInv, InHand, RecordHoldsLock

\* An entry of a table of tables may be replaced by one of the same type.
LEMMA UpdateEntry ==
  ASSUME NEW S, NEW T, NEW V, NEW f \in [S -> [T -> V]], NEW x \in S, NEW y \in T, NEW v \in V
  PROVE  [f EXCEPT ![x][y] = v] \in [S -> [T -> V]]
OBVIOUS

\* The counters stay within their bounds.
LEMMA CounterBounds ==
  ASSUME TypeOK
  PROVE  /\ Fault => faults' \in 0..MaxFaults
         /\ \A r \in Runs : Crash(r) => crashes' \in 0..MaxCrashes
<1>1. MaxFaults \in Nat /\ MaxCrashes \in Nat /\ faults \in 0..MaxFaults /\ crashes \in 0..MaxCrashes
  BY BoundAssumption DEF TypeOK
<1>2. QED
  BY <1>1 DEF Fault, Crash

\* A warning about a job keeps the type of the warnings.
LEMMA WarningsTyped ==
  ASSUME TypeOK, NEW r \in Runs, Job(r) \in Jobs, NEW w \in Warnings, Warn(r, w)
  PROVE  warned' \in [Runs -> [Jobs -> SUBSET Warnings]]
<1>1. warned \in [Runs -> [Jobs -> SUBSET Warnings]]
  BY DEF TypeOK
<1>2. warned[r][Job(r)] \cup {w} \in SUBSET Warnings
  BY <1>1
<1>3. QED
  BY <1>1, <1>2, UpdateEntry DEF Warn

\* What a run knows and reads keeps its type, whether or not the journal can be read.
LEMMA ReadsTyped ==
  ASSUME TypeOK, NEW r \in Runs
  PROVE  /\ Load(r) => known' \in [Runs -> SUBSET Jobs]
         /\ RecordRead(r) => snapshot' \in [Runs -> [Jobs -> Statuses]]
<1>1. known \in [Runs -> SUBSET Jobs] /\ snapshot \in [Runs -> [Jobs -> Statuses]]
      /\ journal \in [Jobs -> Statuses]
  BY DEF TypeOK
<1>2. Unwritten \in [Jobs -> Statuses]
  BY DEF Unwritten, Statuses
<1>3. ASSUME Load(r) PROVE known' \in [Runs -> SUBSET Jobs]
  <2> DEFINE done == {j \in Jobs : journal[j] = "completed"}
  <2>1. known' = [known EXCEPT ![r] = done] \/ known' = known
    BY <1>3 DEF Load
  <2>2. done \in SUBSET Jobs
    OBVIOUS
  <2> HIDE DEF done
  <2>3. QED
    BY <1>1, <2>1, <2>2
<1>4. ASSUME RecordRead(r) PROVE snapshot' \in [Runs -> [Jobs -> Statuses]]
  <2>1. snapshot' = [snapshot EXCEPT ![r] = journal] \/ snapshot' = [snapshot EXCEPT ![r] = Unwritten]
    BY <1>4 DEF RecordRead
  <2>2. QED
    BY <1>1, <1>2, <2>1
<1>5. QED
  BY <1>3, <1>4

\* So do the journal a failed record puts back, the narrative of a reused job
\* and the documents a run publishes.
LEMMA RolledBackTyped ==
  ASSUME TypeOK, NEW r \in Runs, RecordFails(r) PROVE journal' \in [Jobs -> Statuses]
<1>1. journal \in [Jobs -> Statuses] /\ aside[r] \in [Jobs -> Statuses]
  BY DEF TypeOK
<1>2. journal' = journal \/ journal' = aside[r]
  BY DEF RecordFails
<1>3. QED
  BY <1>1, <1>2

\* Merging the sections of an earlier narration keeps the merged documents typed.
LEMMA ReusedTyped ==
  ASSUME TypeOK, NEW r \in Runs, Job(r) \in Jobs, FoldSkipped(r)
  PROVE  merged' \in [Runs -> [Jobs -> Markdown]]
<1>1. merged \in [Runs -> [Jobs -> Markdown]]
  BY DEF TypeOK
<1>2. Rerendered(sections[Job(r)]) \in Markdown
  BY DEF Rerendered, Markdown
<1>3. CASE merged' = merged
  BY <1>1, <1>3
<1>4. CASE merged' = [merged EXCEPT ![r][Job(r)] = Rerendered(sections[Job(r)])]
  BY <1>1, <1>2, <1>4, UpdateEntry
<1>5. QED
  BY <1>3, <1>4 DEF FoldSkipped

\* Publishing keeps the documents typed, whether or not it fails.
LEMMA PublishedTyped ==
  ASSUME TypeOK, NEW r \in Runs, Publish(r)
  PROVE  /\ documents' \in [Jobs -> Markdown]
         /\ pc' \in [Runs -> Steps] /\ faults' \in 0..MaxFaults
<1>1. merged[r] \in [Jobs -> Markdown] /\ documents \in [Jobs -> Markdown]
  BY DEF TypeOK
<1>2. documents' \in [Jobs -> Markdown]
  <2>1. CASE documents' = documents
    BY <1>1, <2>1
  <2>2. CASE documents' = [j \in Jobs |->
             IF \E i \in DOMAIN Batch[r] : Batch[r][i] = j THEN merged[r][j] ELSE documents[j]]
    BY <1>1, <2>2
  <2>3. QED
    BY <2>1, <2>2 DEF Publish
<1>3. pc' \in [Runs -> Steps]
  <2>1. pc \in [Runs -> Steps]
    BY DEF TypeOK
  <2>2. \E step \in {"done", "unpublished"} : pc' = [pc EXCEPT ![r] = step]
    BY DEF Publish, Goto
  <2>3. QED
    BY <2>1, <2>2 DEF Steps, Ended
<1>4. faults' \in 0..MaxFaults
  <2>1. faults \in 0..MaxFaults
    BY DEF TypeOK
  <2>2. faults' = faults \/ Fault
    BY DEF Publish
  <2>3. QED
    BY <2>1, <2>2, CounterBounds
<1>5. QED
  BY <1>2, <1>3, <1>4

\* Every step of the queue, the journal and the fold keeps the state typed.
LEMMA TypeStep == RecordInv /\ [Next]_vars => TypeOK'
<1> SUFFICES ASSUME RecordInv, [Next]_vars PROVE TypeOK'
  OBVIOUS
<1> USE DraftAssumption, BoundAssumption
    DEF DraftKinds, RecordInv, TypeOK, InHand, Steps, Ended, Outcomes, Statuses, Saved, Markdown, Warnings,
        Goto, At, NextJob, Job, Warn, Fault, memory, moved, disk
<1>0. ASSUME NEW r \in Runs, todo[r] # <<>> PROVE Head(todo[r]) \in Jobs /\ Tail(todo[r]) \in Seq(Jobs)
  BY <1>0, HeadTail
<1>f. /\ Fault => faults' \in 0..MaxFaults
      /\ \A r \in Runs : Crash(r) => crashes' \in 0..MaxCrashes
  BY CounterBounds
<1>1. ASSUME NEW r \in Runs, Load(r) PROVE TypeOK'
  <2>1. known' \in [Runs -> SUBSET Jobs]
    BY <1>1, ReadsTyped
  <2>2. todo' \in [Runs -> Seq(Jobs)] /\ pc' \in [Runs -> Steps]
    BY <1>1, BatchAssumption DEF Load
  <2>3. faults' \in 0..MaxFaults
    BY <1>1, <1>f DEF Load
  <2>4. QED
    BY <1>1, <2>1, <2>2, <2>3 DEF Load
<1>2. ASSUME NEW r \in Runs, Skip(r) PROVE TypeOK'
  BY <1>0, <1>2 DEF Skip
<1>3. ASSUME NEW r \in Runs, Narrate(r) PROVE TypeOK'
  <2>1. PICK result \in Drafts \cup {"failed"} : entry' = [entry EXCEPT ![r] = result]
    BY <1>3 DEF Narrate
  <2>2. entry' \in [Runs -> Drafts \cup {"failed"}]
    BY <2>1
  <2>3. pc' \in [Runs -> Steps]
    BY <1>3 DEF Narrate
  <2>4. QED
    BY <1>3, <2>2, <2>3 DEF Narrate
<1>4. ASSUME NEW r \in Runs, QueueDone(r) PROVE TypeOK'
  BY <1>0, <1>4, BatchAssumption DEF QueueDone
<1>5. ASSUME NEW r \in Runs, RecordRead(r) PROVE TypeOK'
  <2>1. snapshot' \in [Runs -> [Jobs -> Statuses]]
    BY <1>5, ReadsTyped
  <2>2. misread' \subseteq Runs /\ faults' \in 0..MaxFaults
    BY <1>5, <1>f DEF RecordRead
  <2>3. QED
    BY <1>5, <2>1, <2>2 DEF RecordRead
<1>6. ASSUME NEW r \in Runs, RecordVacate(r) PROVE TypeOK'
  BY <1>0, <1>6 DEF RecordVacate, Unwritten
<1>7. ASSUME NEW r \in Runs, RecordFill(r) PROVE TypeOK'
  <2> DEFINE status == IF entry[r] = "failed" THEN "failed" ELSE "completed"
  <2>1. Head(todo[r]) \in Jobs /\ todo' \in [Runs -> Seq(Jobs)]
    BY <1>0, <1>7 DEF RecordFill
  <2>2. journal' \in [Jobs -> Statuses]
    <3>1. journal' = [snapshot[r] EXCEPT ![Job(r)] = status] /\ status \in Statuses
      BY <1>7 DEF RecordFill
    <3>2. snapshot[r] \in [Jobs -> Statuses]
      OBVIOUS
    <3>3. QED
      BY <3>1, <3>2
  <2>3. outcome' \in [Runs -> [Jobs -> Outcomes]]
    <3>1. entry[r] \in Outcomes
      OBVIOUS
    <3>2. QED
      BY <1>7, <2>1, <3>1, UpdateEntry, ZenonT(60) DEF RecordFill
  <2>4. known' \in [Runs -> SUBSET Jobs] /\ pc' \in [Runs -> Steps] /\ lock' \subseteq lock
    BY <1>7, <2>1 DEF RecordFill
  <2>5. QED
    BY <1>7, <2>1, <2>2, <2>3, <2>4 DEF RecordFill
<1>8. ASSUME NEW r \in Runs, LockTimeout(r) PROVE TypeOK'
  BY <1>0, <1>8, ZenonT(60) DEF LockTimeout, RecordThrows
<1>9. ASSUME NEW r \in Runs, RecordFails(r) PROVE TypeOK'
  <2>1. faults' \in 0..MaxFaults
    BY <1>9, <1>f DEF RecordFails
  <2>2. journal' \in [Jobs -> Statuses]
    BY <1>9, RolledBackTyped
  <2>3. pc' \in [Runs -> Steps] /\ entry' \in [Runs -> Drafts \cup {"failed"}]
    BY <1>9, ZenonT(60) DEF RecordFails, RecordThrows
  <2>4. QED
    BY <1>9, <2>1, <2>2, <2>3 DEF RecordFails
<1>10. ASSUME NEW r \in Runs, FoldSkipped(r) PROVE TypeOK'
  <2>1. Head(todo[r]) \in Jobs /\ todo' \in [Runs -> Seq(Jobs)]
    BY <1>0, <1>10 DEF FoldSkipped, Fold
  <2>3. merged' \in [Runs -> [Jobs -> Markdown]]
    BY <1>10, <2>1, ReusedTyped
  <2>4. warned' \in [Runs -> [Jobs -> SUBSET Warnings]]
    <3>1. warned' = warned \/ Warn(r, "could not be located")
      BY <1>10 DEF FoldSkipped
    <3>2. QED
      BY <2>1, <3>1, WarningsTyped
  <2>5. faults' \in 0..MaxFaults
    BY <1>10, <1>f DEF FoldSkipped
  <2>6. QED
    BY <1>10, <2>1, <2>3, <2>4, <2>5 DEF FoldSkipped
<1>11. ASSUME NEW r \in Runs, FoldFailed(r) PROVE TypeOK'
  <2>1. Head(todo[r]) \in Jobs /\ todo' \in [Runs -> Seq(Jobs)]
    BY <1>0, <1>11 DEF FoldFailed, Fold
  <2>2. warned' \in [Runs -> [Jobs -> SUBSET Warnings]]
    BY <1>11, <2>1, WarningsTyped DEF FoldFailed
  <2>3. QED
    BY <1>11, <2>1, <2>2 DEF FoldFailed
<1>12. ASSUME NEW r \in Runs, FoldCompleted(r) PROVE TypeOK'
  BY <1>0, <1>12 DEF FoldCompleted, Fold
<1>13. ASSUME NEW r \in Runs, SaveVacate(r) PROVE TypeOK'
  BY <1>0, <1>13 DEF SaveVacate
<1>14. ASSUME NEW r \in Runs, SaveFill(r) PROVE TypeOK'
  <2>1. Head(todo[r]) \in Jobs /\ todo' \in [Runs -> Seq(Jobs)]
    BY <1>0, <1>14 DEF SaveFill, Merge
  <2>2. Rendered(outcome[r][Job(r)]) \in Markdown
    BY <1>14 DEF SaveFill, Rendered
  <2>3. merged' \in [Runs -> [Jobs -> Markdown]] /\ pc' \in [Runs -> Steps]
    BY <1>14, <2>1, <2>2 DEF SaveFill, Merge
  <2>4. sections' \in [Jobs -> Saved]
    BY <1>14 DEF SaveFill, SectionsOf
  <2>5. QED
    BY <1>14, <2>1, <2>3, <2>4 DEF SaveFill
<1>15. ASSUME NEW r \in Runs, SaveFails(r) PROVE TypeOK'
  <2>1. Head(todo[r]) \in Jobs /\ todo' \in [Runs -> Seq(Jobs)]
    BY <1>0, <1>15 DEF SaveFails, Merge
  <2>2. Rendered(outcome[r][Job(r)]) \in Markdown
    BY <1>15 DEF SaveFails, Rendered
  <2>3. merged' \in [Runs -> [Jobs -> Markdown]] /\ pc' \in [Runs -> Steps]
    BY <1>15, <2>1, <2>2 DEF SaveFails, Merge
  <2>4. sections' \in [Jobs -> Saved] /\ faults' \in 0..MaxFaults
    BY <1>15, <1>f DEF SaveFails
  <2>5. warned' \in [Runs -> [Jobs -> SUBSET Warnings]]
    BY <1>15, <2>1, WarningsTyped DEF SaveFails
  <2>6. QED
    BY <1>15, <2>1, <2>3, <2>4, <2>5 DEF SaveFails
<1>16. ASSUME NEW r \in Runs, Publish(r) PROVE TypeOK'
  <2>1. pc' \in [Runs -> Steps] /\ faults' \in 0..MaxFaults
    BY <1>16, PublishedTyped
  <2>2. documents' \in [Jobs -> Markdown]
    BY <1>16, PublishedTyped
  <2>3. QED
    BY <1>16, <2>1, <2>2 DEF Publish
<1>17. ASSUME NEW r \in Runs, Crash(r) PROVE TypeOK'
  <2>1. crashes' \in 0..MaxCrashes
    BY <1>17, <1>f
  <2>2. pc' \in [Runs -> Steps]
    BY <1>17 DEF Crash
  <2>3. QED
    BY <1>17, <2>1, <2>2 DEF Crash
<1>18. ASSUME NEW r \in Runs, LockReclaimed(r) PROVE TypeOK'
  BY <1>0, <1>18 DEF LockReclaimed
<1>19. CASE UNCHANGED vars
  BY <1>19 DEF vars
<1>20. QED
  BY <1>1, <1>2, <1>3, <1>4, <1>5, <1>6, <1>7, <1>8, <1>9, <1>10, <1>11, <1>12, <1>13, <1>14, <1>15, <1>16, <1>17, <1>18, <1>19 DEF Next, RunStep

\* What InHand and RecordHoldsLock need of the types.
PartialTypes ==
  /\ pc \in [Runs -> Steps] /\ todo \in [Runs -> Seq(Jobs)]
  /\ outcome \in [Runs -> [Jobs -> Outcomes]]
  /\ snapshot \in [Runs -> [Jobs -> Statuses]] /\ aside \in [Runs -> [Jobs -> Statuses]]
  /\ lock \subseteq Runs /\ \A r, s \in lock : r = s

\* A run that records or saves has a job in hand, and one that saves has its draft.
LEMMA InHandStep == PartialTypes /\ InHand /\ [Next]_vars => InHand'
<1> SUFFICES ASSUME PartialTypes, InHand, [Next]_vars PROVE InHand'
  OBVIOUS
<1> USE DEF PartialTypes, InHand, Goto, At, NextJob, Job, memory
<1>1. ASSUME NEW r \in Runs, Load(r) PROVE InHand'
  BY <1>1 DEF Load
<1>2. ASSUME NEW r \in Runs, Skip(r) PROVE InHand'
  BY <1>2 DEF Skip
<1>3. ASSUME NEW r \in Runs, Narrate(r) PROVE InHand'
  BY <1>3 DEF Narrate
<1>4. ASSUME NEW r \in Runs, QueueDone(r) PROVE InHand'
  BY <1>4 DEF QueueDone
<1>5. ASSUME NEW r \in Runs, RecordRead(r) PROVE InHand'
  BY <1>5 DEF RecordRead
<1>6. ASSUME NEW r \in Runs, RecordVacate(r) PROVE InHand'
  BY <1>6 DEF RecordVacate
<1>7. ASSUME NEW r \in Runs, RecordFill(r) PROVE InHand'
  BY <1>7 DEF RecordFill
<1>8. ASSUME NEW r \in Runs, LockTimeout(r) PROVE InHand'
  BY <1>8 DEF LockTimeout, RecordThrows
<1>9. ASSUME NEW r \in Runs, RecordFails(r) PROVE InHand'
  BY <1>9 DEF RecordFails, RecordThrows
<1>10. ASSUME NEW r \in Runs, FoldSkipped(r) PROVE InHand'
  BY <1>10 DEF FoldSkipped, Fold
<1>11. ASSUME NEW r \in Runs, FoldFailed(r) PROVE InHand'
  BY <1>11 DEF FoldFailed, Fold
<1>12. ASSUME NEW r \in Runs, FoldCompleted(r) PROVE InHand'
  BY <1>12 DEF FoldCompleted, Fold
<1>13. ASSUME NEW r \in Runs, SaveVacate(r) PROVE InHand'
  BY <1>13 DEF SaveVacate
<1>14. ASSUME NEW r \in Runs, SaveFill(r) PROVE InHand'
  BY <1>14 DEF SaveFill, Merge
<1>15. ASSUME NEW r \in Runs, SaveFails(r) PROVE InHand'
  BY <1>15 DEF SaveFails, Merge
<1>16. ASSUME NEW r \in Runs, Publish(r) PROVE InHand'
  BY <1>16 DEF Publish
<1>17. ASSUME NEW r \in Runs, Crash(r) PROVE InHand'
  BY <1>17 DEF Crash
<1>18. ASSUME NEW r \in Runs, LockReclaimed(r) PROVE InHand'
  BY <1>18 DEF LockReclaimed
<1>19. CASE UNCHANGED vars
  BY <1>19 DEF vars
<1>20. QED
  BY <1>1, <1>2, <1>3, <1>4, <1>5, <1>6, <1>7, <1>8, <1>9, <1>10, <1>11, <1>12, <1>13, <1>14, <1>15, <1>16, <1>17, <1>18, <1>19 DEF Next, RunStep

\* Between its read of the journal and its write a run holds the lock, and nobody
\* else replaces the journal.
LEMMA RecordHoldsLockStep == PartialTypes /\ RecordHoldsLock /\ [Next]_vars => RecordHoldsLock'
<1> SUFFICES ASSUME PartialTypes, RecordHoldsLock, [Next]_vars PROVE RecordHoldsLock'
  OBVIOUS
<1> USE DEF PartialTypes, RecordHoldsLock, Goto, At, NextJob, memory, moved, disk
<1>1. ASSUME NEW r \in Runs, Load(r) PROVE RecordHoldsLock'
  BY <1>1 DEF Load
<1>2. ASSUME NEW r \in Runs, Skip(r) PROVE RecordHoldsLock'
  BY <1>2 DEF Skip
<1>3. ASSUME NEW r \in Runs, Narrate(r) PROVE RecordHoldsLock'
  BY <1>3 DEF Narrate
<1>4. ASSUME NEW r \in Runs, QueueDone(r) PROVE RecordHoldsLock'
  BY <1>4 DEF QueueDone
<1>5. ASSUME NEW r \in Runs, RecordRead(r) PROVE RecordHoldsLock'
  BY <1>5 DEF RecordRead
<1>6. ASSUME NEW r \in Runs, RecordVacate(r) PROVE RecordHoldsLock'
  BY <1>6 DEF RecordVacate
<1>7. ASSUME NEW r \in Runs, RecordFill(r) PROVE RecordHoldsLock'
  BY <1>7 DEF RecordFill
<1>8. ASSUME NEW r \in Runs, LockTimeout(r) PROVE RecordHoldsLock'
  BY <1>8 DEF LockTimeout, RecordThrows
<1>9. ASSUME NEW r \in Runs, RecordFails(r) PROVE RecordHoldsLock'
  BY <1>9 DEF RecordFails, RecordThrows
<1>10. ASSUME NEW r \in Runs, FoldSkipped(r) PROVE RecordHoldsLock'
  BY <1>10 DEF FoldSkipped, Fold
<1>11. ASSUME NEW r \in Runs, FoldFailed(r) PROVE RecordHoldsLock'
  BY <1>11 DEF FoldFailed, Fold
<1>12. ASSUME NEW r \in Runs, FoldCompleted(r) PROVE RecordHoldsLock'
  BY <1>12 DEF FoldCompleted, Fold
<1>13. ASSUME NEW r \in Runs, SaveVacate(r) PROVE RecordHoldsLock'
  BY <1>13 DEF SaveVacate
<1>14. ASSUME NEW r \in Runs, SaveFill(r) PROVE RecordHoldsLock'
  BY <1>14 DEF SaveFill, Merge
<1>15. ASSUME NEW r \in Runs, SaveFails(r) PROVE RecordHoldsLock'
  BY <1>15 DEF SaveFails, Merge
<1>16. ASSUME NEW r \in Runs, Publish(r) PROVE RecordHoldsLock'
  BY <1>16 DEF Publish
<1>17. ASSUME NEW r \in Runs, Crash(r) PROVE RecordHoldsLock'
  BY <1>17 DEF Crash
<1>18. ASSUME NEW r \in Runs, LockReclaimed(r) PROVE RecordHoldsLock'
  BY <1>18 DEF LockReclaimed
<1>19. CASE UNCHANGED vars
  BY <1>19 DEF vars
<1>20. QED
  BY <1>1, <1>2, <1>3, <1>4, <1>5, <1>6, <1>7, <1>8, <1>9, <1>10, <1>11, <1>12, <1>13, <1>14, <1>15, <1>16, <1>17, <1>18, <1>19 DEF Next, RunStep

\* Every step keeps all that recording rests on.
LEMMA RecordStep == RecordInv /\ [Next]_vars => RecordInv'
<1>1. TypeOK => PartialTypes
  BY DEF TypeOK, PartialTypes
<1>2. QED
  BY <1>1, TypeStep, InHandStep, RecordHoldsLockStep DEF RecordInv

\* The state of queue, journal, sections and documents stays well formed, and
\* never more than one run holds the journal's lock.
THEOREM TypeCorrect == Spec => []TypeOK
<1>1. RecordInv => TypeOK
  BY DEF RecordInv
<1>2. QED
  BY RecordInit, RecordStep, <1>1, PTL DEF Spec

\* record: however many runs record at once, crash or fail, a journal made live
\* has every other job's entry as in the journal it replaced, unless the run that
\* made it could not read that journal.
THEOREM OthersAreKept == Spec => RecordKeepsOthers
<1> DEFINE Step == \A r \in Runs \ misread :
             At(r, "fill") /\ pc'[r] = "queue"
               => \A j \in Jobs \ {Job(r)} : journal'[j] = aside[r][j]
<1>1. RecordInv /\ Next => Step
  <2> SUFFICES ASSUME RecordInv, Next, NEW r \in Runs \ misread, pc[r] = "fill", pc'[r] = "queue",
                      NEW j \in Jobs \ {Job(r)}
               PROVE  journal'[j] = aside[r][j]
    BY DEF At
  <2>1. snapshot[r] = aside[r] /\ snapshot[r] \in [Jobs -> Statuses] /\ pc \in [Runs -> Steps]
    BY DEF RecordInv, TypeOK, RecordHoldsLock
  <2>2. RecordFill(r)
    <3>1. PICK s \in Runs : RunStep(s) \/ Crash(s) \/ LockReclaimed(s)
      BY DEF Next
    <3>2. pc' # pc
      OBVIOUS
    <3>3. \E step \in Steps : pc' = [pc EXCEPT ![s] = step] /\ s = r
      BY <2>1, <3>1, <3>2 DEF RunStep, Goto, At, Load, Skip, Narrate, QueueDone, RecordRead, RecordVacate,
         RecordFill, LockTimeout, RecordFails, RecordThrows, FoldSkipped, FoldFailed, FoldCompleted,
         SaveVacate, SaveFill, SaveFails, Merge, Publish, Crash, LockReclaimed, Steps, Ended
    <3>4. pc'[s] = "queue" /\ pc[s] = "fill"
      BY <3>3
    <3>5. QED
      BY <2>1, <3>1, <3>2, <3>3, <3>4 DEF RunStep, Goto, At, Load, Skip, Narrate, QueueDone, RecordRead, RecordVacate,
         RecordFill, LockTimeout, RecordFails, RecordThrows, FoldSkipped, FoldFailed, FoldCompleted,
         SaveVacate, SaveFill, SaveFails, Merge, Publish, Crash, LockReclaimed
  <2>3. QED
    BY <2>1, <2>2 DEF RecordFill
<1>2. RecordInv /\ [Next]_vars => [Step]_vars
  BY <1>1
<1>3. RecordKeepsOthers <=> [][Step]_vars
  BY DEF RecordKeepsOthers
<1>4. QED
  BY RecordInit, RecordStep, <1>2, <1>3, PTL DEF Spec

-----------------------------------------------------------------------------
(* A completed job has its sections *)

Distinct(queue) == \A i, k \in DOMAIN queue : queue[i] = queue[k] => i = k

\* A queue without repetitions stays one when its head is taken, and has it no more.
LEMMA DistinctTail ==
  ASSUME NEW S, NEW queue \in Seq(S), queue # <<>>, Distinct(queue)
  PROVE  Distinct(Tail(queue)) /\ ~In(Head(queue), Tail(queue))
<1>1. /\ Len(queue) \in Nat \ {0} /\ DOMAIN queue = 1..Len(queue) /\ Head(queue) = queue[1]
      /\ DOMAIN Tail(queue) = 1..Len(queue) - 1
      /\ \A i \in 1..Len(queue) - 1 : Tail(queue)[i] = queue[i + 1]
  OBVIOUS
<1>2. ASSUME NEW i \in DOMAIN Tail(queue), NEW k \in DOMAIN Tail(queue),
             Tail(queue)[i] = Tail(queue)[k]
      PROVE  i = k
  <2>1. i + 1 \in DOMAIN queue /\ k + 1 \in DOMAIN queue /\ queue[i + 1] = queue[k + 1]
    BY <1>1, <1>2
  <2>2. i + 1 = k + 1
    BY <2>1 DEF Distinct
  <2>3. QED
    BY <1>1, <2>2
<1>3. ASSUME NEW i \in DOMAIN Tail(queue), Tail(queue)[i] = Head(queue) PROVE FALSE
  <2>1. i + 1 \in DOMAIN queue /\ 1 \in DOMAIN queue /\ queue[i + 1] = queue[1]
    BY <1>1, <1>3
  <2>2. i + 1 = 1
    BY <2>1 DEF Distinct
  <2>3. QED
    BY <1>1, <2>2
<1>4. QED
  BY <1>2, <1>3 DEF Distinct, In

QueueSteps == {"queue", "lock", "vacate", "fill"}
FoldSteps == {"fold", "saveVacate", "saveFill"}

\* Each loop visits each job of the batch once, and the queue has no outcome yet
\* for the jobs it has still to visit.
QueueOrder ==
  \A r \in Runs :
    /\ Distinct(todo[r])
    /\ \A j \in Jobs :
         /\ In(j, todo[r]) \/ outcome[r][j] # "none" => In(j, Batch[r])
         /\ pc[r] = "start" \/ (pc[r] \in QueueSteps /\ In(j, todo[r])) => outcome[r][j] = "none"

\* r has narrated j and has its sections still to save, or will never save them.
Owed(r, j) ==
  /\ outcome[r][j] \in Drafts
  /\ \/ "could not be cached" \in warned[r][j]
     \/ pc[r] \in QueueSteps \cup {"aborted", "dead"}
     \/ pc[r] \in FoldSteps /\ In(j, todo[r])

Narrated(j) == \E r \in Runs : outcome[r][j] \in Drafts

\* What the journal, or a journal moved aside, calls completed was narrated.
Attested ==
  \A j \in Jobs :
    journal[j] = "completed" \/ (\E r \in Runs : pc[r] = "fill" /\ aside[r][j] = "completed")
      => Narrated(j)

\* The sections of a job that was narrated are on disk or owed by some run.
Kept == \A j \in Jobs : Narrated(j) => sections[j] # "absent" \/ \E r \in Runs : Owed(r, j)

\* Before the runs start the queues are empty and there are no outcomes.
LEMMA QueueOrderInit == Init => QueueOrder
<1> SUFFICES ASSUME Init PROVE QueueOrder
  OBVIOUS
<1>1. \A r \in Runs : todo[r] = <<>> /\ pc[r] = "start" /\ \A j \in Jobs : outcome[r][j] = "none"
  BY DEF Init
<1>2. Distinct(<<>>)
  BY DEF Distinct
<1>3. \A r \in Runs : Distinct(todo[r])
  BY <1>1, <1>2
<1>4. \A r \in Runs, j \in Jobs : ~In(j, todo[r])
  BY <1>1, EmptyQueue
<1>5. QED
  BY <1>1, <1>3, <1>4 DEF QueueOrder

\* No job is narrated twice by one run, nor one that is not of its batch.
LEMMA QueueOrderStep == RecordInv /\ QueueOrder /\ [Next]_vars => QueueOrder'
<1> SUFFICES ASSUME RecordInv, QueueOrder, [Next]_vars PROVE QueueOrder'
  OBVIOUS
<1>t. PartialTypes /\ InHand /\ known \in [Runs -> SUBSET Jobs]
  BY DEF RecordInv, TypeOK, PartialTypes
<1>h. ASSUME NEW r \in Runs, todo[r] # <<>>
      PROVE  /\ Job(r) \in Jobs /\ Tail(todo[r]) \in Seq(Jobs)
             /\ Distinct(Tail(todo[r])) /\ ~In(Job(r), Tail(todo[r]))
             /\ \A j : In(j, todo[r]) <=> j = Job(r) \/ In(j, Tail(todo[r]))
  BY <1>h, <1>t, HeadTail, DistinctTail DEF PartialTypes, QueueOrder, Job
<1>b. \A r \in Runs : Distinct(Batch[r])
  BY BatchAssumption DEF Distinct
<1> USE DEF QueueOrder, QueueSteps, Goto, At, NextJob, memory
<1>1. ASSUME NEW r \in Runs, Load(r) PROVE QueueOrder'
  BY <1>1, <1>h, <1>t, <1>b DEF PartialTypes, InHand, Load
<1>2. ASSUME NEW r \in Runs, Skip(r) PROVE QueueOrder'
  BY <1>2, <1>h, <1>t DEF PartialTypes, InHand, Skip
<1>3. ASSUME NEW r \in Runs, Narrate(r) PROVE QueueOrder'
  BY <1>3, <1>h, <1>t DEF PartialTypes, InHand, Narrate
<1>4. ASSUME NEW r \in Runs, QueueDone(r) PROVE QueueOrder'
  BY <1>4, <1>h, <1>t, <1>b DEF PartialTypes, InHand, QueueDone
<1>5. ASSUME NEW r \in Runs, RecordRead(r) PROVE QueueOrder'
  BY <1>5, <1>h, <1>t DEF PartialTypes, InHand, RecordRead
<1>6. ASSUME NEW r \in Runs, RecordVacate(r) PROVE QueueOrder'
  BY <1>6, <1>h, <1>t DEF PartialTypes, InHand, RecordVacate
<1>7. ASSUME NEW r \in Runs, RecordFill(r) PROVE QueueOrder'
  BY <1>7, <1>h, <1>t DEF PartialTypes, InHand, RecordFill
<1>8. ASSUME NEW r \in Runs, LockTimeout(r) PROVE QueueOrder'
  BY <1>8, <1>h, <1>t DEF PartialTypes, InHand, LockTimeout, RecordThrows
<1>9. ASSUME NEW r \in Runs, RecordFails(r) PROVE QueueOrder'
  BY <1>9, <1>h, <1>t DEF PartialTypes, InHand, RecordFails, RecordThrows
<1>10. ASSUME NEW r \in Runs, FoldSkipped(r) PROVE QueueOrder'
  BY <1>10, <1>h, <1>t DEF PartialTypes, InHand, FoldSkipped, Fold
<1>11. ASSUME NEW r \in Runs, FoldFailed(r) PROVE QueueOrder'
  BY <1>11, <1>h, <1>t DEF PartialTypes, InHand, FoldFailed, Fold
<1>12. ASSUME NEW r \in Runs, FoldCompleted(r) PROVE QueueOrder'
  BY <1>12, <1>h, <1>t DEF PartialTypes, InHand, FoldCompleted, Fold
<1>13. ASSUME NEW r \in Runs, SaveVacate(r) PROVE QueueOrder'
  BY <1>13, <1>h, <1>t DEF PartialTypes, InHand, SaveVacate
<1>14. ASSUME NEW r \in Runs, SaveFill(r) PROVE QueueOrder'
  BY <1>14, <1>h, <1>t DEF PartialTypes, InHand, SaveFill, Merge
<1>15. ASSUME NEW r \in Runs, SaveFails(r) PROVE QueueOrder'
  BY <1>15, <1>h, <1>t DEF PartialTypes, InHand, SaveFails, Merge
<1>16. ASSUME NEW r \in Runs, Publish(r) PROVE QueueOrder'
  BY <1>16, <1>h, <1>t DEF PartialTypes, InHand, Publish
<1>17. ASSUME NEW r \in Runs, Crash(r) PROVE QueueOrder'
  BY <1>17, <1>h, <1>t DEF PartialTypes, InHand, Crash
<1>18. ASSUME NEW r \in Runs, LockReclaimed(r) PROVE QueueOrder'
  BY <1>18, <1>h, <1>t DEF PartialTypes, InHand, LockReclaimed
<1>19. CASE UNCHANGED vars
  BY <1>19 DEF PartialTypes, InHand, vars
<1>20. QED
  BY <1>1, <1>2, <1>3, <1>4, <1>5, <1>6, <1>7, <1>8, <1>9, <1>10, <1>11, <1>12, <1>13, <1>14, <1>15, <1>16, <1>17, <1>18, <1>19 DEF PartialTypes, InHand, Next, RunStep


\* An outcome is never taken back, and a new one is owed its sections.
LEMMA NarratedStep ==
  ASSUME RecordInv, QueueOrder, [Next]_vars, NEW j \in Jobs
  PROVE  /\ Narrated(j) => Narrated(j)'
         /\ Narrated(j)' => Narrated(j) \/ \E t \in Runs : Owed(t, j)'
<1>t. /\ outcome \in [Runs -> [Jobs -> Outcomes]] /\ warned \in [Runs -> [Jobs -> SUBSET Warnings]]
      /\ pc \in [Runs -> Steps] /\ todo \in [Runs -> Seq(Jobs)] /\ sections \in [Jobs -> Saved]
      /\ entry \in [Runs -> Drafts \cup {"failed"}] /\ "skipped" \notin Drafts /\ "failed" \notin Drafts
      /\ "none" \notin Drafts
  BY DraftAssumption DEF RecordInv, TypeOK, DraftKinds
<1>h. ASSUME NEW r \in Runs, todo[r] # <<>>
      PROVE  Job(r) \in Jobs /\ \A k : In(k, todo[r]) <=> k = Job(r) \/ In(k, Tail(todo[r]))
  BY <1>h, <1>t, HeadTail DEF Job
<1>n. \A r \in Runs :
        /\ pc[r] \in {"lock", "vacate", "fill", "saveVacate", "saveFill"} => todo[r] # <<>>
        /\ pc[r] \in {"saveVacate", "saveFill"} => outcome[r][Job(r)] \in Drafts
  BY DEF RecordInv, InHand
<1>o. \A r \in Runs : pc[r] \in QueueSteps /\ todo[r] # <<>> => outcome[r][Job(r)] = "none"
  BY <1>h DEF QueueOrder
<1> DEFINE Goal == /\ Narrated(j) => Narrated(j)'
                   /\ Narrated(j)' => Narrated(j) \/ \E t \in Runs : Owed(t, j)'
<1> USE DEF Narrated, Owed, QueueSteps, Goto, At, NextJob, memory
<1>1. ASSUME NEW r \in Runs, Load(r) PROVE Goal
  BY <1>1, <1>t, <1>h, <1>n, <1>o DEF Load
<1>2. ASSUME NEW r \in Runs, Skip(r) PROVE Goal
  BY <1>2, <1>t, <1>h, <1>n, <1>o DEF Skip
<1>3. ASSUME NEW r \in Runs, Narrate(r) PROVE Goal
  BY <1>3, <1>t, <1>h, <1>n, <1>o DEF Narrate
<1>4. ASSUME NEW r \in Runs, QueueDone(r) PROVE Goal
  BY <1>4, <1>t, <1>h, <1>n, <1>o DEF QueueDone
<1>5. ASSUME NEW r \in Runs, RecordRead(r) PROVE Goal
  BY <1>5, <1>t, <1>h, <1>n, <1>o DEF RecordRead
<1>6. ASSUME NEW r \in Runs, RecordVacate(r) PROVE Goal
  BY <1>6, <1>t, <1>h, <1>n, <1>o DEF RecordVacate
<1>7. ASSUME NEW r \in Runs, RecordFill(r) PROVE Goal
  BY <1>7, <1>t, <1>h, <1>n, <1>o DEF RecordFill
<1>8. ASSUME NEW r \in Runs, LockTimeout(r) PROVE Goal
  BY <1>8, <1>t, <1>h, <1>n, <1>o DEF LockTimeout, RecordThrows
<1>9. ASSUME NEW r \in Runs, RecordFails(r) PROVE Goal
  BY <1>9, <1>t, <1>h, <1>n, <1>o DEF RecordFails, RecordThrows
<1>10. ASSUME NEW r \in Runs, FoldSkipped(r) PROVE Goal
  BY <1>10, <1>t, <1>h, <1>n, <1>o DEF FoldSkipped, Fold, Warn
<1>11. ASSUME NEW r \in Runs, FoldFailed(r) PROVE Goal
  BY <1>11, <1>t, <1>h, <1>n, <1>o DEF FoldFailed, Fold, Warn
<1>12. ASSUME NEW r \in Runs, FoldCompleted(r) PROVE Goal
  BY <1>12, <1>t, <1>h, <1>n, <1>o DEF FoldCompleted, Fold
<1>13. ASSUME NEW r \in Runs, SaveVacate(r) PROVE Goal
  BY <1>13, <1>t, <1>h, <1>n, <1>o DEF SaveVacate
<1>14. ASSUME NEW r \in Runs, SaveFill(r) PROVE Goal
  BY <1>14, <1>t, <1>h, <1>n, <1>o DEF SaveFill, Merge, SectionsOf
<1>15. ASSUME NEW r \in Runs, SaveFails(r) PROVE Goal
  BY <1>15, <1>t, <1>h, <1>n, <1>o DEF SaveFails, Merge, Warn
<1>16. ASSUME NEW r \in Runs, Publish(r) PROVE Goal
  BY <1>16, <1>t, <1>h, <1>n, <1>o DEF Publish
<1>17. ASSUME NEW r \in Runs, Crash(r) PROVE Goal
  BY <1>17, <1>t, <1>h, <1>n, <1>o DEF Crash
<1>18. ASSUME NEW r \in Runs, LockReclaimed(r) PROVE Goal
  BY <1>18, <1>t, <1>h, <1>n, <1>o DEF LockReclaimed
<1>19. CASE UNCHANGED vars
  BY <1>19 DEF vars
<1>20. QED
  BY <1>1, <1>2, <1>3, <1>4, <1>5, <1>6, <1>7, <1>8, <1>9, <1>10, <1>11, <1>12, <1>13, <1>14, <1>15, <1>16, <1>17, <1>18, <1>19 DEF Next, RunStep

\* A run owes a job's sections until they are on disk.
LEMMA OwedStep ==
  ASSUME RecordInv, QueueOrder, [Next]_vars, NEW j \in Jobs, NEW s \in Runs, Owed(s, j)
  PROVE  Owed(s, j)' \/ sections'[j] # "absent"
<1>t. /\ outcome \in [Runs -> [Jobs -> Outcomes]] /\ warned \in [Runs -> [Jobs -> SUBSET Warnings]]
      /\ pc \in [Runs -> Steps] /\ todo \in [Runs -> Seq(Jobs)] /\ sections \in [Jobs -> Saved]
      /\ entry \in [Runs -> Drafts \cup {"failed"}] /\ "skipped" \notin Drafts /\ "failed" \notin Drafts
      /\ "none" \notin Drafts
  BY DraftAssumption DEF RecordInv, TypeOK, DraftKinds
<1>h. ASSUME NEW r \in Runs, todo[r] # <<>>
      PROVE  Job(r) \in Jobs /\ \A k : In(k, todo[r]) <=> k = Job(r) \/ In(k, Tail(todo[r]))
  BY <1>h, <1>t, HeadTail DEF Job
<1>n. \A r \in Runs :
        /\ pc[r] \in {"lock", "vacate", "fill", "saveVacate", "saveFill"} => todo[r] # <<>>
        /\ pc[r] \in {"saveVacate", "saveFill"} => outcome[r][Job(r)] \in Drafts
  BY DEF RecordInv, InHand
<1>o. \A r \in Runs : pc[r] \in QueueSteps /\ todo[r] # <<>> => outcome[r][Job(r)] = "none"
  BY <1>h DEF QueueOrder
<1>b. \A r \in Runs : outcome[r][j] # "none" => In(j, Batch[r])
  BY DEF QueueOrder
<1>e. \A k : ~In(k, <<>>)
  BY EmptyQueue
<1> DEFINE Goal == Owed(s, j)' \/ sections'[j] # "absent"
<1> USE DEF Owed, QueueSteps, FoldSteps, Goto, At, NextJob, memory, disk
<1>1. ASSUME NEW r \in Runs, Load(r) PROVE Goal
  BY <1>1, <1>t, <1>h, <1>n, <1>o, <1>b, <1>e DEF Load
<1>2. ASSUME NEW r \in Runs, Skip(r) PROVE Goal
  BY <1>2, <1>t, <1>h, <1>n, <1>o, <1>b, <1>e DEF Skip
<1>3. ASSUME NEW r \in Runs, Narrate(r) PROVE Goal
  BY <1>3, <1>t, <1>h, <1>n, <1>o, <1>b, <1>e DEF Narrate
<1>4. ASSUME NEW r \in Runs, QueueDone(r) PROVE Goal
  BY <1>4, <1>t, <1>h, <1>n, <1>o, <1>b, <1>e DEF QueueDone
<1>5. ASSUME NEW r \in Runs, RecordRead(r) PROVE Goal
  BY <1>5, <1>t, <1>h, <1>n, <1>o, <1>b, <1>e DEF RecordRead
<1>6. ASSUME NEW r \in Runs, RecordVacate(r) PROVE Goal
  BY <1>6, <1>t, <1>h, <1>n, <1>o, <1>b, <1>e DEF RecordVacate
<1>7. ASSUME NEW r \in Runs, RecordFill(r) PROVE Goal
  BY <1>7, <1>t, <1>h, <1>n, <1>o, <1>b, <1>e DEF RecordFill
<1>8. ASSUME NEW r \in Runs, LockTimeout(r) PROVE Goal
  BY <1>8, <1>t, <1>h, <1>n, <1>o, <1>b, <1>e DEF LockTimeout, RecordThrows
<1>9. ASSUME NEW r \in Runs, RecordFails(r) PROVE Goal
  BY <1>9, <1>t, <1>h, <1>n, <1>o, <1>b, <1>e DEF RecordFails, RecordThrows
<1>10. ASSUME NEW r \in Runs, FoldSkipped(r) PROVE Goal
  <2>1. pc' = pc /\ outcome' = outcome /\ todo' = [todo EXCEPT ![r] = Tail(todo[r])]
    BY <1>10 DEF FoldSkipped
  <2>2. "could not be cached" \in warned[s][j] => "could not be cached" \in warned'[s][j]
    <3>1. CASE warned' = warned
      BY <3>1
    <3>2. CASE warned' = [warned EXCEPT ![r][Job(r)] = @ \cup {"could not be located"}]
      BY <3>2, <1>t
    <3>3. QED
      BY <1>10, <3>1, <3>2 DEF FoldSkipped, Warn
  <2>3. pc[r] = "fold" /\ todo[r] # <<>> /\ outcome[r][Job(r)] \notin Drafts
    BY <1>10, <1>t DEF FoldSkipped, Fold
  <2>4. In(j, todo[s]) => In(j, todo'[s])
    BY <1>t, <1>h, <2>1, <2>3
  <2>5. QED
    BY <2>1, <2>2, <2>4
<1>11. ASSUME NEW r \in Runs, FoldFailed(r) PROVE Goal
  BY <1>11, <1>t, <1>h, <1>n, <1>o, <1>b, <1>e DEF FoldFailed, Fold, Warn
<1>12. ASSUME NEW r \in Runs, FoldCompleted(r) PROVE Goal
  BY <1>12, <1>t, <1>h, <1>n, <1>o, <1>b, <1>e DEF FoldCompleted, Fold
<1>13. ASSUME NEW r \in Runs, SaveVacate(r) PROVE Goal
  BY <1>13, <1>t, <1>h, <1>n, <1>o, <1>b, <1>e DEF SaveVacate
<1>14. ASSUME NEW r \in Runs, SaveFill(r) PROVE Goal
  BY <1>14, <1>t, <1>h, <1>n, <1>o, <1>b, <1>e DEF SaveFill, Merge, SectionsOf
<1>15. ASSUME NEW r \in Runs, SaveFails(r) PROVE Goal
  BY <1>15, <1>t, <1>h, <1>n, <1>o, <1>b, <1>e DEF SaveFails, Merge, Warn
<1>16. ASSUME NEW r \in Runs, Publish(r) PROVE Goal
  <2>1. pc[r] = "fold" /\ ~In(j, todo[r])
    BY <1>16, <1>e DEF Publish
  <2>2. outcome' = outcome /\ warned' = warned /\ todo' = todo /\ \A t \in Runs \ {r} : pc'[t] = pc[t]
    BY <1>16, <1>t DEF Publish
  <2>3. CASE s = r
    BY <2>1, <2>2, <2>3
  <2>4. CASE s # r
    BY <2>2, <2>4
  <2>5. QED
    BY <2>3, <2>4
<1>17. ASSUME NEW r \in Runs, Crash(r) PROVE Goal
  BY <1>17, <1>t, <1>h, <1>n, <1>o, <1>b, <1>e DEF Crash
<1>18. ASSUME NEW r \in Runs, LockReclaimed(r) PROVE Goal
  BY <1>18, <1>t, <1>h, <1>n, <1>o, <1>b, <1>e DEF LockReclaimed
<1>19. CASE UNCHANGED vars
  BY <1>19 DEF vars
<1>20. QED
  BY <1>1, <1>2, <1>3, <1>4, <1>5, <1>6, <1>7, <1>8, <1>9, <1>10, <1>11, <1>12, <1>13, <1>14, <1>15, <1>16, <1>17, <1>18, <1>19 DEF Next, RunStep

\* Sections that are moved aside are owed by the run that moves them.
LEMMA SectionsStep ==
  ASSUME RecordInv, QueueOrder, [Next]_vars, NEW j \in Jobs, sections[j] # "absent"
  PROVE  sections'[j] # "absent" \/ \E t \in Runs : Owed(t, j)'
<1>t. /\ outcome \in [Runs -> [Jobs -> Outcomes]] /\ warned \in [Runs -> [Jobs -> SUBSET Warnings]]
      /\ pc \in [Runs -> Steps] /\ todo \in [Runs -> Seq(Jobs)] /\ sections \in [Jobs -> Saved]
      /\ entry \in [Runs -> Drafts \cup {"failed"}] /\ "skipped" \notin Drafts /\ "failed" \notin Drafts
      /\ "none" \notin Drafts
  BY DraftAssumption DEF RecordInv, TypeOK, DraftKinds
<1>h. ASSUME NEW r \in Runs, todo[r] # <<>>
      PROVE  Job(r) \in Jobs /\ \A k : In(k, todo[r]) <=> k = Job(r) \/ In(k, Tail(todo[r]))
  BY <1>h, <1>t, HeadTail DEF Job
<1>n. \A r \in Runs :
        /\ pc[r] \in {"lock", "vacate", "fill", "saveVacate", "saveFill"} => todo[r] # <<>>
        /\ pc[r] \in {"saveVacate", "saveFill"} => outcome[r][Job(r)] \in Drafts
  BY DEF RecordInv, InHand
<1> DEFINE Goal == sections'[j] # "absent" \/ \E t \in Runs : Owed(t, j)'
<1> USE DEF Owed, QueueSteps, FoldSteps, Goto, At, NextJob, memory, disk
<1>1. ASSUME NEW r \in Runs, Load(r) PROVE Goal
  BY <1>1, <1>t, <1>h, <1>n DEF Load
<1>2. ASSUME NEW r \in Runs, Skip(r) PROVE Goal
  BY <1>2, <1>t, <1>h, <1>n DEF Skip
<1>3. ASSUME NEW r \in Runs, Narrate(r) PROVE Goal
  BY <1>3, <1>t, <1>h, <1>n DEF Narrate
<1>4. ASSUME NEW r \in Runs, QueueDone(r) PROVE Goal
  BY <1>4, <1>t, <1>h, <1>n DEF QueueDone
<1>5. ASSUME NEW r \in Runs, RecordRead(r) PROVE Goal
  BY <1>5, <1>t, <1>h, <1>n DEF RecordRead
<1>6. ASSUME NEW r \in Runs, RecordVacate(r) PROVE Goal
  BY <1>6, <1>t, <1>h, <1>n DEF RecordVacate
<1>7. ASSUME NEW r \in Runs, RecordFill(r) PROVE Goal
  BY <1>7, <1>t, <1>h, <1>n DEF RecordFill
<1>8. ASSUME NEW r \in Runs, LockTimeout(r) PROVE Goal
  BY <1>8, <1>t, <1>h, <1>n DEF LockTimeout, RecordThrows
<1>9. ASSUME NEW r \in Runs, RecordFails(r) PROVE Goal
  BY <1>9, <1>t, <1>h, <1>n DEF RecordFails, RecordThrows
<1>10. ASSUME NEW r \in Runs, FoldSkipped(r) PROVE Goal
  BY <1>10, <1>t, <1>h, <1>n DEF FoldSkipped, Fold, Warn
<1>11. ASSUME NEW r \in Runs, FoldFailed(r) PROVE Goal
  BY <1>11, <1>t, <1>h, <1>n DEF FoldFailed, Fold, Warn
<1>12. ASSUME NEW r \in Runs, FoldCompleted(r) PROVE Goal
  BY <1>12, <1>t, <1>h, <1>n DEF FoldCompleted, Fold
<1>13. ASSUME NEW r \in Runs, SaveVacate(r) PROVE Goal
  BY <1>13, <1>t, <1>h, <1>n DEF SaveVacate
<1>14. ASSUME NEW r \in Runs, SaveFill(r) PROVE Goal
  BY <1>14, <1>t, <1>h, <1>n DEF SaveFill, Merge, SectionsOf
<1>15. ASSUME NEW r \in Runs, SaveFails(r) PROVE Goal
  BY <1>15, <1>t, <1>h, <1>n DEF SaveFails, Merge, Warn
<1>16. ASSUME NEW r \in Runs, Publish(r) PROVE Goal
  BY <1>16, <1>t, <1>h, <1>n DEF Publish
<1>17. ASSUME NEW r \in Runs, Crash(r) PROVE Goal
  BY <1>17, <1>t, <1>h, <1>n DEF Crash
<1>18. ASSUME NEW r \in Runs, LockReclaimed(r) PROVE Goal
  BY <1>18, <1>t, <1>h, <1>n DEF LockReclaimed
<1>19. CASE UNCHANGED vars
  BY <1>19 DEF vars
<1>20. QED
  BY <1>1, <1>2, <1>3, <1>4, <1>5, <1>6, <1>7, <1>8, <1>9, <1>10, <1>11, <1>12, <1>13, <1>14, <1>15, <1>16, <1>17, <1>18, <1>19 DEF Next, RunStep

\* A journal, live or moved aside, calls nothing else completed than before,
\* except for the job a run has just narrated.
LEMMA AttestedStep == RecordInv /\ QueueOrder /\ Attested /\ [Next]_vars => Attested'
<1> SUFFICES ASSUME RecordInv, QueueOrder, Attested, [Next]_vars, NEW j \in Jobs,
                    \/ journal'[j] = "completed"
                    \/ \E r \in Runs : pc'[r] = "fill" /\ aside'[r][j] = "completed"
             PROVE  Narrated(j)'
  BY DEF Attested
<1>s. Narrated(j) => Narrated(j)'
  BY NarratedStep
<1>a. \/ journal[j] = "completed"
      \/ \E r \in Runs : pc[r] = "fill" /\ aside[r][j] = "completed"
      => Narrated(j)
  BY DEF Attested
<1>t. /\ outcome \in [Runs -> [Jobs -> Outcomes]] /\ pc \in [Runs -> Steps]
      /\ aside \in [Runs -> [Jobs -> Statuses]] /\ snapshot \in [Runs -> [Jobs -> Statuses]]
      /\ entry \in [Runs -> Drafts \cup {"failed"}] /\ todo \in [Runs -> Seq(Jobs)]
  BY DEF RecordInv, TypeOK
<1>f. \A r \in Runs : pc[r] = "fill" =>
        (snapshot[r] = Unwritten \/ snapshot[r] = aside[r]) /\ todo[r] # <<>> /\ Job(r) \in Jobs
  BY <1>t, HeadTail DEF RecordInv, RecordHoldsLock, InHand, Job
<1> DEFINE Goal == Narrated(j)'
<1> USE DEF Goto, At, NextJob, memory, moved, disk
<1>1. ASSUME NEW r \in Runs, Load(r) PROVE Goal
  BY <1>1, <1>s, <1>a, <1>t, <1>f DEF Load
<1>2. ASSUME NEW r \in Runs, Skip(r) PROVE Goal
  BY <1>2, <1>s, <1>a, <1>t, <1>f DEF Skip
<1>3. ASSUME NEW r \in Runs, Narrate(r) PROVE Goal
  BY <1>3, <1>s, <1>a, <1>t, <1>f DEF Narrate
<1>4. ASSUME NEW r \in Runs, QueueDone(r) PROVE Goal
  BY <1>4, <1>s, <1>a, <1>t, <1>f DEF QueueDone
<1>5. ASSUME NEW r \in Runs, RecordRead(r) PROVE Goal
  BY <1>5, <1>s, <1>a, <1>t, <1>f DEF RecordRead
<1>6. ASSUME NEW r \in Runs, RecordVacate(r) PROVE Goal
  BY <1>6, <1>s, <1>a, <1>t, <1>f DEF RecordVacate, Unwritten
<1>7. ASSUME NEW r \in Runs, RecordFill(r) PROVE Goal
  <2>1. CASE j = Job(r)
    BY <1>7, <2>1, <1>s, <1>a, <1>t, <1>f DEF RecordFill, Narrated
  <2>2. CASE j # Job(r)
    <3>1. snapshot[r][j] = "completed" \/ \E s \in Runs : pc[s] = "fill" /\ aside[s][j] = "completed"
      BY <1>7, <2>2, <1>t, <1>f DEF RecordFill
    <3>2. Unwritten[j] # "completed"
      BY DEF Unwritten
    <3>3. QED
      BY <1>7, <3>1, <3>2, <1>s, <1>a, <1>f DEF RecordFill
  <2>3. QED
    BY <2>1, <2>2
<1>8. ASSUME NEW r \in Runs, LockTimeout(r) PROVE Goal
  BY <1>8, <1>s, <1>a, <1>t, <1>f DEF LockTimeout, RecordThrows
<1>9. ASSUME NEW r \in Runs, RecordFails(r) PROVE Goal
  BY <1>9, <1>s, <1>a, <1>t, <1>f DEF RecordFails, RecordThrows
<1>10. ASSUME NEW r \in Runs, FoldSkipped(r) PROVE Goal
  BY <1>10, <1>s, <1>a, <1>t, <1>f DEF FoldSkipped
<1>11. ASSUME NEW r \in Runs, FoldFailed(r) PROVE Goal
  BY <1>11, <1>s, <1>a, <1>t, <1>f DEF FoldFailed
<1>12. ASSUME NEW r \in Runs, FoldCompleted(r) PROVE Goal
  BY <1>12, <1>s, <1>a, <1>t, <1>f DEF FoldCompleted
<1>13. ASSUME NEW r \in Runs, SaveVacate(r) PROVE Goal
  BY <1>13, <1>s, <1>a, <1>t, <1>f DEF SaveVacate
<1>14. ASSUME NEW r \in Runs, SaveFill(r) PROVE Goal
  BY <1>14, <1>s, <1>a, <1>t, <1>f DEF SaveFill, Merge
<1>15. ASSUME NEW r \in Runs, SaveFails(r) PROVE Goal
  BY <1>15, <1>s, <1>a, <1>t, <1>f DEF SaveFails, Merge
<1>16. ASSUME NEW r \in Runs, Publish(r) PROVE Goal
  BY <1>16, <1>s, <1>a, <1>t, <1>f DEF Publish
<1>17. ASSUME NEW r \in Runs, Crash(r) PROVE Goal
  BY <1>17, <1>s, <1>a, <1>t, <1>f DEF Crash
<1>18. ASSUME NEW r \in Runs, LockReclaimed(r) PROVE Goal
  BY <1>18, <1>s, <1>a, <1>t, <1>f DEF LockReclaimed
<1>19. CASE UNCHANGED vars
  BY <1>19, <1>a DEF vars, Narrated
<1>20. QED
  BY <1>1, <1>2, <1>3, <1>4, <1>5, <1>6, <1>7, <1>8, <1>9, <1>10, <1>11, <1>12, <1>13, <1>14, <1>15, <1>16, <1>17, <1>18, <1>19 DEF Next, RunStep

\* Sections that were saved are never lost again.
LEMMA KeptStep == RecordInv /\ QueueOrder /\ Kept /\ [Next]_vars => Kept'
<1> SUFFICES ASSUME RecordInv, QueueOrder, Kept, [Next]_vars, NEW j \in Jobs, Narrated(j)'
             PROVE  sections'[j] # "absent" \/ \E r \in Runs : Owed(r, j)'
  BY DEF Kept
<1>1. CASE \E t \in Runs : Owed(t, j)'
  BY <1>1
<1>2. CASE Narrated(j)
  <2>1. CASE sections[j] # "absent"
    BY <2>1, SectionsStep
  <2>2. CASE \E r \in Runs : Owed(r, j)
    BY <2>2, OwedStep
  <2>3. QED
    BY <1>2, <2>1, <2>2 DEF Kept
<1>3. QED
  BY <1>1, <1>2, NarratedStep

\* document-bundle-to-disk.ts: what the journal calls completed can be reused,
\* unless the run that narrated it is still saving it, died, was ended by the
\* journal or said that it could not save it.
THEOREM CompletedIsKept == Spec => []CompletedHasSections
<1> DEFINE IInv == RecordInv /\ QueueOrder /\ Attested /\ Kept
<1>1. Init => IInv
  <2> SUFFICES ASSUME Init PROVE IInv
    OBVIOUS
  <2>1. "none" \notin Drafts
    BY DraftAssumption DEF DraftKinds
  <2>2. \A j \in Jobs : ~Narrated(j)
    BY <2>1 DEF Init, Narrated
  <2>3. \A j \in Jobs : journal[j] = "none" /\ \A r \in Runs : pc[r] = "start"
    BY DEF Init, Unwritten
  <2>4. Attested /\ Kept
    BY <2>2, <2>3 DEF Attested, Kept
  <2>5. QED
    BY <2>4, RecordInit, QueueOrderInit
<1>2. IInv /\ [Next]_vars => IInv'
  BY RecordStep, QueueOrderStep, AttestedStep, KeptStep
<1>3. IInv => CompletedHasSections
  <2> SUFFICES ASSUME IInv, NEW j \in Jobs, journal[j] = "completed", sections[j] = "absent"
               PROVE  \E r \in Runs :
                        /\ outcome[r][j] \in Drafts
                        /\ pc[r] \notin {"done", "unpublished"} \/ "could not be cached" \in warned[r][j]
    BY DEF CompletedHasSections
  <2>1. PICK r \in Runs : Owed(r, j)
    BY DEF Attested, Kept
  <2>2. QED
    BY <2>1 DEF Owed, QueueSteps, FoldSteps
<1>4. QED
  BY <1>1, <1>2, <1>3, PTL DEF Spec

-----------------------------------------------------------------------------
(* Nothing is lost without a word *)

\* Empty sections, on disk or moved aside, come from a narration that left none.
EmptyIsNarrated ==
  /\ \A j \in Jobs : sections[j] = "empty" => AcceptedNone(j)
  /\ \A r \in Runs : pc[r] = "saveFill" /\ sectionsAside[r] = "empty" => AcceptedNone(Job(r))

\* What became of a job in a run that is through with it.
Accounted(r, j) ==
  \/ merged[r][j] # "none"
  \/ warned[r][j] # {}
  \/ outcome[r][j] = "empty"
  \/ outcome[r][j] = "skipped" /\ AcceptedNone(j)

\* What the fold has passed of a batch is accounted for.
Folded ==
  \A r \in Runs, j \in Jobs :
    In(j, Batch[r]) /\ (pc[r] = "done" \/ (pc[r] \in FoldSteps /\ ~In(j, todo[r]))) => Accounted(r, j)

\* What became of a job in a run is not revised.
LEMMA OutcomeStands ==
  ASSUME RecordInv, QueueOrder, [Next]_vars, NEW s \in Runs, NEW j \in Jobs, outcome[s][j] # "none"
  PROVE  outcome'[s][j] = outcome[s][j]
<1>1. UNCHANGED outcome \/ \E r \in Runs : Skip(r) \/ RecordFill(r)
  BY DEF Next, RunStep, vars, memory, Load, Narrate, QueueDone, RecordRead, RecordVacate, LockTimeout,
         RecordFails, FoldSkipped, FoldFailed, FoldCompleted, SaveVacate, SaveFill, SaveFails, Publish,
         Crash, LockReclaimed
<1>2. ASSUME NEW r \in Runs, Skip(r) \/ RecordFill(r) PROVE outcome'[s][j] = outcome[s][j]
  <2>1. outcome \in [Runs -> [Jobs -> Outcomes]] /\ todo[r] \in Seq(Jobs)
    BY DEF RecordInv, TypeOK
  <2>2. pc[r] \in QueueSteps /\ todo[r] # <<>>
    BY <1>2 DEF Skip, RecordFill, RecordInv, InHand, At, QueueSteps
  <2>3. Job(r) \in Jobs /\ In(Job(r), todo[r])
    BY <2>1, <2>2, HeadTail DEF Job
  <2>4. outcome[r][Job(r)] = "none"
    BY <2>2, <2>3 DEF QueueOrder
  <2>5. \E result : outcome' = [outcome EXCEPT ![r][Job(r)] = result]
    BY <1>2 DEF Skip, RecordFill
  <2>6. QED
    BY <2>1, <2>4, <2>5
<1>3. QED
  BY <1>1, <1>2

\* A narration that left nothing to save stays one.
LEMMA AcceptedNoneStands ==
  ASSUME RecordInv, QueueOrder, [Next]_vars, NEW j \in Jobs, AcceptedNone(j)
  PROVE  AcceptedNone(j)'
<1>1. PICK r \in Runs : outcome[r][j] \in {"rejected", "empty"}
  BY DEF AcceptedNone
<1>2. outcome[r][j] # "none"
  BY <1>1
<1>3. outcome'[r][j] = outcome[r][j]
  BY <1>2, OutcomeStands
<1>4. QED
  BY <1>1, <1>3 DEF AcceptedNone

\* Sections are found empty only after a narration that left nothing to save.
LEMMA EmptyIsNarratedStep ==
  RecordInv /\ QueueOrder /\ EmptyIsNarrated /\ [Next]_vars => EmptyIsNarrated'
<1> SUFFICES ASSUME RecordInv, QueueOrder, EmptyIsNarrated, [Next]_vars PROVE EmptyIsNarrated'
  OBVIOUS
<1>t. /\ pc \in [Runs -> Steps] /\ todo \in [Runs -> Seq(Jobs)] /\ sections \in [Jobs -> Saved]
      /\ sectionsAside \in [Runs -> Saved] /\ outcome \in [Runs -> [Jobs -> Outcomes]]
      /\ warned \in [Runs -> [Jobs -> SUBSET Warnings]] /\ merged \in [Runs -> [Jobs -> Markdown]]
  BY DEF RecordInv, TypeOK
<1>h. ASSUME NEW r \in Runs, todo[r] # <<>>
      PROVE  Job(r) \in Jobs /\ \A k : In(k, todo[r]) <=> k = Job(r) \/ In(k, Tail(todo[r]))
  BY <1>h, <1>t, HeadTail DEF Job
<1>n. \A r \in Runs :
        /\ pc[r] \in {"lock", "vacate", "fill", "saveVacate", "saveFill"} => todo[r] # <<>>
        /\ pc[r] \in {"saveVacate", "saveFill"} => outcome[r][Job(r)] \in Drafts
  BY DEF RecordInv, InHand
<1> DEFINE Left == {j \in Jobs : AcceptedNone(j)'}
           Goal == /\ \A j \in Jobs : sections'[j] = "empty" => j \in Left
                   /\ \A r \in Runs : pc'[r] = "saveFill" /\ sectionsAside'[r] = "empty" => Head(todo'[r]) \in Left
<1>s. \A j \in Jobs : AcceptedNone(j) => j \in Left
  BY AcceptedNoneStands
<1>e1. /\ \A j \in Jobs : sections[j] = "empty" => j \in Left
       /\ \A r \in Runs : pc[r] = "saveFill" /\ sectionsAside[r] = "empty" => Job(r) \in Left
  BY <1>s, <1>h, <1>n DEF EmptyIsNarrated
<1>e2. ASSUME NEW r \in Runs, SaveFill(r), SectionsOf(outcome[r][Job(r)]) = "empty" PROVE Job(r) \in Left
  <2>1. Job(r) \in Jobs /\ outcome[r][Job(r)] \in Drafts
    BY <1>e2, <1>h, <1>n DEF SaveFill, At
  <2>2. AcceptedNone(Job(r))
    BY <1>e2, <2>1, DraftAssumption DEF AcceptedNone, SectionsOf, DraftKinds
  <2>3. QED
    BY <1>s, <2>1, <2>2
<1> HIDE DEF Left
<1> USE DEF Goto, At, NextJob, Job, memory, moved, disk
<1>1. ASSUME NEW r \in Runs, Load(r) PROVE Goal
  BY <1>1, <1>t, <1>h, <1>n, <1>e1 DEF Load
<1>2. ASSUME NEW r \in Runs, Skip(r) PROVE Goal
  BY <1>2, <1>t, <1>h, <1>n, <1>e1 DEF Skip
<1>3. ASSUME NEW r \in Runs, Narrate(r) PROVE Goal
  BY <1>3, <1>t, <1>h, <1>n, <1>e1 DEF Narrate
<1>4. ASSUME NEW r \in Runs, QueueDone(r) PROVE Goal
  BY <1>4, <1>t, <1>h, <1>n, <1>e1 DEF QueueDone
<1>5. ASSUME NEW r \in Runs, RecordRead(r) PROVE Goal
  BY <1>5, <1>t, <1>h, <1>n, <1>e1 DEF RecordRead
<1>6. ASSUME NEW r \in Runs, RecordVacate(r) PROVE Goal
  BY <1>6, <1>t, <1>h, <1>n, <1>e1 DEF RecordVacate
<1>7. ASSUME NEW r \in Runs, RecordFill(r) PROVE Goal
  BY <1>7, <1>t, <1>h, <1>n, <1>e1 DEF RecordFill
<1>8. ASSUME NEW r \in Runs, LockTimeout(r) PROVE Goal
  BY <1>8, <1>t, <1>h, <1>n, <1>e1 DEF LockTimeout, RecordThrows
<1>9. ASSUME NEW r \in Runs, RecordFails(r) PROVE Goal
  BY <1>9, <1>t, <1>h, <1>n, <1>e1 DEF RecordFails, RecordThrows
<1>10. ASSUME NEW r \in Runs, FoldSkipped(r) PROVE Goal
  BY <1>10, <1>t, <1>h, <1>n, <1>e1 DEF FoldSkipped, Fold, Warn
<1>11. ASSUME NEW r \in Runs, FoldFailed(r) PROVE Goal
  BY <1>11, <1>t, <1>h, <1>n, <1>e1 DEF FoldFailed, Fold, Warn
<1>12. ASSUME NEW r \in Runs, FoldCompleted(r) PROVE Goal
  BY <1>12, <1>t, <1>h, <1>n, <1>e1 DEF FoldCompleted, Fold
<1>13. ASSUME NEW r \in Runs, SaveVacate(r) PROVE Goal
  BY <1>13, <1>t, <1>h, <1>n, <1>e1 DEF SaveVacate
<1>14. ASSUME NEW r \in Runs, SaveFill(r) PROVE Goal
  BY <1>14, <1>t, <1>h, <1>n, <1>e1, <1>e2 DEF SaveFill, Merge
<1>15. ASSUME NEW r \in Runs, SaveFails(r) PROVE Goal
  BY <1>15, <1>t, <1>h, <1>n, <1>e1 DEF SaveFails, Merge, Warn
<1>16. ASSUME NEW r \in Runs, Publish(r) PROVE Goal
  BY <1>16, <1>t, <1>h, <1>n, <1>e1 DEF Publish
<1>17. ASSUME NEW r \in Runs, Crash(r) PROVE Goal
  BY <1>17, <1>t, <1>h, <1>n, <1>e1 DEF Crash
<1>18. ASSUME NEW r \in Runs, LockReclaimed(r) PROVE Goal
  BY <1>18, <1>t, <1>h, <1>n, <1>e1 DEF LockReclaimed
<1>19. ASSUME UNCHANGED vars PROVE Goal
  BY <1>19, <1>t, <1>h, <1>n, <1>e1 DEF vars
<1>20. Goal
  BY <1>1, <1>2, <1>3, <1>4, <1>5, <1>6, <1>7, <1>8, <1>9, <1>10, <1>11, <1>12, <1>13, <1>14, <1>15, <1>16, <1>17, <1>18, <1>19 DEF Next, RunStep
<1>21. QED
  BY <1>20 DEF EmptyIsNarrated, Left, Job

\* The fold accounts for each job before it goes on to the next.
LEMMA FoldedStep ==
  RecordInv /\ QueueOrder /\ EmptyIsNarrated /\ Folded /\ [Next]_vars => Folded'
<1> SUFFICES ASSUME RecordInv, QueueOrder, EmptyIsNarrated, Folded, [Next]_vars PROVE Folded'
  OBVIOUS
<1>t. /\ pc \in [Runs -> Steps] /\ todo \in [Runs -> Seq(Jobs)] /\ sections \in [Jobs -> Saved]
      /\ sectionsAside \in [Runs -> Saved] /\ outcome \in [Runs -> [Jobs -> Outcomes]]
      /\ warned \in [Runs -> [Jobs -> SUBSET Warnings]] /\ merged \in [Runs -> [Jobs -> Markdown]]
  BY DEF RecordInv, TypeOK
<1>h. ASSUME NEW r \in Runs, todo[r] # <<>>
      PROVE  Job(r) \in Jobs /\ \A k : In(k, todo[r]) <=> k = Job(r) \/ In(k, Tail(todo[r]))
  BY <1>h, <1>t, HeadTail DEF Job
<1>n. \A r \in Runs :
        /\ pc[r] \in {"lock", "vacate", "fill", "saveVacate", "saveFill"} => todo[r] # <<>>
        /\ pc[r] \in {"saveVacate", "saveFill"} => outcome[r][Job(r)] \in Drafts
  BY DEF RecordInv, InHand
<1>d. "skipped" \notin Drafts /\ "none" \notin Drafts /\ "failed" \notin Drafts
  BY DraftAssumption DEF DraftKinds
<1> DEFINE Left == {j \in Jobs : AcceptedNone(j)'}
           Ok(s, k) == \/ merged'[s][k] # "none" \/ warned'[s][k] # {} \/ outcome'[s][k] = "empty"
                       \/ outcome'[s][k] = "skipped" /\ k \in Left
           Goal == \A s \in Runs, k \in Jobs :
                     In(k, Batch[s]) /\ (pc'[s] = "done" \/ (pc'[s] \in FoldSteps /\ ~In(k, todo'[s]))) => Ok(s, k)
<1>s. \A j \in Jobs : AcceptedNone(j) => j \in Left
  BY AcceptedNoneStands
<1>e. \A j \in Jobs : sections[j] = "empty" => j \in Left
  BY <1>s DEF EmptyIsNarrated
<1>f. \A s \in Runs, k \in Jobs :
        In(k, Batch[s]) /\ (pc[s] = "done" \/ (pc[s] \in FoldSteps /\ ~In(k, todo[s])))
          => \/ merged[s][k] # "none" \/ warned[s][k] # {} \/ outcome[s][k] = "empty"
             \/ outcome[s][k] = "skipped" /\ k \in Left
  BY <1>s DEF Folded, Accounted
<1> HIDE DEF Left
<1> USE DEF FoldSteps, Goto, At, NextJob, memory, moved, disk
<1>1. ASSUME NEW r \in Runs, Load(r) PROVE Goal
  BY <1>1, <1>t, <1>h, <1>n, <1>f DEF Load
<1>2. ASSUME NEW r \in Runs, Skip(r) PROVE Goal
  BY <1>2, <1>t, <1>h, <1>n, <1>f DEF Skip
<1>3. ASSUME NEW r \in Runs, Narrate(r) PROVE Goal
  BY <1>3, <1>t, <1>h, <1>n, <1>f DEF Narrate
<1>4. ASSUME NEW r \in Runs, QueueDone(r) PROVE Goal
  BY <1>4, <1>t, <1>h, <1>n, <1>f DEF QueueDone
<1>5. ASSUME NEW r \in Runs, RecordRead(r) PROVE Goal
  BY <1>5, <1>t, <1>h, <1>n, <1>f DEF RecordRead
<1>6. ASSUME NEW r \in Runs, RecordVacate(r) PROVE Goal
  BY <1>6, <1>t, <1>h, <1>n, <1>f DEF RecordVacate
<1>7. ASSUME NEW r \in Runs, RecordFill(r) PROVE Goal
  BY <1>7, <1>t, <1>h, <1>n, <1>f DEF RecordFill
<1>8. ASSUME NEW r \in Runs, LockTimeout(r) PROVE Goal
  BY <1>8, <1>t, <1>h, <1>n, <1>f DEF LockTimeout, RecordThrows
<1>9. ASSUME NEW r \in Runs, RecordFails(r) PROVE Goal
  <2>1. \E step \in {"lock", "aborted"} : Goto(r, step)
    BY <1>9 DEF RecordFails, RecordThrows
  <2>2. UNCHANGED <<todo, outcome, merged, warned>>
    BY <1>9 DEF RecordFails
  <2>3. QED
    BY <1>t, <1>f, <2>1, <2>2
<1>10. ASSUME NEW r \in Runs, FoldSkipped(r) PROVE Goal
  <2>1. /\ pc[r] = "fold" /\ outcome[r][Job(r)] = "skipped" /\ Job(r) \in Jobs
        /\ pc' = pc /\ outcome' = outcome /\ todo' = [todo EXCEPT ![r] = Tail(todo[r])]
        /\ \A k : In(k, todo[r]) <=> k = Job(r) \/ In(k, Tail(todo[r]))
    BY <1>10, <1>h DEF FoldSkipped, Fold
  <2>2. Ok(r, Job(r)) /\ \A s \in Runs, k \in Jobs : s # r \/ k # Job(r) =>
          merged'[s][k] = merged[s][k] /\ warned'[s][k] = warned[s][k]
    <3>1. CASE Warn(r, "could not be located") /\ merged' = merged
      BY <1>t, <2>1, <3>1 DEF Warn
    <3>2. CASE /\ sections[Job(r)] # "absent" /\ warned' = warned
               /\ merged' = [merged EXCEPT ![r][Job(r)] = Rerendered(sections[Job(r)])]
      <4>2. sections[Job(r)] = "accepted" \/ Job(r) \in Left
        BY <1>t, <1>e, <2>1, <3>2 DEF Saved
      <4>3. QED
        BY <1>t, <2>1, <3>2, <4>2 DEF Rerendered
    <3>3. QED
      BY <1>10, <3>1, <3>2 DEF FoldSkipped
  <2>3. ASSUME NEW s \in Runs, NEW k \in Jobs, pc'[s] \in FoldSteps \cup {"done"}, In(k, Batch[s]),
               pc'[s] = "done" \/ ~In(k, todo'[s]), s # r \/ k # Job(r)
        PROVE  Ok(s, k)
    <3>1. pc[s] = "done" \/ (pc[s] \in FoldSteps /\ ~In(k, todo[s]))
      BY <1>t, <2>1, <2>3
    <3>2. QED
      BY <1>f, <2>1, <2>2, <2>3, <3>1
  <2>4. QED
    BY <2>2, <2>3
<1>11. ASSUME NEW r \in Runs, FoldFailed(r) PROVE Goal
  BY <1>11, <1>t, <1>h, <1>n, <1>f DEF FoldFailed, Fold, Warn
<1>12. ASSUME NEW r \in Runs, FoldCompleted(r) PROVE Goal
  BY <1>12, <1>t, <1>h, <1>n, <1>f DEF FoldCompleted, Fold
<1>13. ASSUME NEW r \in Runs, SaveVacate(r) PROVE Goal
  BY <1>13, <1>t, <1>h, <1>n, <1>f DEF SaveVacate
<1>14. ASSUME NEW r \in Runs, SaveFill(r) PROVE Goal
  BY <1>14, <1>t, <1>h, <1>n, <1>f, <1>d DEF SaveFill, Merge, Rendered
<1>15. ASSUME NEW r \in Runs, SaveFails(r) PROVE Goal
  BY <1>15, <1>t, <1>h, <1>n, <1>f, <1>d, ZenonT(60) DEF SaveFails, Merge, Warn, Rendered
<1>16. ASSUME NEW r \in Runs, Publish(r) PROVE Goal
  BY <1>16, <1>t, <1>h, <1>n, <1>f, EmptyQueue DEF Publish
<1>17. ASSUME NEW r \in Runs, Crash(r) PROVE Goal
  BY <1>17, <1>t, <1>h, <1>n, <1>f DEF Crash
<1>18. ASSUME NEW r \in Runs, LockReclaimed(r) PROVE Goal
  BY <1>18, <1>t, <1>h, <1>n, <1>f DEF LockReclaimed
<1>19. ASSUME UNCHANGED vars PROVE Goal
  BY <1>19, <1>t, <1>h, <1>n, <1>f DEF vars
<1>20. Goal
  BY <1>1, <1>2, <1>3, <1>4, <1>5, <1>6, <1>7, <1>8, <1>9, <1>10, <1>11, <1>12, <1>13, <1>14, <1>15, <1>16, <1>17, <1>18, <1>19 DEF Next, RunStep
<1>21. QED
  BY <1>20 DEF Folded, Accounted, Left

\* document-bundle-to-disk.ts: each job of a run that published has a narrative.md
\* or a warning, or its draft was empty, or it was skipped after a narration that
\* accepted nothing.
THEOREM NothingAcceptedIsLost == Spec => []AcceptedIsNotLost
<1> DEFINE IInv == RecordInv /\ QueueOrder /\ EmptyIsNarrated /\ Folded
<1>1. Init => IInv
  <2> SUFFICES ASSUME Init PROVE IInv
    OBVIOUS
  <2>1. EmptyIsNarrated
    BY DEF Init, EmptyIsNarrated
  <2>2. Folded
    BY DEF Init, Folded, FoldSteps
  <2>3. QED
    BY <2>1, <2>2, RecordInit, QueueOrderInit
<1>2. IInv /\ [Next]_vars => IInv'
  BY RecordStep, QueueOrderStep, EmptyIsNarratedStep, FoldedStep
<1>3. IInv => AcceptedIsNotLost
  <2> SUFFICES ASSUME IInv, NEW r \in Runs, At(r, "done"), NEW i \in DOMAIN Batch[r]
               PROVE  Accounted(r, Batch[r][i])
    BY DEF AcceptedIsNotLost, Accounted
  <2>1. Batch[r][i] \in Jobs /\ In(Batch[r][i], Batch[r])
    BY BatchAssumption DEF In
  <2>2. QED
    BY <2>1 DEF Folded, At
<1>4. QED
  BY <1>1, <1>2, <1>3, PTL DEF Spec
=============================================================================
