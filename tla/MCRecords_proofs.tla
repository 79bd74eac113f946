--------------------------- MODULE MCRecords_proofs ---------------------------
(***************************************************************************)
(* Proofs about what is made of captured flows, for every value of the     *)
(* constants: the documents of several runs (what a run may say of the     *)
(* flows it discovered and of the documents it found, as long as no other  *)
(* run moved a tree under its reads), the renames of two writers that put  *)
(* them there, a sealed bundle and its copy, and what is kept of a draft.  *)
(* What is proved of a flow's snapshots and graphs in MCFlow_proofs holds  *)
(* of the composition too: see the last theorem.                           *)
(***************************************************************************)
EXTENDS MCRecords, MCFlow_proofs

-----------------------------------------------------------------------------
(* The documents of several runs *)

Captures == [path : Flows, capturedBy : Runs]
Codes == Policy \cup {"FLOW_LOAD_FAILED", "FLOW_NOT_DOCUMENTED"}

TypeOK ==
  /\ pc \in [Runs -> Steps] /\ captureLock \subseteq Runs
  /\ discovered \in [Runs -> SUBSET Flows]
  /\ bundle \subseteq Captures /\ bundleAside \subseteq Captures
  /\ documents \subseteq Entries /\ archive \in [Runs -> SUBSET Entries]
  /\ listed \in [Runs -> SUBSET Flows] /\ source \in [Runs -> SUBSET Captures]
  /\ existing \in [Runs -> SUBSET Entries] /\ warnings \in [Runs -> SUBSET Codes]
  /\ disturbed \subseteq Runs /\ faults \in Nat /\ crashes \in Nat
  /\ hidden \in [Runs -> SUBSET Flows] /\ unread \in [Runs -> SUBSET Flows]

\* A run has a warning of its own to report.
HasWarning(r) == \E code \in warnings[r] : code \notin Policy

\* From the capture to the documents: the bundle is what the run discovered, what it
\* has read of it is in source but for what a listing hid, and source stays.
FromCapture(r) ==
  /\ pc[r] \in {"start", "discover", "captureVacate", "captureFill", "list"} =>
       source[r] = {} /\ hidden[r] = {}
  /\ r \notin disturbed /\ ~HasWarning(r) =>
       /\ pc[r] \in Reading => bundle = Captured(r, discovered[r])
       /\ pc[r] = "read" =>
            /\ source[r] \subseteq bundle /\ listed[r] \cap hidden[r] = {}
            /\ \A e \in source[r] : e.path \notin listed[r] \cup hidden[r]
            /\ \A e \in bundle : e \in source[r] \/ e.path \in listed[r] \cup hidden[r]
       /\ pc[r] \in {"walk", "finish", "completed", "completed_with_warnings"} \cup Merging =>
            source[r] = Captured(r, discovered[r] \ hidden[r])

\* From the documents to the promotion: what the run could read of them is in existing,
\* and what it moves out of the way is all of it.
FromDocuments(r) ==
  /\ pc[r] \in {"start", "discover", "captureVacate", "captureFill", "list", "read", "walk"} =>
       existing[r] = {} /\ unread[r] = {}
  /\ r \notin disturbed =>
       /\ pc[r] = "collect" =>
            /\ listed[r] \cap unread[r] = {}
            /\ existing[r] = {e \in documents : e.path \notin listed[r] \cup unread[r]}
       /\ pc[r] = "fill" => existing[r] = {e \in archive[r] : e.path \notin unread[r]}

DocumentInv == TypeOK /\ \A r \in Runs : FromCapture(r) /\ FromDocuments(r)

-----------------------------------------------------------------------------
(* Type correctness *)

\* What a capture leaves in the bundle.
LEMMA CapturedType ==
  ASSUME NEW r \in Runs, NEW flows \in SUBSET Flows PROVE Captured(r, flows) \subseteq Captures
BY DEF Captured, Captures

\* What a run promotes.
LEMMA MergedType ==
  ASSUME NEW r \in Runs, source[r] \subseteq Captures, existing[r] \subseteq Entries
  PROVE  Produced(r) \subseteq Entries /\ Merged(r) \subseteq Entries
<1>1. \A e \in source[r] : e.path \in Flows /\ e.capturedBy \in Runs
  BY DEF Captures
<1>2. Produced(r) \subseteq Entries
  BY <1>1 DEF Produced, Entries
<1>. QED
  BY <1>2 DEF Merged

LEMMA TypeInit == Init => TypeOK
<1> SUFFICES ASSUME Init PROVE TypeOK
  OBVIOUS
<1>1. Earlier \subseteq Runs /\ \A r \in Runs : Selected[r] \in SUBSET Flows
  BY SelectionAssumption, EarlierAssumption
<1>2. bundle \subseteq Captures
  BY <1>1 DEF Init, Captured, Captures
<1>3. documents \subseteq Entries
  BY <1>1 DEF Init, Entries
<1>4. source \in [Runs -> SUBSET Captures]
  BY <1>1, CapturedType DEF Init
<1>5. pc \in [Runs -> Steps] /\ warnings \in [Runs -> SUBSET Codes]
  BY DEF Init, Steps, Ended, Codes
<1>6. discovered \in [Runs -> SUBSET Flows]
  BY <1>1 DEF Init
<1>. QED
  BY <1>2, <1>3, <1>4, <1>5, <1>6 DEF Init, TypeOK

LEMMA TypeStep == TypeOK /\ [Next]_vars => TypeOK'
<1> SUFFICES ASSUME TypeOK, [Next]_vars PROVE TypeOK'
  OBVIOUS
<1> USE DEF TypeOK, Goto, capture, missed, Fault, Disturbs, Steps, Reading, Merging, Ended
<1>1. ASSUME NEW r \in Runs, CaptureStart(r) PROVE TypeOK'
  BY <1>1 DEF CaptureStart
<1>2. ASSUME NEW r \in Runs, CaptureDiscover(r) PROVE TypeOK'
  BY <1>2, SelectionAssumption DEF CaptureDiscover
<1>3. ASSUME NEW r \in Runs, CaptureVacate(r) PROVE TypeOK'
  BY <1>3 DEF CaptureVacate
<1>4. ASSUME NEW r \in Runs, CaptureFill(r) PROVE TypeOK'
  <2>1. bundle' \subseteq Captures
    BY <1>4, CapturedType DEF CaptureFill
  <2>2. warnings' \in [Runs -> SUBSET Codes]
    BY <1>4 DEF CaptureFill, Codes
  <2>. QED
    BY <1>4, <2>1, <2>2 DEF CaptureFill
<1>5. ASSUME NEW r \in Runs, CaptureFillFails(r) PROVE TypeOK'
  BY <1>5 DEF CaptureFillFails
<1>6. ASSUME NEW r \in Runs, ListBundle(r) PROVE TypeOK'
  <2>1. Paths(bundle) \subseteq Flows
    BY DEF Captures, Paths
  <2>. QED
    BY <1>6, <2>1 DEF ListBundle
<1>7. ASSUME NEW r \in Runs, ReadFlow(r) PROVE TypeOK'
  BY <1>7 DEF ReadFlow, Codes
<1>8. ASSUME NEW r \in Runs, ReadDone(r) PROVE TypeOK'
  BY <1>8 DEF ReadDone
<1>9. ASSUME NEW r \in Runs, WalkDocuments(r) PROVE TypeOK'
  <2>1. Paths(documents) \subseteq Flows
    BY DEF Entries, Paths
  <2>. QED
    BY <1>9, <2>1 DEF WalkDocuments
<1>10. ASSUME NEW r \in Runs, CollectExisting(r) PROVE TypeOK'
  BY <1>10 DEF CollectExisting
<1>11. ASSUME NEW r \in Runs, Vacate(r) PROVE TypeOK'
  BY <1>11 DEF Vacate
<1>12. ASSUME NEW r \in Runs, Fill(r) PROVE TypeOK'
  <2>1. Merged(r) \subseteq Entries
    BY MergedType
  <2>. QED
    BY <1>12, <2>1 DEF Fill
<1>13. ASSUME NEW r \in Runs, FillFails(r) PROVE TypeOK'
  BY <1>13 DEF FillFails
<1>14. ASSUME NEW r \in Runs, Finish(r) PROVE TypeOK'
  BY <1>14 DEF Finish
<1>15. ASSUME NEW r \in Runs, Crash(r) PROVE TypeOK'
  BY <1>15 DEF Crash
<1>16. ASSUME NEW r \in Runs, LockReclaimed(r) PROVE TypeOK'
  BY <1>16 DEF LockReclaimed
<1>17. CASE UNCHANGED vars
  BY <1>17 DEF vars
<1>. QED
  BY <1>1, <1>2, <1>3, <1>4, <1>5, <1>6, <1>7, <1>8, <1>9, <1>10, <1>11, <1>12, <1>13, <1>14,
     <1>15, <1>16, <1>17 DEF Next, RunStep

\* The state of the runs, of the bundle and of the documents stays well formed.
THEOREM DocumentsTypeCorrect == Spec => []TypeOK
BY TypeInit, TypeStep, PTL DEF Spec

-----------------------------------------------------------------------------
(* What other runs may do to a run *)

\* A step that leaves what a run has, and moves a tree the run is reading only by
\* disturbing it.
LEMMA Elsewhere ==
  ASSUME NEW r \in Runs, FromCapture(r), FromDocuments(r), disturbed \subseteq disturbed',
         pc'[r] = pc[r], source'[r] = source[r], discovered'[r] = discovered[r],
         warnings'[r] = warnings[r], listed'[r] = listed[r],
         existing'[r] = existing[r], archive'[r] = archive[r],
         hidden'[r] = hidden[r], unread'[r] = unread[r],
         bundle' = bundle \/ pc[r] \notin Reading \/ r \in disturbed',
         documents' = documents \/ pc[r] # "collect" \/ r \in disturbed'
  PROVE  FromCapture(r)' /\ FromDocuments(r)'
<1>1. /\ HasWarning(r)' <=> HasWarning(r)
      /\ Captured(r, discovered[r])' = Captured(r, discovered[r])
      /\ Captured(r, discovered[r] \ hidden[r])' = Captured(r, discovered[r] \ hidden[r])
  BY DEF HasWarning, Captured
<1>2. FromCapture(r)'
  BY <1>1 DEF FromCapture, Reading
<1>3. FromDocuments(r)'
  BY DEF FromDocuments
<1>. QED
  BY <1>2, <1>3

\* A run that ends without documents, for whatever reason, claims nothing.
LEMMA GivesUp ==
  ASSUME NEW r \in Runs, pc'[r] \in {"failed", "dead"}
  PROVE  FromCapture(r)' /\ FromDocuments(r)'
BY DEF FromCapture, FromDocuments, Reading, Merging

\* A step of one run leaves every other run's claims alone.
LEMMA OthersStand ==
  ASSUME DocumentInv, NEW s \in Runs, RunStep(s) \/ Crash(s) \/ LockReclaimed(s),
         NEW r \in Runs, r # s
  PROVE  FromCapture(r)' /\ FromDocuments(r)'
<1>. USE DEF DocumentInv, TypeOK, Goto, capture, missed, Disturbs, Merging
<1>1. FromCapture(r) /\ FromDocuments(r)
  OBVIOUS
<1>2. CASE CaptureStart(s)
  BY <1>1, <1>2, Elsewhere DEF CaptureStart
<1>3. CASE CaptureDiscover(s)
  BY <1>1, <1>3, Elsewhere DEF CaptureDiscover
<1>4. CASE CaptureVacate(s)
  BY <1>1, <1>4, Elsewhere DEF CaptureVacate
<1>5. CASE CaptureFill(s)
  BY <1>1, <1>5, Elsewhere DEF CaptureFill
<1>6. CASE CaptureFillFails(s)
  BY <1>1, <1>6, Elsewhere DEF CaptureFillFails
<1>7. CASE ListBundle(s)
  BY <1>1, <1>7, Elsewhere DEF ListBundle
<1>8. CASE ReadFlow(s)
  BY <1>1, <1>8, Elsewhere DEF ReadFlow
<1>9. CASE ReadDone(s)
  BY <1>1, <1>9, Elsewhere DEF ReadDone
<1>10. CASE WalkDocuments(s)
  BY <1>1, <1>10, Elsewhere DEF WalkDocuments
<1>11. CASE CollectExisting(s)
  BY <1>1, <1>11, Elsewhere DEF CollectExisting
<1>12. CASE Vacate(s)
  BY <1>1, <1>12, Elsewhere DEF Vacate
<1>13. CASE Fill(s)
  BY <1>1, <1>13, Elsewhere DEF Fill
<1>14. CASE FillFails(s)
  BY <1>1, <1>14, Elsewhere DEF FillFails
<1>15. CASE Finish(s)
  BY <1>1, <1>15, Elsewhere DEF Finish
<1>16. CASE Crash(s)
  BY <1>1, <1>16, Elsewhere DEF Crash
<1>17. CASE LockReclaimed(s)
  BY <1>1, <1>17, Elsewhere DEF LockReclaimed
<1>. QED
  BY <1>2, <1>3, <1>4, <1>5, <1>6, <1>7, <1>8, <1>9, <1>10, <1>11, <1>12, <1>13, <1>14, <1>15,
     <1>16, <1>17 DEF RunStep

-----------------------------------------------------------------------------
(* What a run does *)

\* The capture: the bundle holds what was discovered, or a warning says that it does not.
LEMMA CaptureStands ==
  ASSUME DocumentInv, TypeOK', NEW r \in Runs,
         CaptureStart(r) \/ CaptureDiscover(r) \/ CaptureVacate(r) \/ CaptureFill(r)
  PROVE  FromCapture(r)' /\ FromDocuments(r)'
<1>. USE DEF DocumentInv, TypeOK, At, Goto, capture, missed, Disturbs, Reading, Merging
<1>1. FromCapture(r) /\ FromDocuments(r)
  OBVIOUS
<1>2. CASE CaptureStart(r)
  BY <1>1, <1>2 DEF CaptureStart, FromCapture, FromDocuments
<1>3. CASE CaptureDiscover(r)
  BY <1>1, <1>3 DEF CaptureDiscover, FromCapture, FromDocuments
<1>4. CASE CaptureVacate(r)
  BY <1>1, <1>4 DEF CaptureVacate, FromCapture, FromDocuments
<1>5. CASE CaptureFill(r)
  <2>1. PICK got \in SUBSET discovered[r] :
          /\ bundle' = Captured(r, got)
          /\ warnings' = [warnings EXCEPT ![r] =
               Policy \cup IF got = discovered[r] THEN {} ELSE {"FLOW_LOAD_FAILED"}]
    BY <1>5 DEF CaptureFill
  <2>2. discovered' = discovered /\ source' = source /\ existing' = existing /\ pc'[r] = "list"
        /\ UNCHANGED missed
        /\ pc[r] = "captureFill"
    BY <1>5 DEF CaptureFill
  <2>3. CASE got = discovered[r]
    BY <1>1, <2>1, <2>2, <2>3 DEF FromCapture, FromDocuments, Captured
  <2>4. CASE got # discovered[r]
    <3>1. "FLOW_LOAD_FAILED" \in warnings'[r]
      BY <2>1, <2>4
    <3>2. HasWarning(r)'
      BY <3>1 DEF HasWarning, Policy
    <3>. QED
      BY <1>1, <2>2, <3>2 DEF FromCapture, FromDocuments
  <2>. QED
    BY <2>3, <2>4
<1>. QED
  BY <1>2, <1>3, <1>4, <1>5

\* The reading of the bundle: what is listed and not yet read is still to come, and what
\* could not be read is warned of.
LEMMA ReadingStands ==
  ASSUME DocumentInv, TypeOK', NEW r \in Runs, ListBundle(r) \/ ReadFlow(r) \/ ReadDone(r)
  PROVE  FromCapture(r)' /\ FromDocuments(r)'
<1>. USE DEF DocumentInv, TypeOK, At, Goto, capture, missed, Reading, Merging
<1>1. FromCapture(r) /\ FromDocuments(r)
  OBVIOUS
<1>2. CASE ListBundle(r)
  <2>1. /\ pc[r] = "list" /\ pc'[r] = "read"
        /\ \/ listed'[r] = Paths(bundle) /\ hidden'[r] = hidden[r]
           \/ listed'[r] = {} /\ hidden'[r] = Paths(bundle)
        /\ UNCHANGED <<bundle, source, existing, unread, warnings, disturbed, discovered>>
    BY <1>2 DEF ListBundle
  <2>2. source[r] = {} /\ hidden[r] = {}
    BY <1>1, <2>1 DEF FromCapture
  <2>3. /\ \A e \in bundle : e.path \in listed'[r] \cup hidden'[r]
        /\ listed'[r] \cap hidden'[r] = {}
    BY <2>1, <2>2 DEF Paths
  <2>. QED
    BY <1>1, <2>1, <2>2, <2>3 DEF FromCapture, FromDocuments, HasWarning, Captured
<1>3. CASE ReadFlow(r)
  <2>1. pc[r] = "read" /\ UNCHANGED <<pc, bundle, existing, unread, disturbed, discovered>>
    BY <1>3 DEF ReadFlow
  <2>2. PICK f \in listed[r] :
          /\ listed' = [listed EXCEPT ![r] = @ \ {f}]
          /\ \/ /\ \E e \in bundle : e.path = f /\ source' = [source EXCEPT ![r] = @ \cup {e}]
                /\ UNCHANGED <<warnings, hidden>>
             \/ /\ warnings' = [warnings EXCEPT ![r] = @ \cup {"FLOW_NOT_DOCUMENTED"}]
                /\ UNCHANGED <<source, hidden>>
             \/ hidden' = [hidden EXCEPT ![r] = @ \cup {f}] /\ UNCHANGED <<source, warnings>>
    BY <1>3 DEF ReadFlow
  <2>3. FromDocuments(r)'
    BY <1>1, <2>1 DEF FromDocuments
  <2>4. ASSUME UNCHANGED warnings, r \notin disturbed, ~HasWarning(r)
        PROVE  /\ HasWarning(r)' <=> HasWarning(r)
               /\ \A d, e \in bundle : d.path = e.path => d = e
               /\ source[r] \subseteq bundle
    <3>1. bundle = [path : discovered[r], capturedBy : {r}]
      BY <1>1, <2>1, <2>4 DEF FromCapture, Captured
    <3>2. \A d \in bundle : d = [path |-> d.path, capturedBy |-> r]
      BY <3>1
    <3>. QED
      BY <1>1, <2>1, <2>4, <3>2 DEF FromCapture, HasWarning
  <2>5. ASSUME NEW e \in bundle, e.path = f, source' = [source EXCEPT ![r] = @ \cup {e}],
               UNCHANGED <<warnings, hidden>>
        PROVE  FromCapture(r)'
    <3>1. source'[r] = source[r] \cup {e} /\ listed'[r] = listed[r] \ {f}
      BY <2>2, <2>5
    <3>2. HasWarning(r)' <=> HasWarning(r)
      BY <2>5 DEF HasWarning
    <3>3. ASSUME r \notin disturbed, ~HasWarning(r)
          PROVE  /\ source'[r] \subseteq bundle /\ listed'[r] \cap hidden[r] = {}
                 /\ \A d \in source'[r] : d.path \notin listed'[r] \cup hidden[r]
                 /\ \A d \in bundle : d \in source'[r] \/ d.path \in listed'[r] \cup hidden[r]
      BY <1>1, <2>1, <2>2, <2>4, <2>5, <3>1, <3>3 DEF FromCapture
    <3>. QED
      BY <1>1, <2>1, <2>5, <3>2, <3>3 DEF FromCapture, Captured
  <2>6. CASE warnings' = [warnings EXCEPT ![r] = @ \cup {"FLOW_NOT_DOCUMENTED"}]
    <3>1. HasWarning(r)'
      BY <2>6 DEF HasWarning, Policy
    <3>. QED
      BY <2>1, <2>3, <3>1 DEF FromCapture
  <2>7. CASE hidden' = [hidden EXCEPT ![r] = @ \cup {f}] /\ UNCHANGED <<source, warnings>>
    <3>1. hidden'[r] = hidden[r] \cup {f} /\ listed'[r] = listed[r] \ {f}
      BY <2>2, <2>7
    <3>2. HasWarning(r)' <=> HasWarning(r)
      BY <2>7 DEF HasWarning
    <3>3. ASSUME r \notin disturbed, ~HasWarning(r)
          PROVE  /\ listed'[r] \cap hidden'[r] = {}
                 /\ \A d \in source[r] : d.path \notin listed'[r] \cup hidden'[r]
                 /\ \A d \in bundle : d \in source[r] \/ d.path \in listed'[r] \cup hidden'[r]
      BY <1>1, <2>1, <2>2, <2>4, <2>7, <3>1, <3>3 DEF FromCapture
    <3>. QED
      BY <1>1, <2>1, <2>3, <2>7, <3>2, <3>3 DEF FromCapture, Captured
  <2>. QED
    BY <2>2, <2>3, <2>5, <2>6, <2>7
<1>4. CASE ReadDone(r)
  <2>1. /\ pc[r] = "read" /\ pc'[r] = "walk" /\ listed[r] = {}
        /\ UNCHANGED <<bundle, source, existing, missed, warnings, disturbed, discovered>>
    BY <1>4 DEF ReadDone
  <2>2. ASSUME r \notin disturbed, ~HasWarning(r)
        PROVE  source[r] = Captured(r, discovered[r] \ hidden[r])
    <3>1. /\ bundle = [path : discovered[r], capturedBy : {r}] /\ source[r] \subseteq bundle
          /\ \A e \in source[r] : e.path \notin hidden[r]
          /\ \A e \in bundle : e \in source[r] \/ e.path \in hidden[r]
      BY <1>1, <2>1, <2>2 DEF FromCapture, Captured
    <3>2. \A e : e \in source[r] <=> e \in bundle /\ e.path \notin hidden[r]
      BY <3>1
    <3>3. \A e : e \in [path : discovered[r] \ hidden[r], capturedBy : {r}]
                   <=> e \in bundle /\ e.path \notin hidden[r]
      BY <3>1
    <3>. QED
      BY <3>2, <3>3 DEF Captured
  <2>3. HasWarning(r)' <=> HasWarning(r)
    BY <2>1 DEF HasWarning
  <2>4. Captured(r, discovered[r] \ hidden[r])' = Captured(r, discovered[r] \ hidden[r])
    BY <2>1 DEF Captured
  <2>5. FromCapture(r)'
    BY <2>1, <2>2, <2>3, <2>4 DEF FromCapture
  <2>6. FromDocuments(r)'
    BY <1>1, <2>1 DEF FromDocuments
  <2>. QED
    BY <2>5, <2>6
<1>. QED
  BY <1>2, <1>3, <1>4

\* The merge: what is found is read until nothing of it is left, and all of it is
\* what is then moved out of the way.
LEMMA MergeStands ==
  ASSUME DocumentInv, TypeOK', NEW r \in Runs,
         WalkDocuments(r) \/ CollectExisting(r) \/ Vacate(r) \/ Fill(r) \/ Finish(r)
  PROVE  FromCapture(r)' /\ FromDocuments(r)'
<1>. USE DEF DocumentInv, TypeOK, At, Goto, capture, missed, Reading, Merging
<1>1. FromCapture(r) /\ FromDocuments(r)
  OBVIOUS
<1>2. ASSUME UNCHANGED <<source, hidden, warnings, discovered>>, disturbed \subseteq disturbed',
             pc[r] \in {"walk", "collect", "fill", "finish"},
             pc'[r] \in {"collect", "fill", "finish", "completed", "completed_with_warnings"}
      PROVE  FromCapture(r)'
  BY <1>1, <1>2 DEF FromCapture, HasWarning, Captured
<1>3. CASE WalkDocuments(r)
  <2>1. /\ pc[r] = "walk" /\ pc'[r] = "collect"
        /\ \/ listed'[r] = Paths(documents) /\ unread'[r] = unread[r]
           \/ listed'[r] = {} /\ unread'[r] = Paths(documents)
        /\ UNCHANGED <<documents, source, hidden, existing, warnings, discovered>>
        /\ disturbed \subseteq disturbed'
    BY <1>3 DEF WalkDocuments
  <2>2. existing[r] = {} /\ unread[r] = {}
    BY <1>1, <2>1 DEF FromDocuments
  <2>3. /\ existing'[r] = {e \in documents' : e.path \notin listed'[r] \cup unread'[r]}
        /\ listed'[r] \cap unread'[r] = {}
    BY <2>1, <2>2 DEF Paths
  <2>. QED
    BY <1>2, <2>1, <2>3 DEF FromDocuments
<1>4. CASE CollectExisting(r)
  <2>1. /\ pc[r] = "collect" /\ pc'[r] = "collect"
        /\ UNCHANGED <<documents, source, hidden, warnings, discovered, disturbed>>
    BY <1>4 DEF CollectExisting
  <2>2. PICK f \in listed[r] :
          /\ listed'[r] = listed[r] \ {f}
          /\ \/ /\ existing'[r] = existing[r] \cup {e \in documents : e.path = f}
                /\ unread'[r] = unread[r]
             \/ unread'[r] = unread[r] \cup {f} /\ existing'[r] = existing[r]
    BY <1>4 DEF CollectExisting
  <2>3. ASSUME listed[r] \cap unread[r] = {},
               existing[r] = {e \in documents : e.path \notin listed[r] \cup unread[r]}
        PROVE  /\ listed'[r] \cap unread'[r] = {}
               /\ existing'[r] = {e \in documents : e.path \notin listed'[r] \cup unread'[r]}
    BY <2>2, <2>3
  <2>. QED
    BY <1>1, <1>2, <2>1, <2>3 DEF FromDocuments
<1>5. CASE Vacate(r)
  <2>1. /\ pc[r] = "collect" /\ pc'[r] = "fill" /\ listed[r] = {} /\ archive'[r] = documents
        /\ UNCHANGED <<source, missed, warnings, discovered, existing>> /\ disturbed \subseteq disturbed'
    BY <1>5 DEF Vacate, Disturbs
  <2>2. r \notin disturbed => existing[r] = {e \in documents : e.path \notin unread[r]}
    BY <1>1, <2>1 DEF FromDocuments
  <2>. QED
    BY <1>2, <2>1, <2>2 DEF FromDocuments
<1>6. CASE Fill(r) \/ Finish(r)
  <2>1. /\ pc[r] \in {"fill", "finish"} /\ pc'[r] \in {"finish", "completed", "completed_with_warnings"}
        /\ UNCHANGED <<source, hidden, warnings, discovered>> /\ disturbed \subseteq disturbed'
    BY <1>6 DEF Fill, Finish, Disturbs
  <2>. QED
    BY <1>2, <2>1 DEF FromDocuments
<1>. QED
  BY <1>3, <1>4, <1>5, <1>6

-----------------------------------------------------------------------------
(* The inductive invariant *)

LEMMA DocumentInit == Init => DocumentInv
<1> SUFFICES ASSUME Init PROVE DocumentInv
  OBVIOUS
<1>1. ASSUME NEW r \in Runs PROVE FromCapture(r)
  BY DEF Init, FromCapture, Reading, Merging
<1>2. ASSUME NEW r \in Runs PROVE FromDocuments(r)
  BY DEF Init, FromDocuments
<1>. QED
  BY <1>1, <1>2, TypeInit DEF DocumentInv

LEMMA DocumentStep == DocumentInv /\ [Next]_vars => DocumentInv'
<1> SUFFICES ASSUME DocumentInv, [Next]_vars PROVE DocumentInv'
  OBVIOUS
<1>1. TypeOK'
  BY TypeStep DEF DocumentInv
<1>2. ASSUME NEW s \in Runs, RunStep(s) \/ Crash(s) \/ LockReclaimed(s), NEW r \in Runs
      PROVE  FromCapture(r)' /\ FromDocuments(r)'
  <2>1. CASE r # s
    BY <1>2, <2>1, OthersStand
  <2>2. CASE r = s /\ pc'[r] \in {"failed", "dead"}
    BY <2>2, GivesUp
  <2>3. CASE r = s /\ pc'[r] \notin {"failed", "dead"}
    <3>1. CASE CaptureFillFails(s) \/ FillFails(s) \/ Crash(s)
      BY <2>3, <3>1 DEF CaptureFillFails, FillFails, Crash, Goto, DocumentInv, TypeOK
    <3>2. CASE LockReclaimed(s)
      BY <2>3, <3>2 DEF LockReclaimed, At
    <3>. QED
      BY <1>1, <1>2, <2>3, <3>1, <3>2, CaptureStands, ReadingStands, MergeStands DEF RunStep
  <2>. QED
    BY <2>1, <2>2, <2>3
<1>3. CASE UNCHANGED vars
  <2>1. ASSUME NEW r \in Runs PROVE FromCapture(r)' /\ FromDocuments(r)'
    BY <1>3, Elsewhere DEF vars, capture, missed, DocumentInv
  <2>. QED
    BY <1>1, <2>1 DEF DocumentInv
<1>. QED
  BY <1>1, <1>2, <1>3 DEF Next, DocumentInv

LEMMA DocumentInvariance == Spec => []DocumentInv
BY DocumentInit, DocumentStep, PTL DEF Spec

\* readBundleFlows and runCapture: a run during whose reads no other run moved a tree
\* ends without a warning of its own only if it documented, from its own capture, every
\* flow it discovered but those that a failing listing of the bundle hid.
THEOREM UndisturbedRunsDropNothing == Spec => []UndisturbedDropsNothing
<1>1. DocumentInv => UndisturbedDropsNothing
  BY DEF DocumentInv, FromCapture, HasWarning, UndisturbedDropsNothing, Finished
<1>. QED
  BY DocumentInvariance, <1>1, PTL

\* A step that ends a run's promotion puts there what the run merged.
LEMMA FillKeeps ==
  ASSUME DocumentInv, [Next]_vars, NEW r \in Runs \ disturbed, pc[r] = "fill", pc'[r] = "finish"
  PROVE  documents' = Produced(r) \cup
           {e \in archive[r] : e.path \notin Paths(Produced(r)) \cup unread[r]}
<1>1. pc \in [Runs -> Steps]
  BY DEF DocumentInv, TypeOK
<1>2. Fill(r)
  <2>1. PICK s \in Runs : RunStep(s) \/ Crash(s) \/ LockReclaimed(s)
    BY <1>1 DEF Next, vars
  <2>2. s = r
    <3>1. pc' = pc \/ \E step : pc' = [pc EXCEPT ![s] = step]
      BY <2>1 DEF RunStep, Goto, CaptureStart, CaptureDiscover, CaptureVacate, CaptureFill,
        CaptureFillFails, ListBundle, ReadFlow, ReadDone, WalkDocuments, CollectExisting, Vacate,
        Fill, FillFails, Finish, Crash, LockReclaimed
    <3>. QED
      BY <1>1, <3>1
  <2>. QED
    BY <1>1, <2>1, <2>2 DEF RunStep, Goto, At, CaptureStart, CaptureDiscover, CaptureVacate,
      CaptureFill, CaptureFillFails, ListBundle, ReadFlow, ReadDone, WalkDocuments,
      CollectExisting, Vacate, FillFails, Finish, Crash, LockReclaimed
<1>3. existing[r] = {e \in archive[r] : e.path \notin unread[r]}
  BY DEF DocumentInv, FromDocuments
<1>. QED
  BY <1>2, <1>3 DEF Fill, Merged, Paths

\* documentBundleToDisk: such a run replaces the documents of the flows it documented,
\* loses those its walk could not list or read, and keeps every other as it was.
THEOREM UndisturbedRunsKeepOthers == Spec => UndisturbedKeepsOthers
<1>1. DocumentInv /\ [Next]_vars =>
        [\A r \in Runs \ disturbed :
           pc[r] = "fill" /\ pc'[r] = "finish"
             => documents' = Produced(r) \cup
                  {e \in archive[r] : e.path \notin Paths(Produced(r)) \cup unread[r]}]_vars
  BY FillKeeps
<1>. QED
  BY DocumentInvariance, <1>1, PTL DEF Spec, UndisturbedKeepsOthers

-----------------------------------------------------------------------------
(* The renames of two writers, as AtomicPromotion_proofs has them *)

AP == INSTANCE AtomicPromotion_proofs WITH
        Writers <- {w1, w2}, MaxAttempts <- SwapAttempts, MaxFaults <- SwapFaults, MaxCrashes <- SwapCrashes,
        CanFault <- {"archive", "swap", "rollback", "rm", "journal"},
        FixedId <- FALSE, Exclusive <- FALSE, RecoveryMode <- "never",
        pc <- writer, attempts <- swaps, faults <- swapFaults, crashes <- swapCrashes

LEMMA SwapAssumption == AP!BoundAssumption /\ AP!ModeAssumption
BY RecordsAssumption DEF AP!BoundAssumption, AP!ModeAssumption, AP!Operations

LEMMA SwapInit == P!Init => AP!Init
BY DEF P!Init, AP!Init, P!Attempts, AP!Attempts, P!NoDir, AP!NoDir

LEMMA SwapNext == P!Next => AP!Next
BY DEF P!Next, AP!Next, P!WriterStep, AP!WriterStep, P!RecoverStep, AP!RecoverStep,
       P!CreateStaging, AP!CreateStaging, P!JournalStaging, AP!JournalStaging, P!Write, AP!Write,
       P!MarkPromoting, AP!MarkPromoting, P!Archive, AP!Archive, P!Swap, AP!Swap,
       P!Rollback, AP!Rollback, P!NoteRollback, AP!NoteRollback, P!Discard, AP!Discard,
       P!NoteDiscard, AP!NoteDiscard, P!RemovePrevious, AP!RemovePrevious,
       P!NoteCompleted, AP!NoteCompleted, P!Crash, AP!Crash, P!RecoverStart, AP!RecoverStart,
       P!RecoverNext, AP!RecoverNext, P!RecoverRestore, AP!RecoverRestore,
       P!RecoverDrop, AP!RecoverDrop, P!RecoverUnstage, AP!RecoverUnstage,
       P!RecoverNote, AP!RecoverNote, P!RecoverCrash, AP!RecoverCrash, P!Goto, AP!Goto,
       P!NoFault, AP!NoFault, P!Journal, AP!Journal, P!Fault, AP!Fault, P!IdOf, AP!IdOf,
       P!Exists, AP!Exists, P!WritersIdle, AP!WritersIdle, P!Pending, AP!Pending,
       P!recVars, AP!recVars, P!RecFault, AP!RecFault, P!MustRestore, AP!MustRestore,
       P!NoDir, AP!NoDir, P!Attempts, AP!Attempts

LEMMA SwapStep ==
  ASSUME [RecordsNext]_<<subject, documentSet, swap, bundleSeal, claims, diff, analysis>>
  PROVE  [AP!Next]_(AP!vars)
<1>1. P!Next \/ UNCHANGED swap
  BY DEF RecordsNext
<1>2. UNCHANGED swap => UNCHANGED AP!vars
  BY DEF swap, AP!vars
<1> QED
  BY <1>1, <1>2, SwapNext

\* atomic.ts: whatever two writers of the documents do to each other, without a lock and
\* without a recovery, the version last made live stays on disk.
THEOREM LastGoodStays == RecordsSpec => []LastGoodKept
<1>1. RecordsInit => AP!Init
  BY SwapInit DEF RecordsInit
<1>2. [RecordsNext]_<<subject, documentSet, swap, bundleSeal, claims, diff, analysis>> => [AP!Next]_(AP!vars)
  BY SwapStep
<1>3. RecordsSpec => AP!Spec
  BY <1>1, <1>2, PTL DEF RecordsSpec, AP!Spec
<1>4. AP!Spec => []AP!LastGoodKept
  BY SwapAssumption, AP!NothingIsOverwritten
<1>5. AP!LastGoodKept => LastGoodKept
  BY DEF AP!LastGoodKept, LastGoodKept, P!LastGoodKept, AP!Attempts, P!Attempts
<1> QED
  BY <1>3, <1>4, <1>5, PTL

-----------------------------------------------------------------------------
(* A sealed bundle and its copy *)

Addresses == {B!Address(x) : x \in Digests}
Records ==
  [flows : Partial(Flows \X Versions, [definition : Bodies, meta : Metas]),
   resources : Partial(Resources, Bodies), graph : SUBSET B!Graphs,
   assets : Partial(Addresses, [Users -> 0..MaxWrites])]
Disks ==
  [meta : Partial(Flows, Metas \cup {Lost, Garbled}),
   definitions : Partial(Flows \X Versions \X Formats, Bodies \cup {Lost}),
   resources : Partial(Resources, Bodies \cup {Garbled}),
   graph : SUBSET (B!Graphs \cup {Garbled}), index : SUBSET (Usage \cup {Garbled}),
   files : Partial(Digests, Digests \cup {Garbled}), manifest : SUBSET (Manifests \cup {Garbled})]

\* A set with no more than one element: a file, or none.
AtMostOne(s) == \A x, y \in s : x = y

\* The directory holds the record: the file of each thing that was written, and no other.
Path(k) == <<k[1], k[2], written.flows[k].meta.format>>
Holds(d) ==
  /\ DOMAIN d.meta = {k[1] : k \in DOMAIN written.flows}
  /\ DOMAIN d.definitions = {Path(k) : k \in DOMAIN written.flows}
  /\ \A k \in DOMAIN written.flows :
       /\ d.meta[k[1]] = written.flows[k].meta
       /\ d.definitions[Path(k)] = written.flows[k].definition
  /\ d.resources = written.resources /\ d.graph = written.graph
  /\ DOMAIN d.files = {a[2] : a \in DOMAIN written.assets}

\* What seal() hashes, and the index and the manifest it writes.
Record == [written EXCEPT !.assets = B!ByDigest(@)]
Index == IF DOMAIN written.assets = {} THEN {} ELSE {B!ByDigest(written.assets)}
SealedAs(d) ==
  /\ Holds(d) /\ d.index = Index
  /\ \E m \in d.manifest : /\ d.manifest = {m} /\ m \in Manifests
                           /\ m.contentHash = B!Canonical(Record) /\ m.counts = B!Counts(Record)

\* What can have become of the directory: files may be gone or others, but no flow, no
\* graph, no index is there that was not written, and the manifest keeps its hash.
Copied(d) ==
  /\ DOMAIN d.meta \subseteq {k[1] : k \in DOMAIN written.flows}
  /\ \A k \in DOMAIN d.definitions : k[1] \in DOMAIN d.meta
  /\ \A k \in DOMAIN written.flows : k[1] \in DOMAIN d.meta => Path(k) \in DOMAIN d.definitions
  /\ written.graph = {} => d.graph = {}
  /\ DOMAIN written.assets = {} => d.index = {}
  /\ AtMostOne(d.graph) /\ AtMostOne(d.index) /\ AtMostOne(d.manifest)
  /\ \A m \in d.manifest : m = Garbled \/ m.contentHash = B!Canonical(Record)

SealInv ==
  /\ written \in Records /\ disk \in Disks /\ sealed \subseteq Disks /\ AtMostOne(sealed)
  /\ writes \in 0..MaxWrites /\ \A a \in DOMAIN written.assets, u \in Users : written.assets[a][u] <= writes
  /\ AtMostOne(written.graph)
  /\ \A j, k \in DOMAIN written.flows : j[1] = k[1] => j = k
  /\ sealed = {} => Holds(disk) /\ disk.index = {} /\ disk.manifest = {} /\ verified = {}
  /\ sealed # {} => Copied(disk)
  /\ \A d \in sealed : SealedAs(d)
  /\ SealHolds

LEMMA PartialIs ==
  ASSUME NEW K, NEW V, NEW f
  PROVE  f \in Partial(K, V) <=> f \in [DOMAIN f -> V] /\ DOMAIN f \subseteq K
BY DEF Partial

LEMMA PutIsPartial ==
  ASSUME NEW K, NEW V, NEW f, f \in Partial(K, V), NEW k \in K, NEW v \in V
  PROVE  B!Put(f, k, v) \in Partial(K, V)
<1>1. f \in [DOMAIN f -> V] /\ DOMAIN f \subseteq K
  BY PartialIs
<1>2. B!Put(f, k, v) \in [DOMAIN f \cup {k} -> V]
  BY <1>1 DEF B!Put
<1>3. DOMAIN f \cup {k} \in SUBSET K
  BY <1>1
<1> QED
  BY <1>2, <1>3 DEF Partial

LEMMA PutIs ==
  ASSUME NEW f, NEW k, NEW v
  PROVE  /\ DOMAIN B!Put(f, k, v) = DOMAIN f \cup {k}
         /\ B!Put(f, k, v)[k] = v
         /\ \A x \in DOMAIN f : x # k => B!Put(f, k, v)[x] = f[x]
BY DEF B!Put

LEMMA RestrictIsPartial ==
  ASSUME NEW K, NEW V, NEW f, f \in Partial(K, V), NEW S, S \subseteq DOMAIN f
  PROVE  /\ B!Restrict(f, S) \in Partial(K, V)
         /\ DOMAIN B!Restrict(f, S) = S
         /\ \A x \in S : B!Restrict(f, S)[x] = f[x]
<1>1. f \in [DOMAIN f -> V] /\ DOMAIN f \subseteq K
  BY PartialIs
<1>2. B!Restrict(f, S) = [x \in S |-> f[x]]
  BY DEF B!Restrict
<1>3. B!Restrict(f, S) \in [S -> V] /\ S \in SUBSET K
  BY <1>1, <1>2
<1> QED
  BY <1>2, <1>3 DEF Partial

LEMMA SealStarts == ASSUME B!Init PROVE SealInv
<1>1. \A K, V : [x \in {} |-> {}] \in Partial(K, V)
  BY DEF Partial
<1>2. written \in Records
  BY <1>1 DEF B!Init, B!None, B!Empty, Records
<1>3. disk \in Disks
  BY <1>1 DEF B!Init, B!Empty, Disks
<1>4. Holds(disk)
  BY DEF B!Init, B!None, B!Empty, Holds
<1>5. writes \in 0..MaxWrites
  BY RecordsAssumption DEF B!Init
<1>6. disk.index = {} /\ disk.manifest = {} /\ verified = {} /\ sealed = {}
  BY DEF B!Init
<1>7. SealHolds
  BY <1>6 DEF SealHolds, B!SealHolds
<1>8. DOMAIN written.flows = {} /\ DOMAIN written.assets = {} /\ written.graph = {}
  BY DEF B!Init, B!None, B!Empty
<1> QED
  BY <1>2, <1>3, <1>4, <1>5, <1>6, <1>7, <1>8 DEF SealInv, AtMostOne

\* The fields of a record and of a directory.
LEMMA Fields ==
  ASSUME NEW r \in Records, NEW d \in Disks
  PROVE  /\ r.flows \in Partial(Flows \X Versions, [definition : Bodies, meta : Metas])
         /\ r.resources \in Partial(Resources, Bodies)
         /\ r.graph \in SUBSET B!Graphs /\ r.assets \in Partial(Addresses, [Users -> 0..MaxWrites])
         /\ d.meta \in Partial(Flows, Metas \cup {Lost, Garbled})
         /\ d.definitions \in Partial(Flows \X Versions \X Formats, Bodies \cup {Lost})
         /\ d.resources \in Partial(Resources, Bodies \cup {Garbled})
         /\ d.graph \in SUBSET (B!Graphs \cup {Garbled}) /\ d.index \in SUBSET (Usage \cup {Garbled})
         /\ d.files \in Partial(Digests, Digests \cup {Garbled})
         /\ d.manifest \in SUBSET (Manifests \cup {Garbled})
BY DEF Records, Disks

\* While the bundle is written nothing is sealed, and nothing is verified.
LEMMA Unsealed ==
  ASSUME SealInv, B!Writing,
         written' \in Records, disk' \in Disks, Holds(disk)',
         disk'.index = disk.index, disk'.manifest = disk.manifest, AtMostOne(written'.graph),
         \A a \in DOMAIN written'.assets, u \in Users : written'.assets[a][u] <= writes + 1,
         \A j, k \in DOMAIN written'.flows : j[1] = k[1] => j = k
  PROVE  SealInv'
<1>1. /\ sealed = {} /\ sealed' = {} /\ verified = {} /\ verified' = {}
      /\ disk'.index = {} /\ disk'.manifest = {} /\ writes' = writes + 1
  BY DEF SealInv, B!Writing
<1>2. writes' \in 0..MaxWrites
  BY RecordsAssumption DEF SealInv, B!Writing
<1>3. SealHolds'
  BY <1>1 DEF SealHolds, B!SealHolds
<1>4. sealed' \subseteq Disks /\ AtMostOne(sealed')
  BY <1>1 DEF AtMostOne
<1>5. AtMostOne(written.graph)' /\ AtMostOne(sealed)'
  BY <1>4 DEF AtMostOne
<1> QED
  BY <1>1, <1>2, <1>3, <1>4, <1>5 DEF SealInv

LEMMA FlowIsWritten ==
  ASSUME SealInv, NEW f \in Flows, NEW v \in Versions, NEW text \in Bodies, NEW format \in Formats,
         B!WriteFlow(f, v, text, [format |-> format])
  PROVE  SealInv'
<1> DEFINE k0 == <<f, v>>
           meta == [format |-> format]
           value == [definition |-> text, meta |-> meta]
           place == <<f, v, format>>
<1>1. written \in Records /\ disk \in Disks /\ B!Writing /\ Holds(disk)
  BY DEF B!WriteFlow, B!Writing, SealInv
<1>2. \A k \in DOMAIN written.flows : k[1] # f
  BY DEF B!WriteFlow
<1>3. written' = [written EXCEPT !.flows = B!Put(@, k0, value)]
  BY DEF B!WriteFlow
<1>4. disk' = [disk EXCEPT !.definitions = B!Put(@, place, text), !.meta = B!Put(@, f, meta)]
  BY DEF B!WriteFlow
<1>5. meta \in Metas /\ value \in [definition : Bodies, meta : Metas] /\ k0 \in Flows \X Versions
      /\ place \in Flows \X Versions \X Formats
  BY DEF Metas
<1>6. B!Put(written.flows, k0, value) \in Partial(Flows \X Versions, [definition : Bodies, meta : Metas])
  BY <1>1, <1>5, Fields, PutIsPartial
<1>7. written' \in Records
  BY <1>1, <1>3, <1>6 DEF Records
<1>8. /\ B!Put(disk.definitions, place, text) \in Partial(Flows \X Versions \X Formats, Bodies \cup {Lost})
      /\ B!Put(disk.meta, f, meta) \in Partial(Flows, Metas \cup {Lost, Garbled})
  BY <1>1, <1>5, Fields, PutIsPartial
<1>9. disk' \in Disks
  BY <1>1, <1>4, <1>8 DEF Disks
<1>10. /\ written'.flows = B!Put(written.flows, k0, value) /\ written'.assets = written.assets
       /\ written'.graph = written.graph /\ written'.resources = written.resources
  BY <1>1, <1>3 DEF Records
<1>11. /\ disk'.meta = B!Put(disk.meta, f, meta)
       /\ disk'.definitions = B!Put(disk.definitions, place, text)
       /\ disk'.resources = disk.resources /\ disk'.graph = disk.graph /\ disk'.files = disk.files
       /\ disk'.index = disk.index /\ disk'.manifest = disk.manifest
  BY <1>1, <1>4 DEF Disks
<1>12. DOMAIN written'.flows = DOMAIN written.flows \cup {k0} /\ k0 \notin DOMAIN written.flows
  BY <1>2, <1>10 DEF B!Put
<1>13. \A k \in DOMAIN written.flows : written'.flows[k] = written.flows[k] /\ Path(k)' = Path(k)
  BY <1>10, <1>12 DEF Path, B!Put
<1>14. written'.flows[k0] = value /\ Path(k0)' = place
  BY <1>10 DEF Path, B!Put
<1>15. DOMAIN disk'.meta = {k[1] : k \in DOMAIN written'.flows}
  <2>1. DOMAIN disk'.meta = {k[1] : k \in DOMAIN written.flows} \cup {f}
    BY <1>1, <1>11 DEF Holds, B!Put
  <2>2. k0[1] = f
    OBVIOUS
  <2> QED
    BY <1>12, <2>1, <2>2
<1>16. DOMAIN disk'.definitions = {Path(k)' : k \in DOMAIN written'.flows}
  <2>1. DOMAIN disk'.definitions = {Path(k) : k \in DOMAIN written.flows} \cup {place}
    BY <1>1, <1>11 DEF Holds, B!Put
  <2> QED
    BY <1>12, <1>13, <1>14, <2>1
<1>17. ASSUME NEW k \in DOMAIN written'.flows
       PROVE  /\ disk'.meta[k[1]] = written'.flows[k].meta
              /\ disk'.definitions[Path(k)'] = written'.flows[k].definition
  <2>1. CASE k = k0
    <3>1. disk'.meta[f] = meta /\ disk'.definitions[place] = text
      BY <1>11 DEF B!Put
    <3> QED
      BY <2>1, <3>1, <1>14
  <2>2. CASE k # k0
    <3>1. k \in DOMAIN written.flows /\ k[1] # f
      BY <2>2, <1>12, <1>2
    <3>2. k[1] \in DOMAIN disk.meta /\ disk'.meta[k[1]] = disk.meta[k[1]]
      BY <3>1, <1>1, <1>11 DEF Holds, B!Put
    <3>3. Path(k) \in DOMAIN disk.definitions /\ Path(k) # place
      BY <3>1, <1>1 DEF Holds, Path
    <3>4. disk'.definitions[Path(k)'] = disk.definitions[Path(k)]
      BY <3>1, <3>3, <1>11, <1>13 DEF B!Put
    <3> QED
      BY <3>1, <3>2, <3>4, <1>1, <1>13 DEF Holds
  <2> QED
    BY <2>1, <2>2
<1>18. Holds(disk)'
  BY <1>1, <1>10, <1>11, <1>15, <1>16, <1>17 DEF Holds
<1>19. \A j, k \in DOMAIN written'.flows : j[1] = k[1] => j = k
  BY <1>2, <1>12 DEF SealInv
<1>20. \A a \in DOMAIN written'.assets, u \in Users : written'.assets[a][u] <= writes + 1
  <2>1. \A a \in DOMAIN written.assets, u \in Users : written.assets[a][u] \in Nat
    BY <1>1, Fields, PartialIs
  <2> QED
    BY <1>10, <2>1 DEF SealInv
<1> QED
  BY <1>1, <1>7, <1>9, <1>10, <1>11, <1>18, <1>19, <1>20, Unsealed DEF SealInv

\* Where only the resources change, or only the graph, the flows are as they were.
LEMMA FlowsAreHeld ==
  ASSUME SealInv, Holds(disk), written'.flows = written.flows,
         disk'.meta = disk.meta, disk'.definitions = disk.definitions
  PROVE  /\ DOMAIN disk'.meta = {k[1] : k \in DOMAIN written'.flows}
         /\ DOMAIN disk'.definitions = {Path(k)' : k \in DOMAIN written'.flows}
         /\ \A k \in DOMAIN written'.flows : /\ disk'.meta[k[1]] = written'.flows[k].meta
                                             /\ disk'.definitions[Path(k)'] = written'.flows[k].definition
         /\ \A j, k \in DOMAIN written'.flows : j[1] = k[1] => j = k
<1>1. \A k \in DOMAIN written.flows : Path(k)' = Path(k)
  BY DEF Path
<1> QED
  BY <1>1 DEF Holds, SealInv

LEMMA UsersAreCounted ==
  ASSUME SealInv
  PROVE  \A a \in DOMAIN written.assets, u \in Users : written.assets[a][u] \in Nat /\ written.assets[a][u] <= writes
<1>1. written.assets \in Partial(Addresses, [Users -> 0..MaxWrites])
  BY Fields DEF SealInv
<1>2. written.assets \in [DOMAIN written.assets -> [Users -> 0..MaxWrites]]
  BY <1>1, PartialIs
<1> QED
  BY <1>2 DEF SealInv

LEMMA ResourceIsWritten ==
  ASSUME SealInv, NEW id \in Resources, NEW body \in Bodies, B!WriteResource(id, body)
  PROVE  SealInv'
<1>1. written \in Records /\ disk \in Disks /\ B!Writing /\ Holds(disk)
  BY DEF B!WriteResource, B!Writing, SealInv
<1>2. /\ written' = [written EXCEPT !.resources = B!Put(@, id, body)]
      /\ disk' = [disk EXCEPT !.resources = B!Put(@, id, body)]
  BY DEF B!WriteResource
<1>3. /\ B!Put(written.resources, id, body) \in Partial(Resources, Bodies)
      /\ B!Put(disk.resources, id, body) \in Partial(Resources, Bodies \cup {Garbled})
  BY <1>1, Fields, PutIsPartial
<1>4. written' \in Records
  BY <1>1, <1>2, <1>3 DEF Records
<1>5. disk' \in Disks
  BY <1>1, <1>2, <1>3 DEF Disks
<1>6. /\ written'.flows = written.flows /\ written'.assets = written.assets
      /\ written'.graph = written.graph /\ written'.resources = B!Put(written.resources, id, body)
  BY <1>1, <1>2 DEF Records
<1>7. /\ disk'.meta = disk.meta /\ disk'.definitions = disk.definitions
      /\ disk'.resources = B!Put(disk.resources, id, body) /\ disk'.graph = disk.graph
      /\ disk'.files = disk.files /\ disk'.index = disk.index /\ disk'.manifest = disk.manifest
  BY <1>1, <1>2 DEF Disks
<1>8. disk'.resources = written'.resources
  BY <1>1, <1>6, <1>7 DEF Holds
<1>9. Holds(disk)'
  BY <1>1, <1>6, <1>7, <1>8, FlowsAreHeld DEF Holds
<1>10. \A a \in DOMAIN written'.assets, u \in Users : written'.assets[a][u] <= writes + 1
  <2>1. writes \in Nat
    BY DEF SealInv
  <2> QED
    BY <1>6, <2>1, UsersAreCounted
<1>11. \A j, k \in DOMAIN written'.flows : j[1] = k[1] => j = k
  BY <1>6 DEF SealInv
<1> QED
  BY <1>1, <1>4, <1>5, <1>6, <1>7, <1>9, <1>10, <1>11, Unsealed DEF SealInv

LEMMA GraphIsWritten ==
  ASSUME SealInv, NEW g \in B!Graphs, B!WriteResourceGraph(g)
  PROVE  SealInv'
<1>1. written \in Records /\ disk \in Disks /\ B!Writing /\ Holds(disk)
  BY DEF B!WriteResourceGraph, B!Writing, SealInv
<1>2. /\ written' = [written EXCEPT !.graph = {g}]
      /\ disk' = [disk EXCEPT !.graph = {g}]
  BY DEF B!WriteResourceGraph
<1>4. written' \in Records
  BY <1>1, <1>2 DEF Records
<1>5. disk' \in Disks
  BY <1>1, <1>2 DEF Disks
<1>6. /\ written'.flows = written.flows /\ written'.assets = written.assets
      /\ written'.graph = {g} /\ written'.resources = written.resources
  BY <1>1, <1>2 DEF Records
<1>7. /\ disk'.meta = disk.meta /\ disk'.definitions = disk.definitions
      /\ disk'.resources = disk.resources /\ disk'.graph = {g}
      /\ disk'.files = disk.files /\ disk'.index = disk.index /\ disk'.manifest = disk.manifest
  BY <1>1, <1>2 DEF Disks
<1>9. Holds(disk)'
  BY <1>1, <1>6, <1>7, FlowsAreHeld DEF Holds
<1>10. \A a \in DOMAIN written'.assets, u \in Users : written'.assets[a][u] <= writes + 1
  <2>1. writes \in Nat
    BY DEF SealInv
  <2> QED
    BY <1>6, <2>1, UsersAreCounted
<1>11. \A j, k \in DOMAIN written'.flows : j[1] = k[1] => j = k
  BY <1>6 DEF SealInv
<1>12. AtMostOne(written'.graph)
  BY <1>6 DEF AtMostOne
<1> QED
  BY <1>1, <1>4, <1>5, <1>7, <1>9, <1>10, <1>11, <1>12, Unsealed

LEMMA AssetIsPut ==
  ASSUME SealInv, NEW x \in Digests, NEW u \in Users, B!PutAsset(x, u)
  PROVE  SealInv'
<1> DEFINE a0 == B!Address(x)
           users == [B!Users0(written.assets, a0) EXCEPT ![u] = @ + 1]
<1>1. written \in Records /\ disk \in Disks /\ B!Writing /\ Holds(disk)
  BY DEF B!PutAsset, B!Writing, SealInv
<1>2. /\ written' = [written EXCEPT !.assets = B!Put(@, a0, users)]
      /\ disk' = [disk EXCEPT !.files = B!Put(@, x, x)]
  BY DEF B!PutAsset
<1>3. writes \in Nat /\ writes + 1 <= MaxWrites /\ MaxWrites \in Nat
  BY <1>1, RecordsAssumption DEF SealInv, B!Writing
<1>4. B!Users0(written.assets, a0) \in [Users -> 0..writes]
  <2>1. CASE a0 \in DOMAIN written.assets
    <3>1. B!Users0(written.assets, a0) = written.assets[a0]
      BY <2>1 DEF B!Users0
    <3>2. written.assets[a0] \in [Users -> 0..MaxWrites]
      BY <1>1, <2>1, Fields, PartialIs
    <3>3. \A w \in Users : written.assets[a0][w] \in 0..writes
      BY <2>1, <1>3, UsersAreCounted
    <3> QED
      BY <3>1, <3>2, <3>3
  <2>2. CASE a0 \notin DOMAIN written.assets
    <3>1. B!Users0(written.assets, a0) = [w \in Users |-> 0]
      BY <2>2 DEF B!Users0
    <3> QED
      BY <3>1, <1>3
  <2> QED
    BY <2>1, <2>2
<1>5. users \in [Users -> 0..(writes + 1)] /\ users \in [Users -> 0..MaxWrites]
  BY <1>3, <1>4
<1>6. a0 \in Addresses
  BY DEF Addresses
<1>7. /\ B!Put(written.assets, a0, users) \in Partial(Addresses, [Users -> 0..MaxWrites])
      /\ B!Put(disk.files, x, x) \in Partial(Digests, Digests \cup {Garbled})
  <2> HIDE DEF a0, users
  <2> QED
    BY <1>1, <1>5, <1>6, Fields, PutIsPartial
<1>8. written' \in Records
  BY <1>1, <1>2, <1>7 DEF Records
<1>9. disk' \in Disks
  BY <1>1, <1>2, <1>7 DEF Disks
<1>10. /\ written'.flows = written.flows /\ written'.assets = B!Put(written.assets, a0, users)
       /\ written'.graph = written.graph /\ written'.resources = written.resources
  BY <1>1, <1>2 DEF Records
<1>11. /\ disk'.meta = disk.meta /\ disk'.definitions = disk.definitions
       /\ disk'.resources = disk.resources /\ disk'.graph = disk.graph
       /\ disk'.files = B!Put(disk.files, x, x)
       /\ disk'.index = disk.index /\ disk'.manifest = disk.manifest
  BY <1>1, <1>2 DEF Disks
<1>12. DOMAIN disk'.files = {a[2] : a \in DOMAIN written'.assets}
  <2>1. DOMAIN disk'.files = {a[2] : a \in DOMAIN written.assets} \cup {x}
    BY <1>1, <1>11 DEF Holds, B!Put
  <2>2. DOMAIN written'.assets = DOMAIN written.assets \cup {a0}
    BY <1>10 DEF B!Put
  <2>3. a0[2] = x
    BY DEF B!Address
  <2> HIDE DEF a0
  <2> QED
    BY <2>1, <2>2, <2>3
<1>13. Holds(disk)'
  BY <1>1, <1>10, <1>11, <1>12, FlowsAreHeld DEF Holds
<1>14. ASSUME NEW a \in DOMAIN written'.assets, NEW w \in Users
       PROVE  written'.assets[a][w] <= writes + 1
  <2>1. CASE a = a0
    BY <2>1, <1>3, <1>5, <1>10 DEF B!Put
  <2>2. CASE a # a0
    <3>1. a \in DOMAIN written.assets /\ written'.assets[a] = written.assets[a]
      BY <2>2, <1>10 DEF B!Put
    <3> QED
      BY <3>1, <1>3, UsersAreCounted
  <2> QED
    BY <2>1, <2>2
<1>15. \A j, k \in DOMAIN written'.flows : j[1] = k[1] => j = k
  BY <1>10 DEF SealInv
<1> QED
  BY <1>1, <1>8, <1>9, <1>10, <1>11, <1>13, <1>14, <1>15, Unsealed DEF SealInv

LEMMA ByDigestIs ==
  ASSUME NEW f \in Partial(Addresses, [Users -> 0..MaxWrites])
  PROVE  /\ B!ByDigest(f) \in Usage /\ DOMAIN B!ByDigest(f) = {a[2] : a \in DOMAIN f}
         /\ \A x \in DOMAIN B!ByDigest(f) : B!ByDigest(f)[x] = f[B!Address(x)]
<1>1. f \in [DOMAIN f -> [Users -> 0..MaxWrites]] /\ DOMAIN f \subseteq Addresses
  BY PartialIs
<1>2. B!ByDigest(f) = [x \in {a[2] : a \in DOMAIN f} |-> f[B!Address(x)]]
  BY DEF B!ByDigest
<1>3. \A a \in DOMAIN f : a[2] \in Digests /\ B!Address(a[2]) = a
  BY <1>1 DEF Addresses, B!Address
<1>4. B!ByDigest(f) \in [{a[2] : a \in DOMAIN f} -> [Users -> 0..MaxWrites]]
  BY <1>1, <1>2, <1>3
<1>5. {a[2] : a \in DOMAIN f} \in SUBSET Digests
  BY <1>3
<1> QED
  BY <1>2, <1>4, <1>5 DEF Usage, Partial

\* BundleSeal counts with FiniteSets, too.
LEMMA SameCardinality == \A s : B!Cardinality(s) = Cardinality(s)
BY DEF B!Cardinality, Cardinality

\* What a hash tells of the flows of a record.
Hashed(f) == [k \in DOMAIN f |-> B!CanonicalFlow(f[k])]

LEMMA HashedIs ==
  ASSUME NEW f \in Partial(Flows \X Versions, [definition : Bodies, meta : Metas])
  PROVE  /\ Hashed(f) \in Partial(Flows \X Versions, [definition : Texts, meta : Metas])
         /\ DOMAIN Hashed(f) = DOMAIN f
         /\ \A k \in DOMAIN f : Hashed(f)[k] = [definition |-> f[k].definition.stable, meta |-> f[k].meta]
<1>1. f \in [DOMAIN f -> [definition : Bodies, meta : Metas]] /\ DOMAIN f \subseteq Flows \X Versions
  BY PartialIs
<1>2. \A k \in DOMAIN f : Hashed(f)[k] = [definition |-> f[k].definition.stable, meta |-> f[k].meta]
  BY DEF Hashed, B!CanonicalFlow
<1>3. \A k \in DOMAIN f : f[k].definition.stable \in Texts /\ f[k].meta \in Metas
  BY <1>1 DEF Bodies
<1>4. Hashed(f) \in [DOMAIN f -> [definition : Texts, meta : Metas]]
  BY <1>2, <1>3 DEF Hashed
<1>5. DOMAIN Hashed(f) = DOMAIN f /\ DOMAIN f \in SUBSET (Flows \X Versions)
  BY <1>1 DEF Hashed
<1> QED
  BY <1>2, <1>4, <1>5 DEF Partial

\* A record whose assets are known by their digests, its hash and its counts.
LEMMA HashIs ==
  ASSUME NEW r, r = [flows |-> r.flows, resources |-> r.resources, graph |-> r.graph, assets |-> r.assets]
  PROVE  /\ B!Canonical(r) = [flows |-> Hashed(r.flows), graph |-> r.graph, assets |-> r.assets,
                              resources |-> [id \in DOMAIN r.resources |-> r.resources[id].stable]]
         /\ B!Counts(r) = [flows |-> Cardinality(DOMAIN r.flows), resources |-> Cardinality(DOMAIN r.resources),
                           assets |-> Cardinality(DOMAIN r.assets),
                           unresolvedReferences |-> Cardinality(B!Unresolved(r.graph))]
<1>1. B!Canonical(r) = [r EXCEPT !.flows = Hashed(r.flows),
                                !.resources = [id \in DOMAIN r.resources |-> r.resources[id].stable]]
  BY DEF B!Canonical, Hashed
<1>2. B!Canonical(r) = [flows |-> Hashed(r.flows), graph |-> r.graph, assets |-> r.assets,
                        resources |-> [id \in DOMAIN r.resources |-> r.resources[id].stable]]
  BY <1>1
<1>3. B!Counts(r) = [flows |-> Cardinality(DOMAIN r.flows), resources |-> Cardinality(DOMAIN r.resources),
                     assets |-> Cardinality(DOMAIN r.assets),
                     unresolvedReferences |-> Cardinality(B!Unresolved(r.graph))]
  BY SameCardinality DEF B!Counts
<1> QED
  BY <1>2, <1>3

LEMMA RecordIs ==
  ASSUME written \in Records
  PROVE  /\ Record = [flows |-> written.flows, resources |-> written.resources, graph |-> written.graph,
                      assets |-> B!ByDigest(written.assets)]
         /\ Record.flows = written.flows /\ Record.resources = written.resources
         /\ Record.graph = written.graph /\ Record.assets = B!ByDigest(written.assets)
         /\ Record = [flows |-> Record.flows, resources |-> Record.resources, graph |-> Record.graph,
                      assets |-> Record.assets]
<1>1. Record = [flows |-> written.flows, resources |-> written.resources, graph |-> written.graph,
                assets |-> B!ByDigest(written.assets)]
  BY DEF Record, Records
<1> QED
  BY <1>1

LEMMA HashIsTyped ==
  ASSUME written \in Records
  PROVE  B!Canonical(Record) \in Hashes /\ B!Counts(Record) \in Totals
<1>1. /\ written.flows \in Partial(Flows \X Versions, [definition : Bodies, meta : Metas])
      /\ written.resources \in Partial(Resources, Bodies)
      /\ written.graph \in SUBSET B!Graphs
      /\ written.assets \in Partial(Addresses, [Users -> 0..MaxWrites])
  BY DEF Records
<1>2. B!ByDigest(written.assets) \in Usage
  BY <1>1, ByDigestIs
<1> DEFINE stable == [id \in DOMAIN written.resources |-> written.resources[id].stable]
<1>3. stable \in Partial(Resources, Texts)
  <2>1. written.resources \in [DOMAIN written.resources -> Bodies] /\ DOMAIN written.resources \subseteq Resources
    BY <1>1, PartialIs
  <2>2. stable \in [DOMAIN written.resources -> Texts]
    BY <2>1 DEF Bodies
  <2>3. DOMAIN written.resources \in SUBSET Resources
    BY <2>1
  <2> HIDE DEF stable
  <2> QED
    BY <2>2, <2>3 DEF Partial
<1>4. B!Canonical(Record) = [flows |-> Hashed(written.flows), graph |-> written.graph,
                             assets |-> B!ByDigest(written.assets), resources |-> stable]
  BY RecordIs, HashIs
<1>5. B!Canonical(Record) \in Hashes
  <2>1. Hashed(written.flows) \in Partial(Flows \X Versions, [definition : Texts, meta : Metas])
    BY <1>1, HashedIs
  <2> HIDE DEF stable
  <2> QED
    BY <1>1, <1>2, <1>3, <1>4, <2>1 DEF Hashes
<1>6. Cardinality(DOMAIN written.flows) \in Nat
  <2>1. DOMAIN written.flows \subseteq Flows \X Versions
    BY <1>1, PartialIs
  <2>2. IsFiniteSet(Flows \X Versions)
    BY BundleAssumption, FS_Product
  <2> QED
    BY <2>1, <2>2, FS_Subset, FS_CardinalityType
<1>7. Cardinality(DOMAIN written.resources) \in Nat
  <2>1. DOMAIN written.resources \subseteq Resources
    BY <1>1, PartialIs
  <2> QED
    BY <2>1, BundleAssumption, FS_Subset, FS_CardinalityType
<1>8. Cardinality(DOMAIN B!ByDigest(written.assets)) \in Nat
  <2>1. DOMAIN B!ByDigest(written.assets) \subseteq Digests
    BY <1>2, PartialIs DEF Usage
  <2> QED
    BY <2>1, BundleAssumption, FS_Subset, FS_CardinalityType
<1>9. Cardinality(B!Unresolved(written.graph)) \in Nat
  <2>1. \A g \in written.graph : DOMAIN g.nodes = Resources
    BY <1>1 DEF B!Graphs
  <2>2. B!Unresolved(written.graph) \subseteq Resources
    BY <2>1 DEF B!Unresolved
  <2> QED
    BY <2>2, BundleAssumption, FS_Subset, FS_CardinalityType
<1>10. B!Counts(Record) = [flows |-> Cardinality(DOMAIN written.flows),
                           resources |-> Cardinality(DOMAIN written.resources),
                           assets |-> Cardinality(DOMAIN B!ByDigest(written.assets)),
                           unresolvedReferences |-> Cardinality(B!Unresolved(written.graph))]
  BY RecordIs, HashIs
<1>11. B!Counts(Record) \in Totals
  BY <1>6, <1>7, <1>8, <1>9, <1>10 DEF Totals
<1> QED
  BY <1>5, <1>11

LEMMA BundleIsSealed == ASSUME SealInv, B!Seal PROVE SealInv'
<1>1. /\ written \in Records /\ disk \in Disks /\ Holds(disk)
      /\ verified = {} /\ verified' = {} /\ written' = written /\ writes' = writes
      /\ sealed' = {disk'}
  BY DEF B!Seal, SealInv
<1>2. PICK m : /\ m = [contentHash |-> B!Canonical(Record), counts |-> B!Counts(Record),
                       archyImportableYaml |-> DOMAIN written.flows # {} /\ B!Unresolved(written.graph) = {}]
               /\ disk' = [disk EXCEPT !.index = IF DOMAIN written.assets = {} THEN {}
                                                 ELSE {[x \in DOMAIN disk.files |-> written.assets[B!Address(x)]]},
                                       !.manifest = {m}]
  BY DEF B!Seal, Record
<1>3. written.assets \in Partial(Addresses, [Users -> 0..MaxWrites])
  BY <1>1, Fields
<1>4. B!ByDigest(written.assets) = [x \in DOMAIN disk.files |-> written.assets[B!Address(x)]]
  BY <1>1 DEF Holds, B!ByDigest
<1>5. Index \in SUBSET (Usage \cup {Garbled}) /\ AtMostOne(Index)
  BY <1>3, ByDigestIs DEF Index, AtMostOne
<1>6. m \in Manifests
  <2>1. B!Canonical(Record) \in Hashes /\ B!Counts(Record) \in Totals
    BY <1>1, HashIsTyped
  <2> QED
    BY <1>2, <2>1 DEF Manifests
<1>7. m.contentHash = B!Canonical(Record) /\ m.counts = B!Counts(Record)
  BY <1>2
<1>8. disk' = [disk EXCEPT !.index = Index, !.manifest = {m}]
  BY <1>2, <1>4 DEF Index
<1>9. disk' \in Disks
  BY <1>1, <1>5, <1>6, <1>8 DEF Disks
<1>10. /\ disk'.meta = disk.meta /\ disk'.definitions = disk.definitions
       /\ disk'.resources = disk.resources /\ disk'.graph = disk.graph /\ disk'.files = disk.files
       /\ disk'.index = Index /\ disk'.manifest = {m}
  BY <1>1, <1>8 DEF Disks
<1>11. Holds(disk)'
  <2>1. \A k \in DOMAIN written.flows : Path(k)' = Path(k)
    BY <1>1 DEF Path
  <2> QED
    BY <1>1, <1>10, <2>1 DEF Holds
<1>12. Record' = Record /\ Index' = Index
  BY <1>1 DEF Record, Index
<1>13. SealedAs(disk)'
  <2>1. disk'.index = Index'
    BY <1>10, <1>12
  <2>2. m.contentHash = B!Canonical(Record') /\ m.counts = B!Counts(Record')
    BY <1>7, <1>12
  <2> QED
    BY <1>6, <1>10, <1>11, <2>1, <2>2 DEF SealedAs
<1>14. Copied(disk)'
  <2>1. DOMAIN disk'.meta \subseteq {k[1] : k \in DOMAIN written'.flows}
    BY <1>11 DEF Holds
  <2>2. \A k \in DOMAIN disk'.definitions : k[1] \in DOMAIN disk'.meta
    <3>1. ASSUME NEW k \in DOMAIN disk.definitions PROVE k[1] \in DOMAIN disk.meta
      <4>1. PICK j \in DOMAIN written.flows : k = Path(j)
        BY <1>1 DEF Holds
      <4>2. k[1] = j[1]
        BY <4>1 DEF Path
      <4> QED
        BY <4>2, <1>1 DEF Holds
    <3> QED
      BY <3>1, <1>10
  <2>3. (written'.graph = {} => disk'.graph = {}) /\ (DOMAIN written'.assets = {} => disk'.index = {})
    BY <1>1, <1>10 DEF Holds, Index
  <2>4. AtMostOne(disk'.graph) /\ AtMostOne(disk'.index) /\ AtMostOne(disk'.manifest)
    <3>1. AtMostOne(written.graph)
      BY DEF SealInv
    <3> QED
      BY <3>1, <1>1, <1>5, <1>10 DEF Holds, AtMostOne
  <2>5. \A n \in disk'.manifest : n.contentHash = B!Canonical(Record')
    BY <1>7, <1>10, <1>12
  <2>6. \A k \in DOMAIN written'.flows : Path(k)' \in DOMAIN disk'.definitions
    BY <1>11 DEF Holds
  <2> QED
    BY <2>1, <2>2, <2>3, <2>4, <2>5, <2>6 DEF Copied, AtMostOne
<1>15. sealed' \subseteq Disks /\ AtMostOne(sealed)' /\ sealed' # {}
  BY <1>1, <1>9 DEF AtMostOne
<1>16. \A s \in sealed' : SealedAs(s)'
  BY <1>1, <1>13
<1>17. SealHolds'
  BY <1>1 DEF SealHolds, B!SealHolds
<1>18. AtMostOne(written.graph)'
  BY <1>1 DEF SealInv, AtMostOne
<1> QED
  BY <1>1, <1>9, <1>14, <1>15, <1>16, <1>17, <1>18 DEF SealInv

\* What one damage may do to the directory; it comes before the verification.
LEMMA CopyIsDamaged ==
  ASSUME SealInv, NEW as, B!Damaged(as), as \in Disks,
         DOMAIN as.meta \subseteq DOMAIN disk.meta,
         \A k \in DOMAIN as.definitions : k[1] \in DOMAIN as.meta,
         \A k \in DOMAIN disk.definitions : k[1] \in DOMAIN as.meta => k \in DOMAIN as.definitions,
         disk.graph = {} => as.graph = {}, disk.index = {} => as.index = {},
         AtMostOne(as.graph), AtMostOne(as.index), AtMostOne(as.manifest),
         \A m \in as.manifest : m = Garbled
                                  \/ \E n \in disk.manifest : n # Garbled /\ m.contentHash = n.contentHash
  PROVE  SealInv'
<1>1. /\ sealed # {} /\ verified = {} /\ disk' = as
      /\ written' = written /\ writes' = writes /\ sealed' = sealed /\ verified' = verified
  BY DEF B!Damaged
<1>2. Copied(disk)
  BY <1>1 DEF SealInv
<1>3. Record' = Record /\ Index' = Index
  BY <1>1 DEF Record, Index
<1>4. Copied(disk)'
  <2>1. \A m \in as.manifest : m = Garbled \/ m.contentHash = B!Canonical(Record)
    BY <1>2 DEF Copied
  <2>2. \A k \in DOMAIN written.flows : k[1] \in DOMAIN as.meta => Path(k) \in DOMAIN as.definitions
    <3>1. \A k \in DOMAIN written.flows : Path(k)[1] = k[1]
      BY DEF Path
    <3> QED
      BY <1>2, <3>1 DEF Copied
  <2>3. \A k \in DOMAIN written.flows : Path(k)' = Path(k)
    BY <1>1 DEF Path
  <2> QED
    BY <1>1, <1>2, <1>3, <2>1, <2>2, <2>3 DEF Copied, AtMostOne
<1>5. \A s \in sealed' : SealedAs(s)'
  <2>1. ASSUME NEW s \in sealed PROVE Holds(s)'
    <3>1. Holds(s)
      BY DEF SealInv, SealedAs
    <3>2. \A k \in DOMAIN written.flows : Path(k)' = Path(k)
      BY <1>1 DEF Path
    <3> QED
      BY <1>1, <3>1, <3>2 DEF Holds
  <2> QED
    BY <1>1, <1>3, <2>1 DEF SealInv, SealedAs
<1>6. SealHolds'
  BY <1>1 DEF SealHolds, B!SealHolds
<1>7. AtMostOne(written.graph)' /\ AtMostOne(sealed)'
  BY <1>1 DEF SealInv, AtMostOne
<1> QED
  BY <1>1, <1>4, <1>5, <1>6, <1>7 DEF SealInv

LEMMA DamageStarts ==
  ASSUME SealInv, NEW as, B!Damaged(as)
  PROVE  Copied(disk) /\ disk \in Disks /\ written \in Records
BY DEF B!Damaged, SealInv

LEMMA DefinitionIsDamaged == ASSUME SealInv, B!DefinitionDamaged PROVE SealInv'
<1>1. PICK k \in DOMAIN disk.definitions, text \in Bodies \cup {Lost} :
         B!Damaged([disk EXCEPT !.definitions[k] = text])
  BY DEF B!DefinitionDamaged, Bodies
<1> DEFINE as == [disk EXCEPT !.definitions[k] = text]
<1>2. Copied(disk) /\ disk \in Disks /\ written \in Records
  BY <1>1, DamageStarts
<1>3. [disk.definitions EXCEPT ![k] = text] \in Partial(Flows \X Versions \X Formats, Bodies \cup {Lost})
  <2>1. disk.definitions \in Partial(Flows \X Versions \X Formats, Bodies \cup {Lost})
    BY <1>2, Fields
  <2>2. /\ disk.definitions \in [DOMAIN disk.definitions -> Bodies \cup {Lost}]
        /\ DOMAIN disk.definitions \in SUBSET (Flows \X Versions \X Formats)
    BY <2>1, PartialIs
  <2>3. [disk.definitions EXCEPT ![k] = text] \in [DOMAIN disk.definitions -> Bodies \cup {Lost}]
    BY <2>2
  <2> QED
    BY <2>2, <2>3 DEF Partial
<1>4. as \in Disks
  BY <1>2, <1>3 DEF Disks
<1>5. /\ as.meta = disk.meta /\ DOMAIN as.definitions = DOMAIN disk.definitions
      /\ as.graph = disk.graph /\ as.index = disk.index /\ as.manifest = disk.manifest
  BY <1>2 DEF Disks
<1> HIDE DEF as
<1> QED
  BY <1>1, <1>2, <1>4, <1>5, CopyIsDamaged DEF as, Copied

LEMMA ChangedIsPartial ==
  ASSUME NEW K, NEW V, NEW f \in Partial(K, V), NEW k \in DOMAIN f, NEW v \in V
  PROVE  /\ [f EXCEPT ![k] = v] \in Partial(K, V)
         /\ DOMAIN [f EXCEPT ![k] = v] = DOMAIN f
<1>1. f \in [DOMAIN f -> V] /\ DOMAIN f \in SUBSET K
  BY PartialIs
<1>2. [f EXCEPT ![k] = v] \in [DOMAIN f -> V]
  BY <1>1
<1> QED
  BY <1>1, <1>2 DEF Partial

LEMMA FlowMetaIsDamaged == ASSUME SealInv, B!FlowMetaDamaged PROVE SealInv'
<1>1. PICK f \in DOMAIN disk.meta, x \in {Lost, Garbled} \cup Metas : B!Damaged([disk EXCEPT !.meta[f] = x])
  BY DEF B!FlowMetaDamaged, Metas
<1> DEFINE as == [disk EXCEPT !.meta[f] = x]
<1>2. Copied(disk) /\ disk \in Disks /\ written \in Records
  BY <1>1, DamageStarts
<1>3. disk.meta \in Partial(Flows, Metas \cup {Lost, Garbled})
  BY <1>2, Fields
<1>4. /\ [disk.meta EXCEPT ![f] = x] \in Partial(Flows, Metas \cup {Lost, Garbled})
      /\ DOMAIN [disk.meta EXCEPT ![f] = x] = DOMAIN disk.meta
  BY <1>3, ChangedIsPartial
<1>5. as \in Disks
  BY <1>2, <1>4 DEF Disks
<1>6. /\ DOMAIN as.meta = DOMAIN disk.meta /\ as.definitions = disk.definitions
      /\ as.graph = disk.graph /\ as.index = disk.index /\ as.manifest = disk.manifest
  BY <1>2, <1>4 DEF Disks
<1>7. B!Damaged(as)
  BY <1>1
<1> HIDE DEF as
<1> QED
  BY <1>2, <1>5, <1>6, <1>7, CopyIsDamaged DEF Copied

LEMMA OlderCopyIsMerged == ASSUME SealInv, B!OlderCopyMerged PROVE SealInv'
<1>1. PICK f \in DOMAIN disk.meta, v \in Versions, text \in Bodies, format \in Formats :
         B!Damaged([disk EXCEPT !.definitions = B!Put(@, <<f, v, format>>, text)])
  BY DEF B!OlderCopyMerged, Bodies
<1> DEFINE as == [disk EXCEPT !.definitions = B!Put(@, <<f, v, format>>, text)]
<1>2. Copied(disk) /\ disk \in Disks /\ written \in Records
  BY <1>1, DamageStarts
<1>3. /\ disk.definitions \in Partial(Flows \X Versions \X Formats, Bodies \cup {Lost})
      /\ disk.meta \in Partial(Flows, Metas \cup {Lost, Garbled})
  BY <1>2, Fields
<1>4. <<f, v, format>> \in Flows \X Versions \X Formats
  BY <1>3, PartialIs
<1>5. B!Put(disk.definitions, <<f, v, format>>, text) \in Partial(Flows \X Versions \X Formats, Bodies \cup {Lost})
  BY <1>3, <1>4, PutIsPartial
<1>6. as \in Disks
  BY <1>2, <1>5 DEF Disks
<1>7. /\ as.meta = disk.meta /\ as.definitions = B!Put(disk.definitions, <<f, v, format>>, text)
      /\ as.graph = disk.graph /\ as.index = disk.index /\ as.manifest = disk.manifest
  BY <1>2 DEF Disks
<1>8. \A k \in DOMAIN as.definitions : k[1] \in DOMAIN as.meta
  <2>1. DOMAIN as.definitions = DOMAIN disk.definitions \cup {<<f, v, format>>}
    BY <1>7 DEF B!Put
  <2> QED
    BY <1>2, <1>7, <2>1 DEF Copied
<1>9. DOMAIN disk.definitions \subseteq DOMAIN as.definitions
  BY <1>7 DEF B!Put
<1>10. B!Damaged(as)
  BY <1>1
<1> HIDE DEF as
<1>11. /\ AtMostOne(disk.graph) /\ AtMostOne(disk.index) /\ AtMostOne(disk.manifest)
  BY <1>2 DEF Copied
<1> QED
  BY <1>6, <1>7, <1>8, <1>9, <1>10, <1>11, CopyIsDamaged

LEMMA FlowIsLost == ASSUME SealInv, B!FlowLost PROVE SealInv'
<1>1. PICK f \in DOMAIN disk.meta :
         B!Damaged([disk EXCEPT !.meta = B!Without(@, f),
                     !.definitions = B!Restrict(@, {k \in DOMAIN @ : k[1] # f})])
  BY DEF B!FlowLost
<1> DEFINE as == [disk EXCEPT !.meta = B!Without(@, f),
                     !.definitions = B!Restrict(@, {k \in DOMAIN @ : k[1] # f})]
           others == {k \in DOMAIN disk.definitions : k[1] # f}
<1>2. Copied(disk) /\ disk \in Disks /\ written \in Records
  BY <1>1, DamageStarts
<1>3. /\ disk.definitions \in Partial(Flows \X Versions \X Formats, Bodies \cup {Lost})
      /\ disk.meta \in Partial(Flows, Metas \cup {Lost, Garbled})
  BY <1>2, Fields
<1>4. /\ B!Without(disk.meta, f) \in Partial(Flows, Metas \cup {Lost, Garbled})
      /\ DOMAIN B!Without(disk.meta, f) = DOMAIN disk.meta \ {f}
  <2>1. B!Without(disk.meta, f) = B!Restrict(disk.meta, DOMAIN disk.meta \ {f})
    BY DEF B!Without
  <2> QED
    BY <1>3, <2>1, RestrictIsPartial
<1>5. /\ B!Restrict(disk.definitions, others) \in Partial(Flows \X Versions \X Formats, Bodies \cup {Lost})
      /\ DOMAIN B!Restrict(disk.definitions, others) = others
  BY <1>3, RestrictIsPartial
<1>6. as = [disk EXCEPT !.meta = B!Without(disk.meta, f), !.definitions = B!Restrict(disk.definitions, others)]
  BY <1>2 DEF Disks
<1>7. as \in Disks
  <2> HIDE DEF as, others
  <2> QED
    BY <1>2, <1>4, <1>5, <1>6 DEF Disks
<1>8. /\ DOMAIN as.meta = DOMAIN disk.meta \ {f} /\ DOMAIN as.definitions = others
      /\ as.graph = disk.graph /\ as.index = disk.index /\ as.manifest = disk.manifest
  <2> HIDE DEF as, others
  <2> QED
    BY <1>2, <1>4, <1>5, <1>6 DEF Disks
<1>9. \A k \in DOMAIN as.definitions : k[1] \in DOMAIN as.meta
  <2>1. \A k \in others : k[1] \in DOMAIN disk.meta \ {f}
    BY <1>2 DEF Copied
  <2> HIDE DEF as, others
  <2> QED
    BY <1>8, <2>1
<1>10. \A k \in DOMAIN disk.definitions : k[1] \in DOMAIN as.meta => k \in DOMAIN as.definitions
  BY <1>8
<1>11. B!Damaged(as)
  BY <1>1
<1>12. AtMostOne(disk.graph) /\ AtMostOne(disk.index) /\ AtMostOne(disk.manifest)
  BY <1>2 DEF Copied
<1>13. DOMAIN as.meta \subseteq DOMAIN disk.meta
  BY <1>8
<1> HIDE DEF as, others
<1> QED
  BY <1>7, <1>8, <1>9, <1>10, <1>11, <1>12, <1>13, CopyIsDamaged

\* One of the other files of the directory is lost or another one.
LEMMA ResourcesAreDamaged ==
  ASSUME SealInv, NEW f \in Partial(Resources, Bodies \cup {Garbled}), NEW as,
         as = [disk EXCEPT !.resources = f], B!Damaged(as)
  PROVE  SealInv'
<1>2. Copied(disk) /\ disk \in Disks /\ written \in Records
  BY DamageStarts
<1>5. as \in Disks
  BY <1>2 DEF Disks
<1>6. /\ as.meta = disk.meta /\ as.definitions = disk.definitions
      /\ as.graph = disk.graph /\ as.index = disk.index /\ as.manifest = disk.manifest
  BY <1>2 DEF Disks
<1> QED
  BY <1>2, <1>5, <1>6, CopyIsDamaged DEF Copied

LEMMA FilesAreDamaged ==
  ASSUME SealInv, NEW f \in Partial(Digests, Digests \cup {Garbled}), NEW as,
         as = [disk EXCEPT !.files = f], B!Damaged(as)
  PROVE  SealInv'
<1>2. Copied(disk) /\ disk \in Disks /\ written \in Records
  BY DamageStarts
<1>5. as \in Disks
  BY <1>2 DEF Disks
<1>6. /\ as.meta = disk.meta /\ as.definitions = disk.definitions
      /\ as.graph = disk.graph /\ as.index = disk.index /\ as.manifest = disk.manifest
  BY <1>2 DEF Disks
<1> QED
  BY <1>2, <1>5, <1>6, CopyIsDamaged DEF Copied

LEMMA GraphFileIsDamaged ==
  ASSUME SealInv, NEW gs \in SUBSET (B!Graphs \cup {Garbled}), AtMostOne(gs), disk.graph # {}, NEW as,
         as = [disk EXCEPT !.graph = gs], B!Damaged(as)
  PROVE  SealInv'
<1>2. Copied(disk) /\ disk \in Disks /\ written \in Records
  BY DamageStarts
<1>5. as \in Disks
  BY <1>2 DEF Disks
<1>6. /\ as.meta = disk.meta /\ as.definitions = disk.definitions
      /\ as.graph = gs /\ as.index = disk.index /\ as.manifest = disk.manifest
  BY <1>2 DEF Disks
<1> QED
  BY <1>2, <1>5, <1>6, CopyIsDamaged DEF Copied

LEMMA IndexFileIsDamaged ==
  ASSUME SealInv, NEW is \in SUBSET (Usage \cup {Garbled}), AtMostOne(is), disk.index # {}, NEW as,
         as = [disk EXCEPT !.index = is], B!Damaged(as)
  PROVE  SealInv'
<1>2. Copied(disk) /\ disk \in Disks /\ written \in Records
  BY DamageStarts
<1>5. as \in Disks
  BY <1>2 DEF Disks
<1>6. /\ as.meta = disk.meta /\ as.definitions = disk.definitions
      /\ as.graph = disk.graph /\ as.index = is /\ as.manifest = disk.manifest
  BY <1>2 DEF Disks
<1> QED
  BY <1>2, <1>5, <1>6, CopyIsDamaged DEF Copied

LEMMA ManifestFileIsDamaged ==
  ASSUME SealInv, NEW ms \in SUBSET (Manifests \cup {Garbled}), AtMostOne(ms), NEW as,
         \A m \in ms : m = Garbled \/ \E n \in disk.manifest : n # Garbled /\ m.contentHash = n.contentHash,
         as = [disk EXCEPT !.manifest = ms], B!Damaged(as)
  PROVE  SealInv'
<1>2. Copied(disk) /\ disk \in Disks /\ written \in Records
  BY DamageStarts
<1>5. as \in Disks
  BY <1>2 DEF Disks
<1>6. /\ as.meta = disk.meta /\ as.definitions = disk.definitions
      /\ as.graph = disk.graph /\ as.index = disk.index /\ as.manifest = ms
  BY <1>2 DEF Disks
<1> QED
  BY <1>2, <1>5, <1>6, CopyIsDamaged DEF Copied

LEMMA ResourceIsDamaged == ASSUME SealInv, B!ResourceDamaged PROVE SealInv'
<1>1. CASE \E id \in DOMAIN disk.resources : B!Damaged([disk EXCEPT !.resources = B!Without(disk.resources, id)])
  <2>1. PICK id \in DOMAIN disk.resources : B!Damaged([disk EXCEPT !.resources = B!Without(disk.resources, id)])
    BY <1>1
  <2>2. disk \in Disks /\ written \in Records
    BY <2>1, DamageStarts
  <2>3. B!Without(disk.resources, id) \in Partial(Resources, Bodies \cup {Garbled})
    <3>1. disk.resources \in Partial(Resources, Bodies \cup {Garbled})
      BY <2>2, Fields
    <3> QED
      BY <3>1, RestrictIsPartial DEF B!Without
  <2> QED
    BY <2>1, <2>3, ResourcesAreDamaged
<1>2. CASE \E id \in DOMAIN disk.resources, x \in {Garbled} \cup Bodies : B!Damaged([disk EXCEPT !.resources[id] = x])
  <2>1. PICK id \in DOMAIN disk.resources, x \in {Garbled} \cup Bodies : B!Damaged([disk EXCEPT !.resources[id] = x])
    BY <1>2
  <2>2. disk \in Disks /\ written \in Records
    BY <2>1, DamageStarts
  <2>3. [disk.resources EXCEPT ![id] = x] \in Partial(Resources, Bodies \cup {Garbled})
    <3>1. disk.resources \in Partial(Resources, Bodies \cup {Garbled})
      BY <2>2, Fields
    <3> QED
      BY <3>1, ChangedIsPartial
  <2>4. [disk EXCEPT !.resources[id] = x] = [disk EXCEPT !.resources = [disk.resources EXCEPT ![id] = x]]
    BY <2>2 DEF Disks
  <2> QED
    BY <2>1, <2>3, <2>4, ResourcesAreDamaged
<1> QED
  BY <1>1, <1>2 DEF B!ResourceDamaged, Bodies

LEMMA AssetIsDamaged == ASSUME SealInv, B!AssetDamaged PROVE SealInv'
<1>1. CASE \E x \in DOMAIN disk.files : B!Damaged([disk EXCEPT !.files = B!Without(disk.files, x)])
  <2>1. PICK x \in DOMAIN disk.files : B!Damaged([disk EXCEPT !.files = B!Without(disk.files, x)])
    BY <1>1
  <2>2. disk \in Disks /\ written \in Records
    BY <2>1, DamageStarts
  <2>3. B!Without(disk.files, x) \in Partial(Digests, Digests \cup {Garbled})
    <3>1. disk.files \in Partial(Digests, Digests \cup {Garbled})
      BY <2>2, Fields
    <3> QED
      BY <3>1, RestrictIsPartial DEF B!Without
  <2> QED
    BY <2>1, <2>3, FilesAreDamaged
<1>2. CASE \E x \in DOMAIN disk.files : B!Damaged([disk EXCEPT !.files[x] = Garbled])
  <2>1. PICK x \in DOMAIN disk.files : B!Damaged([disk EXCEPT !.files[x] = Garbled])
    BY <1>2
  <2>2. disk \in Disks /\ written \in Records
    BY <2>1, DamageStarts
  <2>3. [disk.files EXCEPT ![x] = Garbled] \in Partial(Digests, Digests \cup {Garbled})
    <3>1. disk.files \in Partial(Digests, Digests \cup {Garbled})
      BY <2>2, Fields
    <3> QED
      BY <3>1, ChangedIsPartial
  <2>4. [disk EXCEPT !.files[x] = Garbled] = [disk EXCEPT !.files = [disk.files EXCEPT ![x] = Garbled]]
    BY <2>2 DEF Disks
  <2> QED
    BY <2>1, <2>3, <2>4, FilesAreDamaged
<1> QED
  BY <1>1, <1>2 DEF B!AssetDamaged

LEMMA GraphIsDamaged == ASSUME SealInv, B!GraphDamaged PROVE SealInv'
<1>1. PICK g \in disk.graph :
         \/ B!Damaged([disk EXCEPT !.graph = {}])
         \/ g # Garbled /\ \E as \in {Garbled, [g EXCEPT !.edges = <<@[2], @[1]>>],
                                      [g EXCEPT !.nodes = [n \in DOMAIN @ |-> "resolved"]]} :
              B!Damaged([disk EXCEPT !.graph = {as}])
  BY DEF B!GraphDamaged
<1>2. disk \in Disks /\ written \in Records
  BY <1>1, DamageStarts
<1>3. CASE B!Damaged([disk EXCEPT !.graph = {}])
  <2>1. AtMostOne({})
    BY DEF AtMostOne
  <2> QED
    BY <1>1, <1>3, <2>1, GraphFileIsDamaged
<1>4. CASE g # Garbled /\ \E as \in {Garbled, [g EXCEPT !.edges = <<@[2], @[1]>>],
                                     [g EXCEPT !.nodes = [n \in DOMAIN @ |-> "resolved"]]} :
             B!Damaged([disk EXCEPT !.graph = {as}])
  <2>1. PICK as \in {Garbled, [g EXCEPT !.edges = <<@[2], @[1]>>],
                     [g EXCEPT !.nodes = [n \in DOMAIN @ |-> "resolved"]]} : B!Damaged([disk EXCEPT !.graph = {as}])
    BY <1>4
  <2>2. g \in B!Graphs
    BY <1>1, <1>2, <1>4, Fields
  <2>3. as \in B!Graphs \cup {Garbled}
    <3>1. [g EXCEPT !.edges = <<@[2], @[1]>>] \in B!Graphs
      BY <2>2 DEF B!Graphs
    <3>2. [g EXCEPT !.nodes = [n \in DOMAIN @ |-> "resolved"]] \in B!Graphs
      BY <2>2 DEF B!Graphs
    <3> QED
      BY <2>1, <3>1, <3>2
  <2>4. AtMostOne({as}) /\ {as} \in SUBSET (B!Graphs \cup {Garbled})
    BY <2>3 DEF AtMostOne
  <2> QED
    BY <1>1, <2>1, <2>4, GraphFileIsDamaged
<1> QED
  BY <1>1, <1>3, <1>4

LEMMA IndexIsDamaged == ASSUME SealInv, B!IndexDamaged PROVE SealInv'
<1>1. PICK i \in disk.index :
         \E as \in {{}, {Garbled}} \cup {{B!Without(i, x)} : x \in IF i = Garbled THEN {} ELSE DOMAIN i} :
           B!Damaged([disk EXCEPT !.index = as])
  BY DEF B!IndexDamaged
<1>2. PICK as \in {{}, {Garbled}} \cup {{B!Without(i, x)} : x \in IF i = Garbled THEN {} ELSE DOMAIN i} :
         B!Damaged([disk EXCEPT !.index = as])
  BY <1>1
<1>3. disk \in Disks /\ written \in Records
  BY <1>2, DamageStarts
<1>4. as \in SUBSET (Usage \cup {Garbled}) /\ AtMostOne(as)
  <2>1. CASE as = {} \/ as = {Garbled}
    BY <2>1 DEF AtMostOne
  <2>2. CASE i # Garbled /\ \E x \in DOMAIN i : as = {B!Without(i, x)}
    <3>1. PICK x \in DOMAIN i : as = {B!Without(i, x)}
      BY <2>2
    <3>2. i \in Usage
      BY <1>1, <1>3, <2>2, Fields
    <3>3. B!Without(i, x) \in Usage
      BY <3>2, RestrictIsPartial DEF B!Without, Usage
    <3> QED
      BY <3>1, <3>3 DEF AtMostOne
  <2> QED
    BY <1>2, <2>1, <2>2
<1> QED
  BY <1>1, <1>2, <1>4, IndexFileIsDamaged

LEMMA ManifestIsDamaged == ASSUME SealInv, B!ManifestDamaged PROVE SealInv'
<1>1. PICK m \in disk.manifest :
         \/ B!Damaged([disk EXCEPT !.manifest = {}])
         \/ B!Damaged([disk EXCEPT !.manifest = {Garbled}])
         \/ m # Garbled /\ \E n \in 0..1 : B!Damaged([disk EXCEPT !.manifest = {[m EXCEPT !.counts.flows = n]}])
         \/ m # Garbled /\ B!Damaged([disk EXCEPT !.manifest = {[m EXCEPT !.archyImportableYaml = ~@]}])
  BY DEF B!ManifestDamaged
<1>2. disk \in Disks /\ written \in Records
  BY <1>1, DamageStarts
<1>3. m # Garbled => m \in Manifests
  BY <1>1, <1>2, Fields
<1>4. CASE B!Damaged([disk EXCEPT !.manifest = {}])
  <2>1. AtMostOne({})
    BY DEF AtMostOne
  <2> QED
    BY <1>4, <2>1, ManifestFileIsDamaged
<1>5. CASE B!Damaged([disk EXCEPT !.manifest = {Garbled}])
  <2>1. AtMostOne({Garbled})
    BY DEF AtMostOne
  <2> QED
    BY <1>5, <2>1, ManifestFileIsDamaged
<1>6. ASSUME m # Garbled, NEW other \in Manifests, other.contentHash = m.contentHash,
             B!Damaged([disk EXCEPT !.manifest = {other}])
      PROVE  SealInv'
  <2>1. AtMostOne({other})
    BY DEF AtMostOne
  <2>2. {other} \in SUBSET (Manifests \cup {Garbled})
    BY <1>6
  <2>3. \A n \in {other} : n = Garbled \/ \E o \in disk.manifest : o # Garbled /\ n.contentHash = o.contentHash
    BY <1>1, <1>6
  <2> QED
    BY <1>6, <2>1, <2>2, <2>3, ManifestFileIsDamaged, ZenonT(60)
<1>7. CASE m # Garbled /\ \E n \in 0..1 : B!Damaged([disk EXCEPT !.manifest = {[m EXCEPT !.counts.flows = n]}])
  <2>1. PICK n \in 0..1 : B!Damaged([disk EXCEPT !.manifest = {[m EXCEPT !.counts.flows = n]}])
    BY <1>7
  <2>2. /\ [m EXCEPT !.counts.flows = n] \in Manifests
        /\ [m EXCEPT !.counts.flows = n].contentHash = m.contentHash
    BY <1>3, <1>7 DEF Manifests, Totals
  <2> QED
    BY <1>6, <1>7, <2>1, <2>2
<1>8. CASE m # Garbled /\ B!Damaged([disk EXCEPT !.manifest = {[m EXCEPT !.archyImportableYaml = ~@]}])
  <2>1. /\ [m EXCEPT !.archyImportableYaml = ~@] \in Manifests
        /\ [m EXCEPT !.archyImportableYaml = ~@].contentHash = m.contentHash
    BY <1>3, <1>8 DEF Manifests
  <2> QED
    BY <1>6, <1>8, <2>1
<1> QED
  BY <1>1, <1>4, <1>5, <1>7, <1>8

\* What Intact compares of two directories.
Defined(d) == [k \in DOMAIN d.definitions |-> IF d.definitions[k] = Lost THEN Lost ELSE d.definitions[k].stable]
Stable(d) == [id \in DOMAIN d.resources |-> IF d.resources[id] = Garbled THEN Garbled ELSE d.resources[id].stable]
Summary(d) == {IF m = Garbled THEN m ELSE [hash |-> m.contentHash, counts |-> m.counts] : m \in d.manifest}
SameFiles(d, s) ==
  /\ d.meta = s.meta /\ d.graph = s.graph /\ d.index = s.index
  /\ Stable(d) = Stable(s) /\ Summary(d) = Summary(s)
SameDefinitions(d, s) ==
  /\ \A k \in DOMAIN s.definitions : Defined(d)[k] = Defined(s)[k]
  /\ \A k \in DOMAIN d.definitions \ DOMAIN s.definitions :
       \E j \in DOMAIN s.definitions : j[1] = k[1] /\ j[2] = k[2]

LEMMA CoveredIs ==
  ASSUME NEW x
  PROVE  B!Covered(x) = [meta |-> x.meta, definitions |-> Defined(x), graph |-> x.graph, index |-> x.index,
                         resources |-> Stable(x), manifest |-> Summary(x)]
BY DEF B!Covered, Defined, Stable, Summary

LEMMA IntactIs ==
  ASSUME NEW s, sealed = {s}
  PROVE  B!Intact <=> SameFiles(disk, s) /\ SameDefinitions(disk, s)
<1> DEFINE now == B!Covered(disk)
           was == B!Covered(s)
<1>1. B!Intact <=>
        /\ [now EXCEPT !.definitions = B!Empty] = [was EXCEPT !.definitions = B!Empty]
        /\ \A k \in DOMAIN was.definitions : now.definitions[k] = was.definitions[k]
        /\ \A k \in DOMAIN now.definitions \ DOMAIN was.definitions :
             \E j \in DOMAIN was.definitions : j[1] = k[1] /\ j[2] = k[2]
  BY DEF B!Intact
<1>2. now.definitions = Defined(disk) /\ was.definitions = Defined(s)
  BY CoveredIs, SMTT(30)
<1>5. DOMAIN Defined(disk) = DOMAIN disk.definitions /\ DOMAIN Defined(s) = DOMAIN s.definitions
  BY DEF Defined
<1>3. /\ [now EXCEPT !.definitions = B!Empty] =
           [meta |-> disk.meta, definitions |-> B!Empty, graph |-> disk.graph, index |-> disk.index,
            resources |-> Stable(disk), manifest |-> Summary(disk)]
      /\ [was EXCEPT !.definitions = B!Empty] =
           [meta |-> s.meta, definitions |-> B!Empty, graph |-> s.graph, index |-> s.index,
            resources |-> Stable(s), manifest |-> Summary(s)]
  BY CoveredIs, SMTT(30)
<1>4. [now EXCEPT !.definitions = B!Empty] = [was EXCEPT !.definitions = B!Empty] <=> SameFiles(disk, s)
  BY <1>3 DEF SameFiles
<1> HIDE DEF now, was
<1> QED
  BY <1>1, <1>2, <1>4, <1>5 DEF SameDefinitions

\* What verifyBundle finds nothing wrong with.
Accepted(m) ==
  /\ ~B!FilesMissing /\ m # Garbled
  /\ m.counts = B!Counts(B!Reconstructed) /\ m.contentHash = B!Canonical(B!Reconstructed)

LEMMA FindingsAre ==
  ASSUME NEW m
  PROVE  B!Findings(m) = {} <=> Accepted(m)
BY DEF B!Findings, B!CheckCounts, Accepted

LEMMA ReconstructedIs ==
  /\ B!Reconstructed = [flows |-> B!ReconstructFlows, resources |-> B!ReconstructResources,
                        graph |-> B!ReconstructGraph, assets |-> B!ReconstructAssets]
  /\ B!Canonical(B!Reconstructed) =
       [flows |-> Hashed(B!ReconstructFlows), graph |-> B!ReconstructGraph, assets |-> B!ReconstructAssets,
        resources |-> [id \in DOMAIN B!ReconstructResources |-> B!ReconstructResources[id].stable]]
  /\ B!Counts(B!Reconstructed) =
       [flows |-> Cardinality(DOMAIN B!ReconstructFlows), resources |-> Cardinality(DOMAIN B!ReconstructResources),
        assets |-> Cardinality(DOMAIN B!ReconstructAssets),
        unresolvedReferences |-> Cardinality(B!Unresolved(B!ReconstructGraph))]
<1>1. B!Reconstructed = [flows |-> B!ReconstructFlows, resources |-> B!ReconstructResources,
                         graph |-> B!ReconstructGraph, assets |-> B!ReconstructAssets]
  BY DEF B!Reconstructed
<1>2. /\ B!Reconstructed.flows = B!ReconstructFlows /\ B!Reconstructed.resources = B!ReconstructResources
      /\ B!Reconstructed.graph = B!ReconstructGraph /\ B!Reconstructed.assets = B!ReconstructAssets
  BY <1>1
<1>3. B!Reconstructed = [flows |-> B!Reconstructed.flows, resources |-> B!Reconstructed.resources,
                         graph |-> B!Reconstructed.graph, assets |-> B!Reconstructed.assets]
  BY <1>1, <1>2
<1> QED
  BY <1>1, <1>2, <1>3, HashIs

\* The hashes are equal exactly when the four parts are.
LEMMA HashesAgree ==
  ASSUME written \in Records
  PROVE  B!Canonical(Record) = B!Canonical(B!Reconstructed) <=>
           /\ Hashed(B!ReconstructFlows) = Hashed(written.flows) /\ B!ReconstructGraph = written.graph
           /\ B!ReconstructAssets = B!ByDigest(written.assets)
           /\ [id \in DOMAIN B!ReconstructResources |-> B!ReconstructResources[id].stable]
                = [id \in DOMAIN written.resources |-> written.resources[id].stable]
<1>1. B!Canonical(Record) = [flows |-> Hashed(written.flows), graph |-> written.graph,
                             assets |-> B!ByDigest(written.assets),
                             resources |-> [id \in DOMAIN written.resources |-> written.resources[id].stable]]
  BY RecordIs, HashIs
<1> QED
  BY <1>1, ReconstructedIs

\* Equal hashes are hashes of as many things.
LEMMA CountsAgree ==
  ASSUME written \in Records, B!Canonical(Record) = B!Canonical(B!Reconstructed)
  PROVE  B!Counts(Record) = B!Counts(B!Reconstructed)
<1>1. DOMAIN B!ReconstructResources = DOMAIN written.resources
  <2> DEFINE a == [id \in DOMAIN B!ReconstructResources |-> B!ReconstructResources[id].stable]
             b == [id \in DOMAIN written.resources |-> written.resources[id].stable]
  <2>1. a = b
    BY HashesAgree
  <2>2. DOMAIN a = DOMAIN B!ReconstructResources /\ DOMAIN b = DOMAIN written.resources
    OBVIOUS
  <2> HIDE DEF a, b
  <2> QED
    BY <2>1, <2>2
<1>2. /\ DOMAIN B!ReconstructFlows = DOMAIN written.flows /\ B!ReconstructGraph = written.graph
      /\ B!ReconstructAssets = B!ByDigest(written.assets)
  <2>1. Hashed(B!ReconstructFlows) = Hashed(written.flows)
    BY HashesAgree
  <2>2. \A f : DOMAIN Hashed(f) = DOMAIN f
    BY DEF Hashed
  <2>3. DOMAIN B!ReconstructFlows = DOMAIN written.flows
    BY <2>1, <2>2
  <2> QED
    BY <2>3, HashesAgree
<1>3. B!Counts(Record) = [flows |-> Cardinality(DOMAIN written.flows),
                          resources |-> Cardinality(DOMAIN written.resources),
                          assets |-> Cardinality(DOMAIN B!ByDigest(written.assets)),
                          unresolvedReferences |-> Cardinality(B!Unresolved(written.graph))]
  BY RecordIs, HashIs
<1> QED
  BY <1>1, <1>2, <1>3, ReconstructedIs

\* A sealed directory, once more.
LEMMA SealedIs ==
  ASSUME SealInv, NEW s \in sealed
  PROVE  /\ s \in Disks /\ sealed = {s} /\ Holds(s) /\ s.index = Index /\ Copied(disk)
         /\ disk \in Disks /\ written \in Records
         /\ Summary(s) = {[hash |-> B!Canonical(Record), counts |-> B!Counts(Record)]}
<1>1. s \in Disks /\ sealed = {s} /\ Copied(disk) /\ disk \in Disks /\ written \in Records
  BY DEF SealInv, AtMostOne
<1>2. SealedAs(s)
  BY DEF SealInv
<1>3. Holds(s) /\ s.index = Index
  BY <1>2 DEF SealedAs
<1>4. PICK m : /\ s.manifest = {m} /\ m \in Manifests
               /\ m.contentHash = B!Canonical(Record) /\ m.counts = B!Counts(Record)
  BY <1>2 DEF SealedAs
<1>5. m # Garbled
  BY <1>4, BundleAssumption
<1>6. Summary(s) = {[hash |-> B!Canonical(Record), counts |-> B!Counts(Record)]}
  BY <1>4, <1>5 DEF Summary
<1> QED
  BY <1>1, <1>3, <1>6

LEMMA WrittenFlows ==
  ASSUME written \in Records, NEW k \in DOMAIN written.flows
  PROVE  /\ k = <<k[1], k[2]>> /\ k[1] \in Flows /\ k[2] \in Versions
         /\ written.flows[k].definition \in Bodies /\ written.flows[k].meta \in Metas
         /\ Hashed(written.flows)[k] = [definition |-> written.flows[k].definition.stable,
                                        meta |-> written.flows[k].meta]
         /\ written.flows[k] = [definition |-> written.flows[k].definition, meta |-> written.flows[k].meta]
<1>1. written.flows \in Partial(Flows \X Versions, [definition : Bodies, meta : Metas])
  BY DEF Records
<1>2. /\ written.flows \in [DOMAIN written.flows -> [definition : Bodies, meta : Metas]]
      /\ DOMAIN written.flows \subseteq Flows \X Versions
  BY <1>1, PartialIs
<1>3. k \in Flows \X Versions /\ written.flows[k] \in [definition : Bodies, meta : Metas]
  BY <1>2
<1>4. Hashed(written.flows)[k] = [definition |-> written.flows[k].definition.stable, meta |-> written.flows[k].meta]
  BY <1>1, HashedIs
<1> QED
  BY <1>3, <1>4

\* The flows that verifyBundle finds.
LEMMA FlowsFound ==
  /\ DOMAIN B!ReconstructFlows = {k \in {<<x[1], x[2]>> : x \in DOMAIN disk.definitions} :
                                    B!Readable(k[1]) /\ B!HasDefinition(k[1], k[2])}
  /\ \A k \in DOMAIN B!ReconstructFlows :
       /\ B!ReconstructFlows[k] = [definition |-> disk.definitions[B!Definition(k[1], k[2])], meta |-> disk.meta[k[1]]]
       /\ Hashed(B!ReconstructFlows)[k] = [definition |-> disk.definitions[B!Definition(k[1], k[2])].stable,
                                           meta |-> disk.meta[k[1]]]
<1>1. /\ DOMAIN B!ReconstructFlows = {k \in {<<x[1], x[2]>> : x \in DOMAIN disk.definitions} :
                                        B!Readable(k[1]) /\ B!HasDefinition(k[1], k[2])}
      /\ \A k \in DOMAIN B!ReconstructFlows :
           B!ReconstructFlows[k] = [definition |-> disk.definitions[B!Definition(k[1], k[2])], meta |-> disk.meta[k[1]]]
  BY DEF B!ReconstructFlows
<1>2. \A k \in DOMAIN B!ReconstructFlows :
        Hashed(B!ReconstructFlows)[k] = [definition |-> B!ReconstructFlows[k].definition.stable,
                                         meta |-> B!ReconstructFlows[k].meta]
  BY DEF Hashed, B!CanonicalFlow
<1>3. ASSUME NEW k \in DOMAIN B!ReconstructFlows
      PROVE  Hashed(B!ReconstructFlows)[k] = [definition |-> disk.definitions[B!Definition(k[1], k[2])].stable,
                                              meta |-> disk.meta[k[1]]]
  <2>1. B!ReconstructFlows[k] = [definition |-> disk.definitions[B!Definition(k[1], k[2])], meta |-> disk.meta[k[1]]]
    BY <1>1
  <2>2. /\ B!ReconstructFlows[k].definition = disk.definitions[B!Definition(k[1], k[2])]
        /\ B!ReconstructFlows[k].meta = disk.meta[k[1]]
    BY <2>1
  <2>3. Hashed(B!ReconstructFlows)[k] = [definition |-> B!ReconstructFlows[k].definition.stable,
                                         meta |-> B!ReconstructFlows[k].meta]
    BY <1>2
  <2> QED
    BY <2>2, <2>3
<1> QED
  BY <1>1, <1>3

LEMMA ExactIsIntact ==
  ASSUME SealInv, NEW s \in sealed, NEW m, disk.manifest = {m}, Accepted(m)
  PROVE  SameFiles(disk, s) /\ SameDefinitions(disk, s)
<1>1. /\ s \in Disks /\ Holds(s) /\ s.index = Index /\ Copied(disk) /\ disk \in Disks /\ written \in Records
      /\ Summary(s) = {[hash |-> B!Canonical(Record), counts |-> B!Counts(Record)]}
  BY SealedIs
<1>2. B!Canonical(Record) = B!Canonical(B!Reconstructed)
  <2>1. m # Garbled /\ m.contentHash = B!Canonical(B!Reconstructed)
    BY DEF Accepted
  <2>2. m.contentHash = B!Canonical(Record)
    BY <1>1, <2>1 DEF Copied
  <2> QED
    BY <2>1, <2>2
<1>3. /\ Hashed(B!ReconstructFlows) = Hashed(written.flows) /\ B!ReconstructGraph = written.graph
      /\ B!ReconstructAssets = B!ByDigest(written.assets)
      /\ [id \in DOMAIN B!ReconstructResources |-> B!ReconstructResources[id].stable]
           = [id \in DOMAIN written.resources |-> written.resources[id].stable]
  BY <1>1, <1>2, HashesAgree
<1>13. DOMAIN B!ReconstructFlows = DOMAIN written.flows
  <2>1. \A f : DOMAIN Hashed(f) = DOMAIN f
    BY DEF Hashed
  <2> QED
    BY <1>3, <2>1
<1>4. \A k \in DOMAIN written.flows :
        /\ k[1] \in DOMAIN disk.meta /\ disk.meta[k[1]] = written.flows[k].meta
        /\ B!Definition(k[1], k[2]) \in DOMAIN disk.definitions
        /\ Defined(disk)[B!Definition(k[1], k[2])] = written.flows[k].definition.stable
  <2>1. TAKE k \in DOMAIN written.flows
  <2>2. PICK x \in DOMAIN disk.definitions : k = <<x[1], x[2]>>
    BY <1>13, FlowsFound
  <2>3. k[1] \in DOMAIN disk.meta
    BY <1>1, <2>2 DEF Copied
  <2>4. [definition |-> disk.definitions[B!Definition(k[1], k[2])].stable, meta |-> disk.meta[k[1]]]
          = [definition |-> written.flows[k].definition.stable, meta |-> written.flows[k].meta]
    <3>1. Hashed(B!ReconstructFlows)[k] = [definition |-> disk.definitions[B!Definition(k[1], k[2])].stable,
                                           meta |-> disk.meta[k[1]]]
      BY <1>13, FlowsFound
    <3>2. Hashed(written.flows)[k] = [definition |-> written.flows[k].definition.stable,
                                      meta |-> written.flows[k].meta]
      BY <1>1, WrittenFlows
    <3> QED
      BY <1>3, <3>1, <3>2
  <2>5. /\ disk.definitions[B!Definition(k[1], k[2])].stable = written.flows[k].definition.stable
        /\ disk.meta[k[1]] = written.flows[k].meta
    BY <2>4
  <2>6. B!HasDefinition(k[1], k[2])
    BY <1>13, FlowsFound
  <2>7. /\ B!Definition(k[1], k[2]) \in DOMAIN disk.definitions
        /\ Defined(disk)[B!Definition(k[1], k[2])] = disk.definitions[B!Definition(k[1], k[2])].stable
    BY <2>6 DEF B!HasDefinition, Defined
  <2> QED
    BY <2>3, <2>5, <2>7
<1>5. disk.meta = s.meta
  <2>1. DOMAIN s.meta = {k[1] : k \in DOMAIN written.flows}
    BY <1>1 DEF Holds
  <2>2. DOMAIN disk.meta = DOMAIN s.meta
    BY <1>1, <1>4, <2>1 DEF Copied
  <2>3. disk.meta = [f \in DOMAIN disk.meta |-> disk.meta[f]] /\ s.meta = [f \in DOMAIN s.meta |-> s.meta[f]]
    BY <1>1, Fields, PartialIs
  <2>4. \A f \in DOMAIN s.meta : disk.meta[f] = s.meta[f]
    BY <1>1, <1>4, <2>1 DEF Holds
  <2> QED
    BY <2>2, <2>3, <2>4
<1>6. disk.graph = s.graph
  <2>1. disk.graph \ {Garbled} = written.graph
    BY <1>3 DEF B!ReconstructGraph
  <2>2. AtMostOne(disk.graph) /\ (written.graph = {} => disk.graph = {}) /\ s.graph = written.graph
    BY <1>1 DEF Copied, Holds
  <2> QED
    BY <2>1, <2>2 DEF AtMostOne
<1>7. disk.index = s.index
  <2>1. CASE DOMAIN written.assets = {}
    BY <1>1, <2>1 DEF Copied, Index
  <2>2. CASE DOMAIN written.assets # {}
    <3>1. DOMAIN B!ByDigest(written.assets) = {a[2] : a \in DOMAIN written.assets}
      BY <1>1, Fields, ByDigestIs
    <3>2. B!ByDigest(written.assets) # B!Empty
      BY <2>2, <3>1, SMTT(30) DEF B!Empty
    <3>3. ~(disk.index \subseteq {Garbled}) /\ B!ReconstructAssets = CHOOSE i \in disk.index : TRUE
      BY <1>3, <3>2 DEF B!ReconstructAssets
    <3>4. B!ByDigest(written.assets) \in disk.index
      BY <1>3, <3>3
    <3>5. disk.index = {B!ByDigest(written.assets)}
      BY <1>1, <3>4 DEF Copied, AtMostOne
    <3> QED
      BY <1>1, <2>2, <3>5 DEF Index
  <2> QED
    BY <2>1, <2>2
<1>8. Stable(disk) = Stable(s)
  <2>1. \A id \in DOMAIN disk.resources : disk.resources[id] # Garbled
    BY DEF Accepted, B!FilesMissing
  <2>2. /\ DOMAIN B!ReconstructResources = DOMAIN disk.resources
        /\ \A id \in DOMAIN disk.resources : B!ReconstructResources[id] = disk.resources[id]
    <3>1. {id \in DOMAIN disk.resources : disk.resources[id] # Garbled} = DOMAIN disk.resources
      BY <2>1
    <3> QED
      BY <3>1 DEF B!ReconstructResources, B!Restrict
  <2>3. Stable(disk) = [id \in DOMAIN B!ReconstructResources |-> B!ReconstructResources[id].stable]
    BY <2>1, <2>2 DEF Stable
  <2>4. Stable(s) = [id \in DOMAIN written.resources |-> written.resources[id].stable]
    <3>1. s.resources = written.resources
      BY <1>1 DEF Holds
    <3>2. \A id \in DOMAIN written.resources : written.resources[id] # Garbled
      BY <1>1, Fields, PartialIs, BundleAssumption
    <3> QED
      BY <3>1, <3>2 DEF Stable
  <2> QED
    BY <1>3, <2>3, <2>4
<1>9. Summary(disk) = Summary(s)
  <2>1. /\ m # Garbled /\ m.contentHash = B!Canonical(B!Reconstructed)
        /\ m.counts = B!Counts(B!Reconstructed)
    BY DEF Accepted
  <2>2. Summary(disk) = {[hash |-> m.contentHash, counts |-> m.counts]}
    BY <2>1 DEF Summary
  <2>3. B!Counts(Record) = B!Counts(B!Reconstructed)
    BY <1>1, <1>2, CountsAgree
  <2> QED
    BY <1>1, <1>2, <2>1, <2>2, <2>3
<1>10. \A k \in DOMAIN written.flows : B!Definition(k[1], k[2]) = Path(k)
  BY <1>4 DEF B!Definition, Path
<1>11. ASSUME NEW x \in DOMAIN s.definitions
       PROVE  Defined(disk)[x] = Defined(s)[x]
  <2>1. PICK k \in DOMAIN written.flows : x = Path(k)
    BY <1>1 DEF Holds
  <2>2. s.definitions[x] = written.flows[k].definition
    BY <1>1, <2>1 DEF Holds
  <2>3. written.flows[k].definition # Lost
    BY <1>1, WrittenFlows, BundleAssumption
  <2>4. Defined(s)[x] = written.flows[k].definition.stable
    BY <2>2, <2>3 DEF Defined
  <2> QED
    BY <1>4, <1>10, <2>1, <2>4
<1>12. ASSUME NEW x \in DOMAIN disk.definitions
       PROVE  \E j \in DOMAIN s.definitions : j[1] = x[1] /\ j[2] = x[2]
  <2>1. x[1] \in DOMAIN disk.meta
    BY <1>1 DEF Copied
  <2>2. x[2] \in B!VersionDirs(x[1])
    BY DEF B!VersionDirs, B!Named
  <2>3. B!Readable(x[1]) /\ B!HasDefinition(x[1], x[2])
    BY <2>1, <2>2 DEF Accepted, B!FilesMissing
  <2> DEFINE k == <<x[1], x[2]>>
  <2>4. k \in DOMAIN written.flows
    <3>1. k \in DOMAIN B!ReconstructFlows
      BY <2>3, FlowsFound
    <3> QED
      BY <1>13, <3>1
  <2>5. Path(k) \in DOMAIN s.definitions
    BY <1>1, <2>4 DEF Holds
  <2>6. Path(k)[1] = x[1] /\ Path(k)[2] = x[2]
    BY DEF Path
  <2> QED
    BY <2>5, <2>6
<1> QED
  BY <1>5, <1>6, <1>7, <1>8, <1>9, <1>11, <1>12 DEF SameFiles, SameDefinitions

LEMMA IntactIsExact ==
  ASSUME SealInv, NEW s \in sealed, SameFiles(disk, s), SameDefinitions(disk, s)
  PROVE  \E m : disk.manifest = {m} /\ Accepted(m)
<1>1. /\ s \in Disks /\ Holds(s) /\ s.index = Index /\ Copied(disk) /\ disk \in Disks /\ written \in Records
      /\ Summary(s) = {[hash |-> B!Canonical(Record), counts |-> B!Counts(Record)]}
  BY SealedIs
<1>2. /\ disk.meta = s.meta /\ disk.graph = s.graph /\ disk.index = s.index
      /\ Stable(disk) = Stable(s) /\ Summary(disk) = Summary(s)
  BY DEF SameFiles
<1>3. PICK m : m \in disk.manifest
  <2>1. Summary(disk) # {}
    BY <1>1, <1>2
  <2> QED
    BY <2>1 DEF Summary
<1>4. disk.manifest = {m}
  BY <1>1, <1>3 DEF Copied, AtMostOne
<1>5. /\ m # Garbled /\ m.contentHash = B!Canonical(Record) /\ m.counts = B!Counts(Record)
  <2> DEFINE h == [hash |-> B!Canonical(Record), counts |-> B!Counts(Record)]
  <2>1. (IF m = Garbled THEN m ELSE [hash |-> m.contentHash, counts |-> m.counts]) = h
    BY <1>1, <1>2, <1>4 DEF Summary
  <2>2. h # Garbled
    <3>1. B!Canonical(Record) \in Hashes /\ B!Counts(Record) \in Totals
      BY <1>1, HashIsTyped
    <3>2. h \in [hash : Hashes, counts : Totals]
      BY <3>1
    <3> QED
      BY <3>2, BundleAssumption
  <2>3. m # Garbled /\ [hash |-> m.contentHash, counts |-> m.counts] = h
    BY <2>1, <2>2
  <2> QED
    BY <2>3
<1>6. \A k \in DOMAIN written.flows :
        /\ k[1] \in DOMAIN disk.meta /\ disk.meta[k[1]] = written.flows[k].meta
        /\ B!Readable(k[1]) /\ B!Definition(k[1], k[2]) = Path(k)
        /\ Path(k) \in DOMAIN disk.definitions /\ disk.definitions[Path(k)] # Lost
        /\ disk.definitions[Path(k)].stable = written.flows[k].definition.stable
  <2>1. TAKE k \in DOMAIN written.flows
  <2>2. k[1] \in DOMAIN disk.meta /\ disk.meta[k[1]] = written.flows[k].meta
    BY <1>1, <1>2 DEF Holds
  <2>3. B!Readable(k[1])
    <3>1. written.flows[k].meta \in Metas
      BY <1>1, WrittenFlows
    <3>2. written.flows[k].meta # Lost /\ written.flows[k].meta # Garbled
      BY <3>1, BundleAssumption
    <3> QED
      BY <2>2, <3>2 DEF B!Readable
  <2>4. B!Definition(k[1], k[2]) = Path(k)
    BY <2>2 DEF B!Definition, Path
  <2>5. Path(k) \in DOMAIN disk.definitions
    BY <1>1, <2>2 DEF Copied
  <2>6. Path(k) \in DOMAIN s.definitions /\ s.definitions[Path(k)] = written.flows[k].definition
    BY <1>1 DEF Holds
  <2>7. Defined(disk)[Path(k)] = Defined(s)[Path(k)]
    BY <2>6 DEF SameDefinitions
  <2>8. written.flows[k].definition \in Bodies
    BY <1>1, WrittenFlows
  <2>9. Defined(s)[Path(k)] = written.flows[k].definition.stable /\ written.flows[k].definition.stable # Lost
    BY <2>6, <2>8, BundleAssumption DEF Defined, Bodies
  <2>10. /\ disk.definitions[Path(k)] # Lost
         /\ disk.definitions[Path(k)].stable = written.flows[k].definition.stable
    BY <2>5, <2>7, <2>9 DEF Defined
  <2> QED
    BY <2>2, <2>3, <2>4, <2>5, <2>10
<1>7. \A x \in DOMAIN disk.definitions : <<x[1], x[2]>> \in DOMAIN written.flows
  <2>1. TAKE x \in DOMAIN disk.definitions
  <2>2. PICK j \in DOMAIN s.definitions : j[1] = x[1] /\ j[2] = x[2]
    BY DEF SameDefinitions
  <2>3. PICK k \in DOMAIN written.flows : j = Path(k)
    BY <1>1 DEF Holds
  <2>4. k = <<k[1], k[2]>>
    BY <1>1, WrittenFlows
  <2>5. Path(k)[1] = k[1] /\ Path(k)[2] = k[2]
    BY DEF Path
  <2> QED
    BY <2>2, <2>3, <2>4, <2>5
<1>8. \A k \in DOMAIN written.flows : B!HasDefinition(k[1], k[2])
  <2>1. TAKE k \in DOMAIN written.flows
  <2> QED
    BY <1>6, <2>1 DEF B!HasDefinition
<1>9. \A id \in DOMAIN disk.resources : disk.resources[id] # Garbled
  <2>1. TAKE id \in DOMAIN disk.resources
  <2>2. DOMAIN Stable(disk) = DOMAIN disk.resources /\ DOMAIN Stable(s) = DOMAIN s.resources
    BY DEF Stable
  <2>3. s.resources = written.resources /\ id \in DOMAIN s.resources
    BY <1>1, <1>2, <2>2 DEF Holds
  <2>4. written.resources[id] \in Bodies
    BY <1>1, <2>3, Fields, PartialIs
  <2>5. Stable(s)[id] = written.resources[id].stable
    BY <2>3, <2>4, BundleAssumption DEF Stable
  <2>6. Stable(disk)[id] # Garbled
    BY <1>2, <2>4, <2>5, BundleAssumption DEF Bodies
  <2> QED
    BY <2>6 DEF Stable
<1>10. ~B!FilesMissing
  <2>1. ASSUME NEW f \in DOMAIN disk.meta
        PROVE  B!Readable(f) /\ \A v \in B!VersionDirs(f) : B!HasDefinition(f, v)
    <3>1. PICK k \in DOMAIN written.flows : f = k[1]
      BY <1>1 DEF Copied
    <3>2. B!Readable(f)
      BY <1>6, <3>1
    <3>3. ASSUME NEW v \in B!VersionDirs(f) PROVE B!HasDefinition(f, v)
      <4>1. PICK x \in DOMAIN disk.definitions : x[1] = f /\ x[2] = v
        BY DEF B!VersionDirs, B!Named
      <4>2. <<f, v>> \in DOMAIN written.flows
        BY <1>7, <4>1
      <4> QED
        BY <1>8, <4>2
    <3> QED
      BY <3>2, <3>3
  <2> QED
    BY <1>9, <2>1 DEF B!FilesMissing
<1>11. Hashed(B!ReconstructFlows) = Hashed(written.flows)
  <2>1. DOMAIN B!ReconstructFlows \subseteq DOMAIN written.flows
    BY <1>7, FlowsFound
  <2>2. DOMAIN written.flows \subseteq DOMAIN B!ReconstructFlows
    <3>1. ASSUME NEW k \in DOMAIN written.flows PROVE k \in DOMAIN B!ReconstructFlows
      <4>1. k = <<k[1], k[2]>> /\ Path(k)[1] = k[1] /\ Path(k)[2] = k[2]
        BY <1>1, WrittenFlows DEF Path
      <4>2. k \in {<<x[1], x[2]>> : x \in DOMAIN disk.definitions}
        BY <1>6, <4>1
      <4> QED
        BY <1>6, <1>8, <4>2, FlowsFound
    <3> QED
      BY <3>1
  <2>3. \A k \in DOMAIN written.flows : Hashed(B!ReconstructFlows)[k] = Hashed(written.flows)[k]
    <3>1. TAKE k \in DOMAIN written.flows
    <3>2. Hashed(B!ReconstructFlows)[k] = [definition |-> disk.definitions[B!Definition(k[1], k[2])].stable,
                                           meta |-> disk.meta[k[1]]]
      BY <2>2, FlowsFound
    <3>3. Hashed(written.flows)[k] = [definition |-> written.flows[k].definition.stable, meta |-> written.flows[k].meta]
      BY <1>1, WrittenFlows
    <3> QED
      BY <1>6, <3>2, <3>3
  <2>4. DOMAIN B!ReconstructFlows = DOMAIN written.flows
    BY <2>1, <2>2
  <2>5. \A f : Hashed(f) = [k \in DOMAIN f |-> Hashed(f)[k]]
    BY DEF Hashed
  <2> QED
    BY <2>3, <2>4, <2>5
<1>12. B!ReconstructGraph = written.graph
  <2>1. disk.graph = written.graph /\ written.graph \subseteq B!Graphs
    BY <1>1, <1>2, Fields DEF Holds
  <2> QED
    BY <2>1, BundleAssumption DEF B!ReconstructGraph
<1>13. B!ReconstructAssets = B!ByDigest(written.assets)
  <2>1. /\ B!ByDigest(written.assets) \in Usage
        /\ DOMAIN B!ByDigest(written.assets) = {a[2] : a \in DOMAIN written.assets}
    BY <1>1, Fields, ByDigestIs
  <2>2. CASE DOMAIN written.assets = {}
    <3>1. disk.index = {}
      BY <1>1, <1>2, <2>2 DEF Index
    <3>2. B!ReconstructAssets = B!Empty
      BY <3>1 DEF B!ReconstructAssets
    <3>3. B!ByDigest(written.assets) = [x \in {} |-> {}]
      BY <2>1, <2>2 DEF B!ByDigest
    <3> QED
      BY <3>2, <3>3 DEF B!Empty
  <2>3. CASE DOMAIN written.assets # {}
    <3>1. disk.index = {B!ByDigest(written.assets)} /\ B!ByDigest(written.assets) # Garbled
      BY <1>1, <1>2, <2>1, <2>3, BundleAssumption DEF Index
    <3>2. B!ReconstructAssets = CHOOSE i \in {B!ByDigest(written.assets)} : TRUE
      BY <3>1 DEF B!ReconstructAssets
    <3> QED
      BY <3>2
  <2> QED
    BY <2>2, <2>3
<1>14. [id \in DOMAIN B!ReconstructResources |-> B!ReconstructResources[id].stable]
         = [id \in DOMAIN written.resources |-> written.resources[id].stable]
  <2>1. /\ DOMAIN B!ReconstructResources = DOMAIN disk.resources
        /\ \A id \in DOMAIN disk.resources : B!ReconstructResources[id] = disk.resources[id]
    <3>1. {id \in DOMAIN disk.resources : disk.resources[id] # Garbled} = DOMAIN disk.resources
      BY <1>9
    <3> QED
      BY <3>1 DEF B!ReconstructResources, B!Restrict
  <2>2. Stable(disk) = [id \in DOMAIN B!ReconstructResources |-> B!ReconstructResources[id].stable]
    BY <1>9, <2>1 DEF Stable
  <2>3. Stable(s) = [id \in DOMAIN written.resources |-> written.resources[id].stable]
    <3>1. s.resources = written.resources
      BY <1>1 DEF Holds
    <3>2. \A id \in DOMAIN written.resources : written.resources[id] # Garbled
      BY <1>1, Fields, PartialIs, BundleAssumption
    <3> QED
      BY <3>1, <3>2 DEF Stable
  <2> QED
    BY <1>2, <2>2, <2>3
<1>15. B!Canonical(Record) = B!Canonical(B!Reconstructed)
  BY <1>1, <1>11, <1>12, <1>13, <1>14, HashesAgree
<1>16. B!Counts(Record) = B!Counts(B!Reconstructed)
  BY <1>1, <1>15, CountsAgree
<1> QED
  BY <1>4, <1>5, <1>10, <1>15, <1>16 DEF Accepted

LEMMA BundleIsVerified == ASSUME SealInv, B!VerifyBundle PROVE SealInv'
<1>1. /\ sealed # {} /\ written' = written /\ writes' = writes /\ disk' = disk /\ sealed' = sealed
  BY DEF B!VerifyBundle
<1>2. PICK s \in sealed : TRUE
  BY <1>1
<1>3. sealed = {s} /\ Copied(disk)
  BY SealedIs
<1> DEFINE codes == IF disk.manifest = {} THEN {"MANIFEST_MISSING"} ELSE UNION {B!Findings(m) : m \in disk.manifest}
<1>4. verified' = {codes}
  BY DEF B!VerifyBundle
<1>5. B!Intact <=> SameFiles(disk, s) /\ SameDefinitions(disk, s)
  BY <1>3, IntactIs
<1>6. codes = {} <=> B!Intact
  <2>1. CASE disk.manifest = {}
    <3>1. ~B!Intact
      BY <1>5, <2>1, IntactIsExact
    <3> QED
      BY <2>1, <3>1
  <2>2. CASE disk.manifest # {}
    <3>1. PICK m : disk.manifest = {m}
      <4>1. PICK m \in disk.manifest : TRUE
        BY <2>2
      <4>2. AtMostOne(disk.manifest)
        BY <1>3 DEF Copied
      <4>3. disk.manifest = {m}
        BY <4>1, <4>2 DEF AtMostOne
      <4> QED
        BY <4>3
    <3>2. codes = B!Findings(m)
      BY <3>1
    <3>3. codes = {} <=> Accepted(m)
      BY <3>2, FindingsAre
    <3>4. Accepted(m) => B!Intact
      BY <1>5, <3>1, ExactIsIntact
    <3>5. B!Intact => Accepted(m)
      BY <1>5, <3>1, IntactIsExact
    <3> QED
      BY <3>3, <3>4, <3>5
  <2> QED
    BY <2>1, <2>2
<1>7. B!Intact' <=> B!Intact
  BY <1>1 DEF B!Intact, B!Covered
<1>8. SealHolds'
  BY <1>4, <1>6, <1>7 DEF SealHolds, B!SealHolds
<1>9. Record' = Record /\ Index' = Index /\ \A k : Path(k)' = Path(k)
  BY <1>1 DEF Record, Index, Path
<1>10. Copied(disk)'
  BY <1>1, <1>3, <1>9 DEF Copied
<1>11. \A d0 \in sealed' : SealedAs(d0)'
  BY <1>1, <1>9 DEF SealInv, SealedAs, Holds
<1>12. AtMostOne(written.graph)' /\ AtMostOne(sealed)'
  BY <1>1 DEF SealInv, AtMostOne
<1> QED
  BY <1>1, <1>8, <1>10, <1>11, <1>12 DEF SealInv

LEMMA SealStep == ASSUME SealInv, B!Next \/ UNCHANGED bundleSeal PROVE SealInv'
<1>0. \A text \in Texts : B!AsCaptured(text) \in Bodies
  BY DEF B!AsCaptured, Bodies
<1>1. CASE \E f \in Flows, v \in Versions, text \in Texts, format \in Formats :
             B!WriteFlow(f, v, B!AsCaptured(text), [format |-> format])
  BY <1>0, <1>1, FlowIsWritten
<1>2. CASE \E id \in Resources, text \in Texts : B!WriteResource(id, B!AsCaptured(text))
  BY <1>0, <1>2, ResourceIsWritten
<1>3. CASE \E x \in Digests, w \in Users : B!PutAsset(x, w)
  BY <1>3, AssetIsPut
<1>4. CASE \E g \in B!Graphs : B!WriteResourceGraph(g)
  BY <1>4, GraphIsWritten
<1>5. CASE B!Seal
  BY <1>5, BundleIsSealed
<1>6. CASE \/ B!DefinitionDamaged \/ B!FlowMetaDamaged \/ B!OlderCopyMerged \/ B!FlowLost
           \/ B!ResourceDamaged \/ B!GraphDamaged \/ B!IndexDamaged \/ B!AssetDamaged \/ B!ManifestDamaged
  BY <1>6, DefinitionIsDamaged, FlowMetaIsDamaged, OlderCopyIsMerged, FlowIsLost, ResourceIsDamaged,
     GraphIsDamaged, IndexIsDamaged, AssetIsDamaged, ManifestIsDamaged
<1>7. CASE B!VerifyBundle
  BY <1>7, BundleIsVerified
<1>8. CASE UNCHANGED bundleSeal
  <2>1. /\ written' = written /\ writes' = writes /\ disk' = disk /\ sealed' = sealed /\ verified' = verified
    BY <1>8 DEF bundleSeal
  <2>2. Record' = Record /\ Index' = Index /\ \A k : Path(k)' = Path(k)
    BY <2>1 DEF Record, Index, Path
  <2>3. Copied(disk)' <=> Copied(disk)
    BY <2>1, <2>2 DEF Copied
  <2>4. (\A s \in sealed : SealedAs(s))' <=> (\A s \in sealed : SealedAs(s))
    BY <2>1, <2>2 DEF SealedAs, Holds
  <2>5. SealHolds' <=> SealHolds
    BY <2>1 DEF SealHolds, B!SealHolds, B!Intact, B!Covered
  <2>6. (Holds(disk)' <=> Holds(disk)) /\ (AtMostOne(written.graph)' <=> AtMostOne(written.graph))
        /\ (AtMostOne(sealed)' <=> AtMostOne(sealed))
    BY <2>1, <2>2 DEF Holds, AtMostOne
  <2> QED
    BY <2>1, <2>3, <2>4, <2>5, <2>6 DEF SealInv
<1> QED
  BY <1>1, <1>2, <1>3, <1>4, <1>5, <1>6, <1>7, <1>8 DEF B!Next

LEMMA RecordsStep ==
  ASSUME [RecordsNext]_<<subject, documentSet, swap, bundleSeal, claims, diff, analysis>>
  PROVE  B!Next \/ UNCHANGED bundleSeal
BY DEF RecordsNext

\* packages/capture/src/bundle-verifier.ts: whatever was written, and whatever became of the
\* copy, verifyBundle reports nothing exactly when what the seal covers is what was sealed.
THEOREM VerificationIsOfTheContent == RecordsSpec => []SealHolds
<1>1. RecordsInit => SealInv
  BY SealStarts DEF RecordsInit
<1>2. SealInv /\ [RecordsNext]_<<subject, documentSet, swap, bundleSeal, claims, diff, analysis>> => SealInv'
  BY RecordsStep, SealStep
<1>3. SealInv => SealHolds
  BY DEF SealInv
<1> QED
  BY <1>1, <1>2, <1>3, PTL DEF RecordsSpec

-----------------------------------------------------------------------------
(* What is kept of a draft *)

Largest(s) == CHOOSE x \in s : \A y \in s : x >= y

\* One claim more: b holds the limits, the claims and the verdicts on them.
Nothing == [kept |-> <<>>, chars |-> 0, rejections |-> <<>>]
VerdictOn(b, acc, i) ==
  IF Len(acc.kept) >= b.maxClaims THEN b.code
  ELSE IF b.verdicts[i] # "accepted" THEN b.verdicts[i]
  ELSE IF acc.chars + b.claims[i].size > b.maxChars THEN b.code ELSE "accepted"
Step(b, acc, i) ==
  IF VerdictOn(b, acc, i) = "accepted"
    THEN [acc EXCEPT !.kept = Append(@, b.claims[i]), !.chars = @ + b.claims[i].size]
    ELSE [acc EXCEPT !.rejections = Append(@, VerdictOn(b, acc, i))]

\* h is what is kept of each set of claims in ss, a set of sets of places in a draft.
Position(d, s) == [i \in d |-> i][Largest(s)]
Fewer(s) == s \ {Largest(s)}
Budgeting(b, d, ss, h) ==
  h = [s \in ss |-> IF s = {} THEN Nothing ELSE Step(b, h[Fewer(s)], Position(d, s))]

LEMMA BudgetingIs ==
  ASSUME NEW b, NEW d, NEW ss, NEW h, Budgeting(b, d, ss, h)
  PROVE  \A s \in ss : h[s] = IF s = {} THEN Nothing ELSE Step(b, h[Fewer(s)], Position(d, s))
  BY DEF Budgeting

LEMMA LargestOf == ASSUME NEW n \in Nat, NEW s \in SUBSET (1..n), n \in s PROVE Largest(s) = n
<1>1. \A y \in s : n >= y
  OBVIOUS
<1>2. Largest(s) \in s /\ \A y \in s : Largest(s) >= y
  BY <1>1 DEF Largest
<1>3. Largest(s) \in 1..n /\ Largest(s) >= n
  BY <1>2
<1>. QED
  BY <1>3

LEMMA Budgetable == ASSUME NEW b, NEW d PROVE \A n \in Nat : \E h : Budgeting(b, d, SUBSET (1..n), h)
<1>. DEFINE T == {n \in Nat : ~ \E h : Budgeting(b, d, SUBSET (1..n), h)}
<1>. SUFFICES ASSUME T # {} PROVE FALSE
  OBVIOUS
<1>1. PICK n \in T : \A m \in T : n <= m
  <2>. T \subseteq Nat
    OBVIOUS
  <2>. HIDE DEF T
  <2>. QED
    BY Least
<1>2. n \in Nat /\ ~ \E h : Budgeting(b, d, SUBSET (1..n), h)
  OBVIOUS
<1>3. n # 0
  <2>. DEFINE h == [s \in SUBSET (1..0) |-> Nothing]
  <2>1. \A s \in SUBSET (1..0) : s = {}
    OBVIOUS
  <2>2. h = [s \in SUBSET (1..0) |-> IF s = {} THEN Nothing ELSE Step(b, h[Fewer(s)], Position(d, s))]
    BY <2>1
  <2>3. Budgeting(b, d, SUBSET (1..0), h)
    <3>. HIDE DEF h
    <3>. QED
      BY <2>2 DEF Budgeting
  <2>. HIDE DEF h
  <2>. QED
    BY <1>2, <2>3
<1>4. PICK h : Budgeting(b, d, SUBSET (1..(n - 1)), h)
  <2>1. n - 1 \in Nat /\ ~(n <= n - 1)
    BY <1>2, <1>3
  <2>2. n - 1 \notin T
    <3>. HIDE DEF T
    <3>. QED
      BY <1>1, <2>1
  <2>. QED
    BY <2>1, <2>2
<1>. DEFINE g == [s \in SUBSET (1..n) |-> IF s = {} THEN Nothing ELSE Step(b, h[Fewer(s)], Position(d, s))]
<1>5. \A t \in SUBSET (1..n) : n \notin t => g[t] = h[t]
  <2>1. \A t \in SUBSET (1..(n - 1)) : h[t] = IF t = {} THEN Nothing ELSE Step(b, h[Fewer(t)], Position(d, t))
    <3>. DEFINE ss == SUBSET (1..(n - 1))
    <3>1. Budgeting(b, d, ss, h)
      BY <1>4
    <3>2. \A s \in ss : h[s] = IF s = {} THEN Nothing ELSE Step(b, h[Fewer(s)], Position(d, s))
      <4>. HIDE DEF ss
      <4>. QED
        BY <3>1, BudgetingIs
    <3>. QED
      BY <3>2
  <2>2. \A t \in SUBSET (1..n) : n \notin t => t \in SUBSET (1..(n - 1))
    BY <1>2, <1>3
  <2>. QED
    BY <2>1, <2>2
<1>6. \A s \in SUBSET (1..n) : s # {} => Fewer(s) \in SUBSET (1..n) /\ n \notin Fewer(s)
  BY <1>2, LargestOf DEF Fewer
<1>. DEFINE k == [s \in SUBSET (1..n) |-> IF s = {} THEN Nothing ELSE Step(b, g[Fewer(s)], Position(d, s))]
<1>7. \A s \in SUBSET (1..n) : g[s] = k[s]
  <2>1. \A s \in SUBSET (1..n) : s # {} => g[Fewer(s)] = h[Fewer(s)]
    <3>. HIDE DEF g
    <3>. QED
      BY <1>5, <1>6
  <2>2. \A s \in SUBSET (1..n) : g[s] = IF s = {} THEN Nothing ELSE Step(b, h[Fewer(s)], Position(d, s))
    OBVIOUS
  <2>. HIDE DEF g
  <2>. QED
    BY <2>1, <2>2
<1>8. g = [s \in SUBSET (1..n) |-> g[s]] /\ k = [s \in SUBSET (1..n) |-> k[s]]
  OBVIOUS
<1>9. g = k
  <2>. HIDE DEF g, k
  <2>. QED
    BY <1>7, <1>8
<1>10. Budgeting(b, d, SUBSET (1..n), g)
  <2>. HIDE DEF g
  <2>. QED
    BY <1>9 DEF Budgeting
<1>. HIDE DEF g
<1>. QED
  BY <1>2, <1>10

\* The budget as a run over the claims, one after the other.
Budget(maxClaims, maxChars, code, claimed, verdicts) ==
  [maxClaims |-> maxClaims, maxChars |-> maxChars, code |-> code, claims |-> claimed, verdicts |-> verdicts]

\* r is reached from nothing by n claims, the states on the way held by h.
RunOf(h, b, n, r) ==
  r = h[1..n] /\ h[1..0] = Nothing /\ \A k \in 1..n : h[1..k] = Step(b, h[1..(k - 1)], k)

LEMMA BudgetedIs ==
  ASSUME NEW maxClaims, NEW maxChars, NEW code, NEW X, NEW claimed \in Seq(X), NEW verdicts
  PROVE  \E h : RunOf(h, Budget(maxClaims, maxChars, code, claimed, verdicts), Len(claimed),
                      C!Budgeted(maxClaims, maxChars, code, claimed, verdicts))
<1>. DEFINE b == Budget(maxClaims, maxChars, code, claimed, verdicts)
            d == DOMAIN claimed
            n == Len(claimed)
            h == CHOOSE f : Budgeting(b, d, SUBSET (1..n), f)
<1>1. n \in Nat /\ d = 1..n
  OBVIOUS
<1>2. \A s : C!Max(s) = Largest(s)
  BY DEF C!Max, Largest
<1>3. \A acc, i : Step(b, acc, i)
        = LET found == IF Len(acc.kept) >= maxClaims THEN code
                       ELSE IF verdicts[i] # "accepted" THEN verdicts[i]
                       ELSE IF acc.chars + claimed[i].size > maxChars THEN code ELSE "accepted"
          IN IF found = "accepted"
               THEN [acc EXCEPT !.kept = Append(@, claimed[i]), !.chars = @ + claimed[i].size]
               ELSE [acc EXCEPT !.rejections = Append(@, found)]
  BY DEF Step, VerdictOn, Budget
<1>4. C!Budgeted(maxClaims, maxChars, code, claimed, verdicts) = h[d]
  BY <1>1, SMTT(40) DEF C!Budgeted, C!FoldLeft, C!MapThenFoldSet, C!Max, Budgeting, Budget, Step, VerdictOn, Nothing,
                        Largest, Position, Fewer
<1>5. Budgeting(b, d, SUBSET (1..n), h)
  BY <1>1, Budgetable
<1>. HIDE DEF h, b
<1>6. \A s \in SUBSET (1..n) : h[s] = IF s = {} THEN Nothing ELSE Step(b, h[Fewer(s)], Position(d, s))
  <2>. DEFINE ss == SUBSET (1..n)
  <2>1. Budgeting(b, d, ss, h)
    BY <1>5
  <2>2. \A s \in ss : h[s] = IF s = {} THEN Nothing ELSE Step(b, h[Fewer(s)], Position(d, s))
    <3>. HIDE DEF ss
    <3>. QED
      BY <2>1, BudgetingIs
  <2>. QED
    BY <2>2
<1>7. h[1..0] = Nothing
  <2>1. 1..0 = {} /\ {} \in SUBSET (1..n)
    OBVIOUS
  <2>. QED
    BY <1>6, <2>1
<1>8. \A k \in 1..n : h[1..k] = Step(b, h[1..(k - 1)], k)
  <2>. SUFFICES ASSUME NEW k \in 1..n PROVE h[1..k] = Step(b, h[1..(k - 1)], k)
    OBVIOUS
  <2>1. k \in Nat /\ (1..k) \in SUBSET (1..n) /\ k \in 1..k /\ (1..k) \ {k} = 1..(k - 1) /\ 1..k # {}
    <3>. HIDE DEF n
    <3>. QED
      BY <1>1
  <2>2. Largest(1..k) = k
    BY <2>1, LargestOf
  <2>3. Position(d, 1..k) = k /\ Fewer(1..k) = 1..(k - 1)
    BY <1>1, <2>1, <2>2 DEF Position, Fewer
  <2>. HIDE DEF d, n
  <2>. QED
    BY <1>6, <2>1, <2>3
<1>. QED
  BY <1>1, <1>4, <1>7, <1>8 DEF RunOf, b

\* What a budget keeps and what it turns away: a claim each, in the limits, and nothing is
\* kept that was not accepted.
Outcomes(X, Y) == [kept : Seq(X), chars : Nat, rejections : Seq(Y)]

Within(b, acc, X, Y) ==
  acc \in Outcomes(X, Y) /\ Len(acc.kept) <= b.maxClaims /\ acc.chars <= b.maxChars
Proper(b, i, X, Y) ==
  /\ \A c \in X : c.size \in Nat
  /\ b.claims[i] \in X /\ b.code \in Y /\ b.code # "accepted" /\ b.verdicts[i] \in Y
  /\ b.maxClaims \in Nat /\ b.maxChars \in Nat
OneMore(b, i, acc, next) ==
  /\ Len(next.kept) + Len(next.rejections) = Len(acc.kept) + Len(acc.rejections) + 1
  /\ \A x : Listed(next.kept, x) =>
              Listed(acc.kept, x) \/ (x = b.claims[i] /\ b.verdicts[i] = "accepted")

LEMMA StepIs ==
  ASSUME NEW X, NEW Y, NEW b, NEW i, Proper(b, i, X, Y), NEW acc, Within(b, acc, X, Y)
  PROVE  Within(b, Step(b, acc, i), X, Y) /\ OneMore(b, i, acc, Step(b, acc, i))
<1>. DEFINE c == b.claims[i]
            v == VerdictOn(b, acc, i)
            next == Step(b, acc, i)
            kept == acc.kept
            rejections == acc.rejections
<1>1. /\ kept \in Seq(X) /\ acc.chars \in Nat /\ rejections \in Seq(Y)
      /\ acc = [kept |-> kept, chars |-> acc.chars, rejections |-> rejections]
      /\ Len(kept) \in Nat /\ Len(rejections) \in Nat
  BY DEF Within, Outcomes
<1>2. v \in {b.code, b.verdicts[i]} /\ v \in Y
  BY DEF VerdictOn, Proper
<1>3. CASE v = "accepted"
  <2>1. /\ b.verdicts[i] = "accepted" /\ ~(Len(kept) >= b.maxClaims) /\ ~(acc.chars + c.size > b.maxChars)
    BY <1>3 DEF VerdictOn, Proper
  <2>2. next = [kept |-> Append(kept, c), chars |-> acc.chars + c.size, rejections |-> rejections]
    BY <1>1, <1>3 DEF Step
  <2>. HIDE DEF v, kept, rejections, next
  <2>3. c \in X /\ c.size \in Nat /\ b.maxClaims \in Nat /\ b.maxChars \in Nat
    BY DEF Proper
  <2>. HIDE DEF c
  <2>4. /\ Append(kept, c) \in Seq(X) /\ Len(Append(kept, c)) = Len(kept) + 1
        /\ \A j \in 1..Len(kept) : Append(kept, c)[j] = kept[j]
        /\ Append(kept, c)[Len(kept) + 1] = c
    BY <1>1, <2>3, AppendProperties
  <2>5. \A x : Listed(Append(kept, c), x) => Listed(kept, x) \/ x = c
    <3>1. DOMAIN Append(kept, c) = 1..(Len(kept) + 1) /\ DOMAIN kept = 1..Len(kept)
      BY <1>1, <2>4
    <3>2. \A j \in 1..(Len(kept) + 1) : j \in 1..Len(kept) \/ j = Len(kept) + 1
      BY <1>1
    <3>. QED
      BY <2>4, <3>1, <3>2 DEF Listed
  <2>6. next \in Outcomes(X, Y) /\ next.chars <= b.maxChars
    BY <1>1, <2>1, <2>2, <2>3, <2>4 DEF Outcomes
  <2>7. /\ Len(next.kept) <= b.maxClaims
        /\ Len(next.kept) + Len(next.rejections) = Len(kept) + Len(rejections) + 1
    BY <1>1, <2>1, <2>2, <2>3, <2>4
  <2>8. next.kept = Append(kept, c)
    BY <2>2
  <2>. USE DEF kept, rejections, c, next
  <2>. QED
    BY <2>1, <2>5, <2>6, <2>7, <2>8, Zenon DEF Within, OneMore
<1>4. CASE v # "accepted"
  <2>1. next = [kept |-> kept, chars |-> acc.chars, rejections |-> Append(rejections, v)]
    BY <1>1, <1>4 DEF Step
  <2>2. v \in Y /\ Len(kept) <= b.maxClaims /\ acc.chars <= b.maxChars
    BY <1>2 DEF Within
  <2>. HIDE DEF v, kept, rejections, next
  <2>3. Append(rejections, v) \in Seq(Y) /\ Len(Append(rejections, v)) = Len(rejections) + 1
    BY <1>1, <2>2, AppendProperties
  <2>4. next \in Outcomes(X, Y) /\ next.kept = kept /\ next.chars = acc.chars /\ next.rejections = Append(rejections, v)
    BY <1>1, <2>1, <2>3 DEF Outcomes
  <2>5. Len(kept) + (Len(rejections) + 1) = Len(kept) + Len(rejections) + 1
    BY <1>1
  <2>. USE DEF kept, rejections, next
  <2>. QED
    BY <2>2, <2>3, <2>4, <2>5 DEF Within, OneMore
<1>. QED
  BY <1>3, <1>4

\* Limits and claims a budget is about.
Bounded(maxClaims, maxChars, code, X, Y) ==
  /\ maxClaims \in Nat /\ maxChars \in Nat /\ code \in Y /\ code # "accepted"
  /\ \A c \in X : c.size \in Nat

\* What r keeps of the claims, and what it turns away.
KeptOf(r, maxClaims, maxChars, claimed, verdicts, X, Y) ==
  /\ r \in Outcomes(X, Y) /\ Len(r.kept) <= maxClaims /\ r.chars <= maxChars
  /\ Len(r.kept) + Len(r.rejections) = Len(claimed)
  /\ \A x : Listed(r.kept, x) => \E i \in DOMAIN claimed : x = claimed[i] /\ verdicts[i] = "accepted"

LEMMA BudgetHolds ==
  ASSUME NEW maxClaims, NEW maxChars, NEW code, NEW X, NEW Y, Bounded(maxClaims, maxChars, code, X, Y),
         NEW claimed \in Seq(X), NEW verdicts, \A i \in DOMAIN claimed : verdicts[i] \in Y
  PROVE  KeptOf(C!Budgeted(maxClaims, maxChars, code, claimed, verdicts),
                maxClaims, maxChars, claimed, verdicts, X, Y)
<1>. DEFINE b == Budget(maxClaims, maxChars, code, claimed, verdicts)
            n == Len(claimed)
            r == C!Budgeted(maxClaims, maxChars, code, claimed, verdicts)
<1>1. PICK h : RunOf(h, b, n, r)
  <2>1. \E h : RunOf(h, Budget(maxClaims, maxChars, code, claimed, verdicts), Len(claimed),
                    C!Budgeted(maxClaims, maxChars, code, claimed, verdicts))
    BY BudgetedIs
  <2>. QED
    BY <2>1
<1>. HIDE DEF r
<1>2. n \in Nat /\ DOMAIN claimed = 1..n /\ \A i \in 1..n : claimed[i] \in X
  OBVIOUS
<1>. DEFINE Kept(acc, k) ==
              /\ Within(b, acc, X, Y)
              /\ Len(acc.kept) + Len(acc.rejections) = k
              /\ \A x : Listed(acc.kept, x) => \E i \in 1..k : x = claimed[i] /\ verdicts[i] = "accepted"
            T == {k \in 0..n : ~Kept(h[1..k], k)}
<1>3. Kept(Nothing, 0)
  BY DEF Within, Outcomes, Nothing, Bounded, Budget, Listed
<1>4. ASSUME NEW k \in 1..n, Kept(h[1..(k - 1)], k - 1) PROVE Kept(h[1..k], k)
  <2>. DEFINE acc == h[1..(k - 1)]
              next == h[1..k]
  <2>1. next = Step(b, acc, k)
    BY <1>1 DEF RunOf
  <2>2. b.claims[k] = claimed[k] /\ b.verdicts[k] = verdicts[k]
    BY DEF Budget
  <2>3. Proper(b, k, X, Y)
    BY <1>2 DEF Bounded, Proper, Budget
  <2>4. /\ Within(b, acc, X, Y) /\ Len(acc.kept) + Len(acc.rejections) = k - 1
        /\ \A x : Listed(acc.kept, x) => \E i \in 1..(k - 1) : x = claimed[i] /\ verdicts[i] = "accepted"
    BY <1>4
  <2>. HIDE DEF acc, next, b, Kept
  <2>5. Within(b, next, X, Y) /\ OneMore(b, k, acc, next)
    BY <2>1, <2>3, <2>4, StepIs
  <2>6. \A i \in 1..(k - 1) : i \in 1..k
    BY <1>2
  <2>7. k \in 1..k /\ (k - 1) + 1 = k
    BY <1>2
  <2>8. \A x : Listed(next.kept, x) => \E i \in 1..k : x = claimed[i] /\ verdicts[i] = "accepted"
    BY <2>2, <2>4, <2>5, <2>6, <2>7 DEF OneMore
  <2>9. Len(next.kept) + Len(next.rejections) = k
    BY <2>4, <2>5, <2>7 DEF OneMore
  <2>. QED
    BY <2>5, <2>8, <2>9 DEF Kept, next
<1>. HIDE DEF Kept
<1>5. T = {}
  <2>. SUFFICES ASSUME T # {} PROVE FALSE
    OBVIOUS
  <2>1. PICK k \in T : \A j \in T : k <= j
    <3>. T \subseteq Nat
      BY <1>2
    <3>. HIDE DEF T
    <3>. QED
      BY Least
  <2>2. k \in 0..n /\ ~Kept(h[1..k], k)
    OBVIOUS
  <2>3. k # 0
    BY <1>1, <1>3, <2>2 DEF RunOf
  <2>4. k \in 1..n /\ k - 1 \in 0..n /\ ~(k <= k - 1)
    BY <1>2, <2>2, <2>3
  <2>5. k - 1 \notin T
    <3>. HIDE DEF T
    <3>. QED
      BY <2>1, <2>4
  <2>. QED
    BY <1>4, <2>2, <2>4, <2>5
<1>6. Kept(h[1..n], n)
  BY <1>2, <1>5
<1>. QED
  BY <1>1, <1>2, <1>6 DEF Kept, KeptOf, RunOf, Within, Budget, r

\* The lengths of lists put one after the other.
Chained(X, ss, n, f) ==
  /\ FlattenSeq(ss) = f[n] /\ f[1] = ss[1]
  /\ \A m \in 1..n : f[m] \in Seq(X) /\ (m # 1 => f[m] = f[m - 1] \o ss[m])

LEMMA FlattenedIs ==
  ASSUME NEW X, NEW ss \in Seq(Seq(X)), Len(ss) # 0
  PROVE  \E f : Chained(X, ss, Len(ss), f)
<1>. DEFINE n == Len(ss)
            f == CHOOSE g : Joined(ss, Len(ss), g)
<1>1. n \in Nat \ {0} /\ DOMAIN ss = 1..n /\ \A i \in 1..n : ss[i] \in Seq(X)
  OBVIOUS
<1>2. Joined(ss, Len(ss), f)
  <2>1. \E g : Joined(ss, Len(ss), g)
    BY <1>1, Joinable
  <2>. QED
    BY <2>1
<1>3. FlattenSeq(ss) = f[Len(ss)]
  BY DEF FlattenSeq, Joined
<1>. HIDE DEF f
<1>4. \A m \in 1..n : f[m] = IF m = 1 THEN ss[m] ELSE f[m - 1] \o ss[m]
  BY <1>1, <1>2 DEF Joined
<1>. HIDE DEF n
<1>. DEFINE T == {m \in 1..n : f[m] \notin Seq(X)}
<1>5. T = {}
  <2>. SUFFICES ASSUME T # {} PROVE FALSE
    OBVIOUS
  <2>1. PICK m \in T : \A j \in T : m <= j
    <3>. T \subseteq Nat
      BY <1>1
    <3>. HIDE DEF T
    <3>. QED
      BY Least
  <2>2. m \in 1..n /\ f[m] \notin Seq(X)
    OBVIOUS
  <2>3. m # 1
    BY <1>1, <1>4, <2>2
  <2>4. m - 1 \in 1..n /\ ~(m <= m - 1)
    BY <1>1, <2>2, <2>3
  <2>5. m - 1 \notin T
    <3>. HIDE DEF T
    <3>. QED
      BY <2>1, <2>4
  <2>6. f[m - 1] \in Seq(X) /\ ss[m] \in Seq(X) /\ f[m] = f[m - 1] \o ss[m]
    BY <1>1, <1>4, <2>2, <2>3, <2>4, <2>5
  <2>7. f[m - 1] \o ss[m] \in Seq(X)
    <3>. DEFINE u == f[m - 1]
                v == ss[m]
    <3>1. u \in Seq(X) /\ v \in Seq(X)
      BY <2>6
    <3>. HIDE DEF u, v
    <3>2. u \o v \in Seq(X)
      BY <3>1, ConcatProperties
    <3>. QED
      BY <3>2 DEF u, v
  <2>. QED
    BY <2>2, <2>6, <2>7
<1>6. f[1] = ss[1]
  BY <1>1, <1>4
<1>. QED
  BY <1>3, <1>4, <1>5, <1>6 DEF n, Chained

\* Part by part, the lists of ss and tt have the elements of those of uu between them.
Shared(ss, tt, uu) ==
  Len(tt) = Len(ss) /\ Len(uu) = Len(ss) /\ \A i \in 1..Len(ss) : Len(ss[i]) + Len(tt[i]) = Len(uu[i])

LEMMA LengthsAdd ==
  ASSUME NEW X, NEW Y, NEW Z, NEW ss \in Seq(Seq(X)), NEW tt \in Seq(Seq(Y)), NEW uu \in Seq(Seq(Z)),
         Shared(ss, tt, uu)
  PROVE  Len(FlattenSeq(ss)) + Len(FlattenSeq(tt)) = Len(FlattenSeq(uu))
<1>. DEFINE n == Len(ss)
<1>3. Len(tt) = n /\ Len(uu) = n /\ \A i \in 1..n : Len(ss[i]) + Len(tt[i]) = Len(uu[i])
  BY DEF Shared
<1>1. CASE n = 0
  <2>1. ss = <<>> /\ tt = <<>> /\ uu = <<>>
    BY <1>1, <1>3, EmptySeq
  <2>2. FlattenSeq(ss) = ss /\ FlattenSeq(tt) = tt /\ FlattenSeq(uu) = uu
    BY <1>1, <1>3 DEF FlattenSeq
  <2>. QED
    BY <2>1, <2>2
<1>2. CASE n # 0
  <2>1. PICK f : Chained(X, ss, Len(ss), f)
    BY <1>2, FlattenedIs
  <2>2. PICK g : Chained(Y, tt, Len(tt), g)
    <3>1. Len(tt) # 0
      BY <1>2, <1>3
    <3>. QED
      BY <3>1, FlattenedIs
  <2>3. PICK h : Chained(Z, uu, Len(uu), h)
    <3>1. Len(uu) # 0
      BY <1>2, <1>3
    <3>. QED
      BY <3>1, FlattenedIs
  <2>4. /\ n \in Nat \ {0} /\ 1 \in 1..n /\ n \in 1..n
        /\ \A i \in 1..n : /\ ss[i] \in Seq(X) /\ tt[i] \in Seq(Y) /\ uu[i] \in Seq(Z)
                           /\ Len(ss[i]) + Len(tt[i]) = Len(uu[i])
    <3>1. n \in Nat \ {0} /\ 1 \in 1..n /\ n \in 1..n
      BY <1>2
    <3>2. \A i \in 1..n : ss[i] \in Seq(X)
      OBVIOUS
    <3>3. \A i \in 1..n : tt[i] \in Seq(Y)
      BY <1>3
    <3>4. \A i \in 1..n : uu[i] \in Seq(Z)
      BY <1>3
    <3>. QED
      BY <1>3, <3>1, <3>2, <3>3, <3>4
  <2>9. Chained(X, ss, n, f) /\ Chained(Y, tt, n, g) /\ Chained(Z, uu, n, h)
    BY <1>3, <2>1, <2>2, <2>3
  <2>. HIDE DEF n
  <2>. DEFINE Adds(m) == Len(f[m]) + Len(g[m]) = Len(h[m])
              T == {m \in 1..n : ~Adds(m)}
  <2>5. ASSUME NEW m \in 1..n, m # 1, Adds(m - 1) PROVE Adds(m)
    <3>1. m - 1 \in 1..n
      BY <2>4, <2>5
    <3>2. /\ f[m - 1] \in Seq(X) /\ ss[m] \in Seq(X) /\ f[m] = f[m - 1] \o ss[m]
          /\ g[m - 1] \in Seq(Y) /\ tt[m] \in Seq(Y) /\ g[m] = g[m - 1] \o tt[m]
          /\ h[m - 1] \in Seq(Z) /\ uu[m] \in Seq(Z) /\ h[m] = h[m - 1] \o uu[m]
          /\ Len(ss[m]) + Len(tt[m]) = Len(uu[m])
      BY <2>4, <2>5, <2>9, <3>1 DEF Chained
    <3>3. \A S : \A u, v \in Seq(S) : Len(u) \in Nat /\ Len(v) \in Nat /\ Len(u \o v) = Len(u) + Len(v)
      BY ConcatProperties, LenProperties
    <3>4. /\ Len(f[m]) = Len(f[m - 1]) + Len(ss[m]) /\ Len(f[m - 1]) \in Nat /\ Len(ss[m]) \in Nat
          /\ Len(g[m]) = Len(g[m - 1]) + Len(tt[m]) /\ Len(g[m - 1]) \in Nat /\ Len(tt[m]) \in Nat
          /\ Len(h[m]) = Len(h[m - 1]) + Len(uu[m]) /\ Len(h[m - 1]) \in Nat /\ Len(uu[m]) \in Nat
      <4>1. Len(f[m]) = Len(f[m - 1]) + Len(ss[m]) /\ Len(f[m - 1]) \in Nat /\ Len(ss[m]) \in Nat
        BY <3>2, <3>3, Zenon
      <4>2. Len(g[m]) = Len(g[m - 1]) + Len(tt[m]) /\ Len(g[m - 1]) \in Nat /\ Len(tt[m]) \in Nat
        BY <3>2, <3>3, Zenon
      <4>3. Len(h[m]) = Len(h[m - 1]) + Len(uu[m]) /\ Len(h[m - 1]) \in Nat /\ Len(uu[m]) \in Nat
        BY <3>2, <3>3, Zenon
      <4>. QED
        BY <4>1, <4>2, <4>3
    <3>5. Len(ss[m]) + Len(tt[m]) = Len(uu[m]) /\ Len(f[m - 1]) + Len(g[m - 1]) = Len(h[m - 1])
      BY <2>5, <3>2
    <3>. DEFINE a == Len(ss[m])
                b == Len(tt[m])
                c == Len(uu[m])
                d == Len(f[m - 1])
                e == Len(g[m - 1])
                k == Len(h[m - 1])
    <3>6. a \in Nat /\ b \in Nat /\ c \in Nat /\ d \in Nat /\ e \in Nat /\ k \in Nat
          /\ a + b = c /\ d + e = k
      BY <3>4, <3>5
    <3>7. Len(f[m]) = d + a /\ Len(g[m]) = e + b /\ Len(h[m]) = k + c
      BY <3>4
    <3>. HIDE DEF a, b, c, d, e, k
    <3>8. (d + a) + (e + b) = k + c
      BY <3>6
    <3>. QED
      BY <3>7, <3>8
  <2>6. Adds(1)
    BY <2>4, <2>9 DEF Chained
  <2>. HIDE DEF Adds
  <2>7. T = {}
    <3>. SUFFICES ASSUME T # {} PROVE FALSE
      OBVIOUS
    <3>1. PICK m \in T : \A j \in T : m <= j
      <4>. T \subseteq Nat
        BY <2>4
      <4>. HIDE DEF T
      <4>. QED
        BY Least
    <3>2. m \in 1..n /\ ~Adds(m)
      OBVIOUS
    <3>3. m # 1
      BY <2>6, <3>2
    <3>4. m - 1 \in 1..n /\ ~(m <= m - 1)
      BY <2>4, <3>2, <3>3
    <3>5. m - 1 \notin T
      <4>. HIDE DEF T
      <4>. QED
        BY <3>1, <3>4
    <3>. QED
      BY <2>5, <3>2, <3>3, <3>4, <3>5
  <2>8. Adds(n)
    BY <2>4, <2>7
  <2>. QED
    BY <2>8, <2>9 DEF Adds, Chained
<1>. QED
  BY <1>1, <1>2

-----------------------------------------------------------------------------
(* A model's draft *)

\* Every claim a model can make, and every verdict on one.
Made == C!Claims \cup C!Plain
Verdicts(p) == {"SECTION_NOT_ALLOWED", "SECTION_TOO_LARGE", "DRAFT_TOO_LARGE", "accepted"}
               \cup {C!Verdict(p, c) : c \in Made}
Drafted == [id : Sections \cup {Strange}, claims : Seq(Made)]

\* What the pack holds of the snapshot.
Supported(p) ==
  /\ p.shown \subseteq C!Items /\ p.evidenceIds \subseteq C!Items
  /\ \A e \in p.subjectIndex : C!Bears(e[1], e[2])

\* What may be said of a claim that is kept.
Grounded(c) ==
  /\ c.evidence \subseteq C!Items /\ c.quote \in C!Items \cup {NoSubject}
  /\ c.kind # "unknown" => c.evidence # {}
  /\ c.kind = "fact" /\ c.subject # NoSubject => \E x \in c.evidence : C!Bears(x, c.subject)

LEMMA MadeIs == \A c \in Made : c.shape # "accepted" /\ c.size \in Nat
<1>1. C!Sound.shape = "ok" /\ C!Sound.size = 1
  BY DEF C!Sound, C!Claim
<1>2. \A c \in C!Claims : c.shape # "accepted" /\ c.size \in Nat
  BY DEF C!Claims, C!Claim
<1>3. \A c \in C!Plain : c.shape # "accepted" /\ c.size \in Nat
  BY DEF C!Plain, C!Sound, C!Claim
<1>. QED
  BY <1>2, <1>3 DEF Made

LEMMA AcceptedIsGrounded ==
  ASSUME NEW p, Supported(p), NEW c \in Made, C!Verdict(p, c) = "accepted"
  PROVE  Grounded(c)
<1>1. c.shape # "accepted"
  BY MadeIs
<1>2. /\ c.quote \in {NoSubject} \cup p.shown /\ c.evidence \subseteq p.evidenceIds
      /\ ~(c.kind # "unknown" /\ c.evidence = {})
      /\ ~(c.kind = "fact" /\ c.subject # NoSubject /\ ~C!SupportsSubject(p, c.evidence, c.subject))
  BY <1>1 DEF C!Verdict
<1>3. C!SupportsSubject(p, c.evidence, c.subject) => \E x \in c.evidence : C!Bears(x, c.subject)
  BY DEF C!SupportsSubject, Supported
<1>. QED
  BY <1>2, <1>3 DEF Supported, Grounded

\* What is kept of the sections of a draft, and of all of them together.
LEMMA SectionHolds ==
  ASSUME NEW p, NEW section \in Drafted, NEW r, r = C!ValidateSection(p, section)
  PROVE  /\ r.kept \in Seq(Made) /\ r.rejections \in Seq(Verdicts(p))
         /\ Len(r.kept) + Len(r.rejections) = IF section.id \in Sections THEN Len(section.claims) ELSE 1
         /\ \A x : Listed(r.kept, x) => x \in Made /\ C!Verdict(p, x) = "accepted"
<1>1. CASE section.id \notin Sections
  <2>1. r = [kept |-> <<>>, chars |-> 0, rejections |-> <<"SECTION_NOT_ALLOWED">>]
    BY <1>1 DEF C!ValidateSection
  <2>2. "SECTION_NOT_ALLOWED" \in Verdicts(p)
    BY DEF Verdicts
  <2>3. <<"SECTION_NOT_ALLOWED">> \in Seq(Verdicts(p)) /\ Len(<<"SECTION_NOT_ALLOWED">>) = 1
    BY <2>2
  <2>. QED
    BY <1>1, <2>1, <2>3 DEF Listed
<1>2. CASE section.id \in Sections
  <2>. DEFINE claimed == section.claims
              verdicts == [i \in DOMAIN section.claims |-> C!Verdict(p, section.claims[i])]
              Y == Verdicts(p)
  <2>1. r = C!Budgeted(MaxKept, MaxChars, "SECTION_TOO_LARGE", claimed, verdicts)
    BY <1>2 DEF C!ValidateSection
  <2>2. claimed \in Seq(Made) /\ \A i \in DOMAIN claimed : claimed[i] \in Made
    BY DEF Drafted
  <2>3. \A i \in DOMAIN claimed : verdicts[i] = C!Verdict(p, claimed[i]) /\ verdicts[i] \in Y
    BY <2>2 DEF Verdicts
  <2>4. Bounded(MaxKept, MaxChars, "SECTION_TOO_LARGE", Made, Y)
    BY MadeIs, RecordsAssumption DEF Bounded, Verdicts
  <2>. HIDE DEF verdicts, Y
  <2>5. KeptOf(r, MaxKept, MaxChars, claimed, verdicts, Made, Y)
    BY <2>1, <2>2, <2>3, <2>4, BudgetHolds
  <2>. QED
    BY <1>2, <2>2, <2>3, <2>5 DEF KeptOf, Outcomes, Y
<1>. QED
  BY <1>1, <1>2

LEMMA ListOf ==
  ASSUME NEW S, NEW s, NEW d \in Seq(S), DOMAIN s = DOMAIN d, s = [i \in DOMAIN d |-> s[i]],
         NEW X, \A i \in DOMAIN d : s[i] \in X
  PROVE  s \in Seq(X) /\ Len(s) = Len(d)
<1>1. Len(d) \in Nat /\ DOMAIN d = 1..Len(d)
  OBVIOUS
<1>2. s \in [1..Len(d) -> X]
  BY <1>1
<1>. QED
  BY <1>1, <1>2

\* What validateNarration makes of the draft.
Parsed(p) == [i \in DOMAIN draft |-> C!ValidateSection(p, draft[i])]
Keeps(p) == [i \in DOMAIN draft |-> Parsed(p)[i].kept]
Rejects(p) == [i \in DOMAIN draft |-> Parsed(p)[i].rejections]
Pooled(p) == C!EnforceDraftBudget(C!FlattenSeq(Keeps(p)))
Validated(p) == [claims |-> Pooled(p).kept, chars |-> Pooled(p).chars,
                 rejections |-> C!FlattenSeq(Rejects(p)) \o Pooled(p).rejections]
Heeded == [i \in DOMAIN draft |-> IF draft[i].id \in Sections THEN draft[i].claims ELSE <<Strange>>]

LEMMA DraftIsValidated ==
  ASSUME NEW p, Supported(p), draft \in Seq(Drafted)
  PROVE  /\ \A c \in C!ToSet(Validated(p).claims) : Grounded(c)
         /\ Len(Validated(p).claims) <= MaxKept /\ Validated(p).chars <= MaxChars
         /\ Len(Validated(p).claims) + Len(Validated(p).rejections) = C!Heard
<1>. DEFINE ss == Keeps(p)
            tt == Rejects(p)
            uu == Heeded
            b == Pooled(p)
            o == Validated(p)
            Share(i) == IF draft[i].id \in Sections THEN Len(draft[i].claims) ELSE 1
            Z == Made \cup {Strange}
            Y == Verdicts(p)
            kept == FlattenSeq(ss)
            verdicts == [i \in DOMAIN kept |-> "accepted"]
<1>1. \A s : C!FlattenSeq(s) = FlattenSeq(s)
  BY DEF C!FlattenSeq, FlattenSeq
<1>2. \A i \in DOMAIN draft : draft[i] \in Drafted
  OBVIOUS
<1>3. \A i \in DOMAIN draft :
        /\ ss[i] \in Seq(Made) /\ tt[i] \in Seq(Y) /\ Len(ss[i]) + Len(tt[i]) = Share(i)
        /\ \A x : Listed(ss[i], x) => x \in Made /\ C!Verdict(p, x) = "accepted"
  <2>. SUFFICES ASSUME NEW i \in DOMAIN draft
                PROVE  /\ ss[i] \in Seq(Made) /\ tt[i] \in Seq(Y) /\ Len(ss[i]) + Len(tt[i]) = Share(i)
                       /\ \A x : Listed(ss[i], x) => x \in Made /\ C!Verdict(p, x) = "accepted"
    OBVIOUS
  <2>. DEFINE section == draft[i]
              r == C!ValidateSection(p, section)
  <2>1. ss[i] = r.kept /\ tt[i] = r.rejections /\ Share(i) = IF section.id \in Sections THEN Len(section.claims) ELSE 1
    BY DEF Keeps, Rejects, Parsed
  <2>2. section \in Drafted
    BY <1>2
  <2>. HIDE DEF section, ss, tt
  <2>3. /\ r.kept \in Seq(Made) /\ r.rejections \in Seq(Verdicts(p))
        /\ Len(r.kept) + Len(r.rejections) = IF section.id \in Sections THEN Len(section.claims) ELSE 1
        /\ \A x : Listed(r.kept, x) => x \in Made /\ C!Verdict(p, x) = "accepted"
    BY <2>2, SectionHolds
  <2>. QED
    BY <2>1, <2>3
<1>4. \A i \in DOMAIN draft : uu[i] \in Seq(Z) /\ Len(uu[i]) = Share(i)
  <2>. SUFFICES ASSUME NEW i \in DOMAIN draft PROVE uu[i] \in Seq(Z) /\ Len(uu[i]) = Share(i)
    OBVIOUS
  <2>1. <<Strange>> \in Seq(Z) /\ Len(<<Strange>>) = 1
    OBVIOUS
  <2>2. draft[i].claims \in Seq(Z)
    <3>1. \A s \in Seq(Made) : s \in Seq(Z)
      OBVIOUS
    <3>. QED
      BY <1>2, <3>1 DEF Drafted
  <2>. QED
    BY <2>1, <2>2 DEF Heeded
<1>5. /\ ss = [i \in DOMAIN draft |-> ss[i]] /\ tt = [i \in DOMAIN draft |-> tt[i]]
      /\ uu = [i \in DOMAIN draft |-> uu[i]]
      /\ DOMAIN ss = DOMAIN draft /\ DOMAIN tt = DOMAIN draft /\ DOMAIN uu = DOMAIN draft
  BY DEF Keeps, Rejects, Heeded
<1>6. C!Heard = Len(FlattenSeq(uu))
  BY <1>1 DEF C!Heard, Heeded
<1>7. /\ b = C!EnforceDraftBudget(kept)
      /\ o.claims = b.kept /\ o.chars = b.chars /\ o.rejections = FlattenSeq(tt) \o b.rejections
  BY <1>1 DEF Pooled, Validated
<1>. HIDE DEF ss, tt, uu, Z, Y, b, o, Share
<1>8. /\ ss \in Seq(Seq(Made)) /\ tt \in Seq(Seq(Y)) /\ uu \in Seq(Seq(Z))
      /\ Len(ss) = Len(draft) /\ Len(tt) = Len(draft) /\ Len(uu) = Len(draft) /\ DOMAIN draft = 1..Len(draft)
  <2>1. ss \in Seq(Seq(Made)) /\ Len(ss) = Len(draft)
    BY <1>3, <1>5, ListOf
  <2>2. tt \in Seq(Seq(Y)) /\ Len(tt) = Len(draft)
    BY <1>3, <1>5, ListOf
  <2>3. uu \in Seq(Seq(Z)) /\ Len(uu) = Len(draft)
    <3>1. \A i \in DOMAIN draft : uu[i] \in Seq(Z)
      BY <1>4
    <3>. QED
      BY <1>5, <3>1, ListOf
  <2>. QED
    BY <2>1, <2>2, <2>3
<1>9. Len(kept) + Len(FlattenSeq(tt)) = Len(FlattenSeq(uu))
  <2>1. Shared(ss, tt, uu)
    BY <1>3, <1>4, <1>8 DEF Shared
  <2>. QED
    BY <1>8, <2>1, LengthsAdd
<1>10. kept \in Seq(Made) /\ \A x : Listed(kept, x) => x \in Made /\ C!Verdict(p, x) = "accepted"
  <2>1. kept \in Seq(Made) /\ \A x : Listed(kept, x) <=> \E k \in DOMAIN ss : Listed(ss[k], x)
    BY <1>8, FlattenLists, Zenon
  <2>. QED
    BY <1>3, <1>5, <2>1
<1>11. FlattenSeq(tt) \in Seq(Y)
  BY <1>8, FlattenLists, Zenon
<1>. HIDE DEF kept
<1>12. b = C!Budgeted(MaxKept, MaxChars, "DRAFT_TOO_LARGE", kept, verdicts)
  BY <1>7 DEF C!EnforceDraftBudget
<1>13. Bounded(MaxKept, MaxChars, "DRAFT_TOO_LARGE", Made, Y)
  BY MadeIs, RecordsAssumption DEF Bounded, Verdicts, Y
<1>14. \A i \in DOMAIN kept : verdicts[i] \in Y
  BY DEF Verdicts, Y
<1>. HIDE DEF verdicts
<1>15. KeptOf(b, MaxKept, MaxChars, kept, verdicts, Made, Y)
  BY <1>10, <1>12, <1>13, <1>14, BudgetHolds
<1>16. /\ b.kept \in Seq(Made) /\ b.rejections \in Seq(Y)
       /\ Len(b.kept) <= MaxKept /\ b.chars <= MaxChars
       /\ Len(b.kept) + Len(b.rejections) = Len(kept)
       /\ \A x : Listed(b.kept, x) => Listed(kept, x)
  BY <1>15 DEF KeptOf, Outcomes, Listed
<1>17. \A c \in C!ToSet(o.claims) : Grounded(c)
  <2>1. \A c \in C!ToSet(o.claims) : Listed(b.kept, c)
    BY <1>7 DEF C!ToSet, Listed
  <2>. QED
    BY <1>10, <1>16, <2>1, AcceptedIsGrounded
<1>18. Len(o.claims) + Len(o.rejections) = C!Heard
  <2>. DEFINE t == FlattenSeq(tt)
              w == b.rejections
  <2>1. Len(t \o w) = Len(t) + Len(w) /\ Len(t) \in Nat /\ Len(w) \in Nat
    <3>1. t \in Seq(Y) /\ w \in Seq(Y)
      BY <1>11, <1>16
    <3>. HIDE DEF t, w
    <3>. QED
      BY <3>1, ConcatProperties, LenProperties
  <2>2. o.claims = b.kept /\ o.rejections = t \o w
    BY <1>7
  <2>3. Len(b.kept) \in Nat /\ Len(kept) \in Nat
    BY <1>10, <1>16
  <2>4. Len(b.kept) + Len(w) = Len(kept) /\ Len(kept) + Len(t) = C!Heard
    BY <1>6, <1>9, <1>16
  <2>. DEFINE x == Len(b.kept)
              y == Len(t)
              z == Len(w)
              k == Len(kept)
  <2>5. Len(o.claims) = x /\ Len(o.rejections) = y + z
    BY <2>1, <2>2
  <2>6. x \in Nat /\ y \in Nat /\ z \in Nat /\ k \in Nat /\ x + z = k /\ k + y = C!Heard
    BY <2>1, <2>3, <2>4
  <2>. HIDE DEF x, y, z, k
  <2>7. x + (y + z) = C!Heard
    BY <2>6
  <2>. QED
    BY <2>5, <2>7
<1>. QED
  BY <1>7, <1>16, <1>17, <1>18 DEF o

\* The snapshot cites its own items, a pack is made of it, and nothing is validated before
\* the model has answered.
ClaimsInv ==
  /\ evidence.entry \subseteq C!Items /\ evidence.terminal \subseteq C!Items
  /\ \A f \in evidence.findings : f.evidence \subseteq C!Items
  /\ \A p \in pack : Supported(p)
  /\ draft \in Seq(Drafted)
  /\ outcome # {} => request = "answered"
  /\ NarrationIsGrounded

LEMMA ItemsAre == C!Items = {0, 1, 2, 3, 4, 5, 6, 7}
  BY DEF C!Items, C!Flow

LEMMA ClaimsStart == ASSUME C!Init PROVE ClaimsInv
<1>1. evidence.entry = {1, 3} /\ evidence.terminal = {1, 3} /\ evidence.findings \in C!FindingSets
  BY DEF C!Init
<1>2. \A s \in C!FindingSets : \A f \in s : f.evidence \subseteq C!Items
  <2>1. \A code, item, cited : C!Finding(code, item, cited).evidence = cited
    BY DEF C!Finding
  <2>2. \A v \in C!CapList({5, 6}, 1) : v \in {5, 6}
    BY DEF C!CapList
  <2>3. /\ \A x \in {4} \cup {5, 6} : {x} \subseteq C!Items
        /\ {1, 2, 3} \subseteq C!Items
    BY ItemsAre
  <2>. SUFFICES ASSUME NEW s \in C!FindingSets, NEW f \in s PROVE f.evidence \subseteq C!Items
    OBVIOUS
  <2>4. \/ s = {}
        \/ \E x \in {4} \cup {5, 6} : s = {C!Finding(1, x, {x})}
        \/ \E v \in C!CapList({5, 6}, 1) : s = {C!Finding(1, NoSubject, {1, 2, 3}), C!Finding(2, v, {v})}
    BY DEF C!FindingSets
  <2>5. \/ \E x \in {4} \cup {5, 6} : f = C!Finding(1, x, {x})
        \/ f = C!Finding(1, NoSubject, {1, 2, 3})
        \/ \E v \in {5, 6} : f = C!Finding(2, v, {v})
    BY <2>2, <2>4
  <2>. QED
    BY <2>1, <2>3, <2>5
<1>3. pack = {} /\ draft = <<>> /\ outcome = {}
  BY DEF C!Init
<1>. QED
  BY <1>1, <1>2, <1>3, ItemsAre DEF ClaimsInv, NarrationIsGrounded, C!NarrationIsGrounded

\* Nothing changes that the pack is made of, and what has been validated stays.
LEMMA ClaimsKeep ==
  ASSUME ClaimsInv, evidence' = evidence, pack' = pack, outcome' = outcome, draft' \in Seq(Drafted),
         outcome # {} => draft' = draft /\ request' = request
  PROVE  ClaimsInv'
<1>1. \A p : Supported(p)' <=> Supported(p)
  BY DEF Supported, C!Bears
<1>2. NarrationIsGrounded'
  <2>1. CASE outcome = {}
    BY <2>1 DEF NarrationIsGrounded, C!NarrationIsGrounded
  <2>2. CASE outcome # {}
    <3>1. draft' = draft
      BY <2>2
    <3>2. C!Heard' = C!Heard /\ \A x, y : C!Bears(x, y)' <=> C!Bears(x, y)
      BY <3>1 DEF C!Heard, C!Bears
    <3>. QED
      BY <3>2 DEF ClaimsInv, NarrationIsGrounded, C!NarrationIsGrounded
  <2>. QED
    BY <2>1, <2>2
<1>. QED
  BY <1>1, <1>2 DEF ClaimsInv

\* A pack shows, and cites, what is the snapshot's.
LEMMA PackIsBuilt == ASSUME ClaimsInv, C!BuildEvidencePack PROVE ClaimsInv'
<1>. DEFINE p == [shown |-> C!Shown \cup {C!Flow}, warnings |-> C!Codes \cap {f.code : f \in C!Warned},
                  evidenceIds |-> {C!Flow} \cup C!Aggregated \cup C!Shown \cup UNION {f.evidence : f \in C!Warned},
                  subjectIndex |-> C!SubjectIndex, truncations |-> C!Truncations]
<1>1. pack' = {p}
  BY DEF C!BuildEvidencePack
<1>2. \A s, n : C!CapList(s, n) \subseteq s
  BY DEF C!CapList
<1>3. C!Shown \subseteq C!Items
  BY <1>2, ItemsAre DEF C!Shown, ClaimsInv
<1>4. C!Aggregated \subseteq {1, 2, 3} \cup {4}
  BY <1>2 DEF C!Aggregated, C!Groups
<1>5. C!Warned \subseteq evidence.findings
  BY DEF C!Warned
<1>6. \A f \in C!Warned : f.evidence \subseteq C!Items
  BY <1>5 DEF ClaimsInv
<1>7. C!Flow \in C!Items /\ {1, 2, 3} \cup {4} \subseteq C!Items
  BY ItemsAre DEF C!Flow
<1>8. \A e \in C!SubjectIndex : C!Bears(e[1], e[2])
  <2>. SUFFICES ASSUME NEW e \in C!SubjectIndex PROVE C!Bears(e[1], e[2])
    OBVIOUS
  <2>1. CASE \E x \in C!Shown \cup {C!Flow} : e = <<x, x>>
    BY <2>1 DEF C!Bears
  <2>2. CASE \E x \in C!Aggregated : e = <<x, C!Flow>>
    <3>1. PICK x \in C!Aggregated : e = <<x, C!Flow>>
      BY <2>2
    <3>2. e[1] = x /\ e[2] = C!Flow /\ x \in {1, 2, 3} \cup {4}
      BY <1>4, <3>1
    <3>. QED
      BY <3>2, Zenon DEF C!Bears
  <2>3. CASE \E f \in C!Warned : \E x \in f.evidence : e = <<x, f.subject>>
    BY <1>5, <2>3 DEF C!Bears
  <2>. QED
    BY <2>1, <2>2, <2>3 DEF C!SubjectIndex
<1>9. p.shown = C!Shown \cup {C!Flow} /\ p.subjectIndex = C!SubjectIndex
      /\ p.evidenceIds = {C!Flow} \cup C!Aggregated \cup C!Shown \cup UNION {f.evidence : f \in C!Warned}
  OBVIOUS
<1>. HIDE DEF p
<1>10. Supported(p)
  <2>1. C!Aggregated \subseteq C!Items /\ UNION {f.evidence : f \in C!Warned} \subseteq C!Items
    BY <1>4, <1>6, <1>7
  <2>2. p.shown \subseteq C!Items
    BY <1>3, <1>7, <1>9
  <2>3. p.evidenceIds \subseteq C!Items
    BY <1>3, <1>7, <1>9, <2>1
  <2>. QED
    BY <1>8, <1>9, <2>2, <2>3 DEF Supported
<1>11. evidence' = evidence /\ draft' = draft /\ outcome' = outcome /\ request' = request
  BY DEF C!BuildEvidencePack
<1>12. \A q : Supported(q)' <=> Supported(q)
  BY <1>11 DEF Supported, C!Bears
<1>13. \A q \in pack' : Supported(q)
  BY <1>1, <1>10
<1>14. NarrationIsGrounded'
  <2>1. C!Heard' = C!Heard /\ \A x, y : C!Bears(x, y)' <=> C!Bears(x, y)
    BY <1>11 DEF C!Heard, C!Bears
  <2>. QED
    BY <1>11, <2>1 DEF ClaimsInv, NarrationIsGrounded, C!NarrationIsGrounded
<1>. QED
  BY <1>11, <1>12, <1>13, <1>14 DEF ClaimsInv

\* A section more, or a claim more of the last one.
LEMMA DraftGrows ==
  ASSUME ClaimsInv, \/ \E id \in Sections \cup {Strange} : C!AnswerSection(id)
                    \/ \E claim \in Made : C!AnswerClaim(claim)
  PROVE  ClaimsInv'
<1>. DEFINE d == draft
            n == Len(d)
<1>1. d \in Seq(Drafted) /\ n \in Nat
  BY DEF ClaimsInv
<1>2. /\ evidence' = evidence /\ pack' = pack /\ outcome' = outcome /\ outcome = {}
      /\ request = "open"
  BY DEF C!AnswerSection, C!AnswerClaim, C!Answer, ClaimsInv
<1>3. draft' \in Seq(Drafted)
  <2>1. CASE \E id \in Sections \cup {Strange} : C!AnswerSection(id)
    <3>1. PICK id \in Sections \cup {Strange} : draft' = Append(d, [id |-> id, claims |-> <<>>])
      BY <2>1 DEF C!AnswerSection, C!Answer
    <3>2. [id |-> id, claims |-> <<>>] \in Drafted
      BY DEF Drafted
    <3>. QED
      BY <1>1, <3>1, <3>2, AppendProperties
  <2>2. CASE \E claim \in Made : C!AnswerClaim(claim)
    <3>1. PICK claim \in Made : /\ d # <<>>
                                /\ draft' = [d EXCEPT ![n].claims = Append(@, claim)]
      BY <2>2 DEF C!AnswerClaim, C!Answer
    <3>. HIDE DEF d
    <3>2. n \in DOMAIN d /\ d[n] \in Drafted
      BY <1>1, <3>1, EmptySeq
    <3>. DEFINE last == [d[n] EXCEPT !.claims = Append(@, claim)]
    <3>3. last \in Drafted
      <4>. DEFINE cs == d[n].claims
      <4>1. cs \in Seq(Made) /\ d[n].id \in Sections \cup {Strange} /\ d[n] = [id |-> d[n].id, claims |-> cs]
        BY <3>2 DEF Drafted
      <4>3. \A e : e = [id |-> e.id, claims |-> e.claims] =>
                    [e EXCEPT !.claims = Append(@, claim)] = [id |-> e.id, claims |-> Append(e.claims, claim)]
        BY SMTT(40)
      <4>4. last = [id |-> d[n].id, claims |-> Append(cs, claim)]
        BY <4>1, <4>3
      <4>. HIDE DEF cs
      <4>2. Append(cs, claim) \in Seq(Made)
        BY <4>1, AppendProperties
      <4>. HIDE DEF last
      <4>. QED
        BY <4>1, <4>2, <4>4 DEF Drafted
    <3>4. draft' = [d EXCEPT ![n] = last]
      BY <3>1
    <3>. HIDE DEF last
    <3>. QED
      BY <1>1, <3>2, <3>3, <3>4
  <2>. QED
    BY <2>1, <2>2
<1>. QED
  BY <1>2, <1>3, ClaimsKeep

\* validateNarration, of a draft that has been answered.
LEMMA OutcomeIsGrounded == ASSUME ClaimsInv, C!ValidateNarration PROVE ClaimsInv'
<1>1. /\ evidence' = evidence /\ pack' = pack /\ draft' = draft /\ request' = request
      /\ request = "answered"
  BY DEF C!ValidateNarration
<1>2. PICK p \in pack : outcome' = {Validated(p)}
  BY DEF C!ValidateNarration, Validated, Pooled, Keeps, Rejects, Parsed
<1>3. Supported(p) /\ draft \in Seq(Drafted)
  BY DEF ClaimsInv
<1>. DEFINE o == Validated(p)
<1>4. /\ \A c \in C!ToSet(o.claims) : Grounded(c)
      /\ Len(o.claims) <= MaxKept /\ o.chars <= MaxChars
      /\ Len(o.claims) + Len(o.rejections) = C!Heard
  BY <1>3, DraftIsValidated
<1>5. C!Heard' = C!Heard /\ \A x, y : C!Bears(x, y)' <=> C!Bears(x, y)
  BY <1>1 DEF C!Heard, C!Bears
<1>6. NarrationIsGrounded'
  <2>. HIDE DEF o
  <2>1. outcome' = {o}
    BY <1>2 DEF o
  <2>. QED
    BY <1>4, <1>5, <2>1 DEF NarrationIsGrounded, C!NarrationIsGrounded, Grounded
<1>7. \A q : Supported(q)' <=> Supported(q)
  BY <1>1 DEF Supported, C!Bears
<1>. QED
  BY <1>1, <1>6, <1>7 DEF ClaimsInv

LEMMA ClaimsStep ==
  ASSUME ClaimsInv, [RecordsNext]_<<subject, documentSet, swap, bundleSeal, claims, diff, analysis>>
  PROVE  ClaimsInv'
<1>1. C!Next \/ UNCHANGED claims
  BY DEF RecordsNext
<1>2. CASE UNCHANGED claims
  BY <1>2, ClaimsKeep DEF claims, ClaimsInv
<1>3. CASE C!BuildEvidencePack
  BY <1>3, PackIsBuilt
<1>4. CASE C!Narrate \/ C!Retry \/ C!Rejected \/ C!Answered
  <2>1. /\ evidence' = evidence /\ pack' = pack /\ outcome' = outcome /\ draft' = draft
        /\ request \in {"idle", "open"}
    BY <1>4 DEF C!Narrate, C!Retry, C!Rejected, C!Answered
  <2>2. outcome = {}
    BY <2>1 DEF ClaimsInv
  <2>. QED
    BY <2>1, <2>2, ClaimsKeep DEF ClaimsInv
<1>5. CASE \/ \E id \in Sections \cup {Strange} : C!AnswerSection(id)
           \/ \E claim \in Made : C!AnswerClaim(claim)
  BY <1>5, DraftGrows
<1>6. CASE C!ValidateNarration
  BY <1>6, OutcomeIsGrounded
<1>. QED
  BY <1>1, <1>2, <1>3, <1>4, <1>5, <1>6 DEF C!Next, Made

\* validateNarration (claim-validator.ts) on the packs that buildEvidencePack makes
\* (evidence-pack.ts): of any draft, however many sections and claims it has, only this
\* reaches a document: claims whose evidence is the snapshot's and bears on their subject,
\* within the budgets; and each claim of an allowed section is kept or turned away with a
\* code.
THEOREM OnlyGroundedClaimsAreKept == RecordsSpec => []NarrationIsGrounded
<1>1. RecordsInit => ClaimsInv
  BY ClaimsStart DEF RecordsInit
<1>2. ClaimsInv /\ [RecordsNext]_<<subject, documentSet, swap, bundleSeal, claims, diff, analysis>> => ClaimsInv'
  BY ClaimsStep
<1>3. ClaimsInv => NarrationIsGrounded
  BY DEF ClaimsInv
<1>. QED
  BY <1>1, <1>2, <1>3, PTL DEF RecordsSpec

-----------------------------------------------------------------------------
(* The flows of the records *)

\* A record's flows and graphs are those of MCFlow, so all that its proofs say of the
\* snapshots and the diff of two versions (normalize.ts, diff.ts, diff-flow.ts), with the
\* limits stated there of what a snapshot has, and of the analysis of a graph
\* (reachability.ts, cycles.ts, journeys.ts) holds here.
THEOREM FlowsOfTheRecords ==
  RecordsSpec => /\ FlowSpec
                 /\ [](EverythingRepresented /\ BehaviourIsReviewed /\ CoverageRegressionBlocks)
                 /\ [](MovementIsNoChange /\ AnalysisIsExact /\ JourneysAreHonest)
<1>1. RecordsInit => FlowInit
  BY DEF RecordsInit
<1>2. [RecordsNext]_<<subject, documentSet, swap, bundleSeal, claims, diff, analysis>> =>
        [FlowNext]_<<subject, diff, analysis>>
  BY DEF RecordsNext
<1>3. RecordsSpec => FlowSpec
  BY <1>1, <1>2, PTL DEF RecordsSpec, FlowSpec
<1> QED
  BY <1>3, NothingIsLeftOutOfASnapshot, BehaviourIsNeverPassedOver, ARegressionBlocks,
     MovingIsNoChange, WalksAreExact, NoJourneyIsMadeUp, PTL
=============================================================================
