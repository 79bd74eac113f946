-------------------------- MODULE DocRun_proofs --------------------------
(***************************************************************************)
(* Proofs about DocRun, for every number of calls, runs, failing saves,    *)
(* crashes and cancellations, whether or not the profile may vanish.       *)
(***************************************************************************)
EXTENDS DocRun, TLAPS

\* The state the manifest shows while the run is at each step of its program.
StateOf ==
  <<"planned", "planned", "queued", "queued", "extracting",
    "extracting", "extracting", "normalizing", "analyzing",
    "rendering", "rendering", "validating", "validating",
    "promoting", "promoting">>

Machines == [runState : RunStates, cancellationRequested : BOOLEAN]
Manifests == [state : RunStates \cup {"none"}, failed : BOOLEAN]
CallSteps == {"idle", "load", "profile", "saving", "returned", "rejected"}

TypeOK ==
  /\ runOf \in 0..minted /\ planCached \in BOOLEAN
  /\ cancel \subseteq Runs /\ cancelling \subseteq Runs
  /\ calls \in [Calls -> [step : CallSteps, run : 0..MaxRuns]]
  /\ manifest \in [Runs -> Manifests] /\ visible \in [Runs -> BOOLEAN]
  /\ at \in [Runs -> 0..Returned]
  /\ io \in [Runs -> {"none", "vacate", "fill"}]
  /\ saving \in [Runs -> Manifests]
  /\ leaving \in [Runs -> {"no", "return", "catch"}]
  /\ machine \in [Runs -> Machines]
  /\ documented \subseteq Runs /\ orphaned \subseteq Runs
  /\ minted \in 0..MaxRuns /\ faults \in 0..MaxFaults /\ crashes \in 0..MaxCrashes /\ cancels \in 0..MaxCancels

\* Nothing was saved of a run whose id is not minted yet, or was just minted.
Fresh(r) == at[r] = 0 /\ io[r] = "none"

\* A minted run belongs to one call until its first save.  A restart forgets the
\* plan: no call is served from then on, and none is left half way.
OneStarter ==
  /\ planCached => \A r \in Runs : r > minted => Fresh(r)
  /\ ~planCached => \A c \in Calls : calls[c].step \in {"idle", "returned", "rejected"}
  /\ \A c \in Calls : calls[c].step = "profile" => calls[c].run \in 1..minted /\ Fresh(calls[c].run)
  /\ \A c, d \in Calls :
       calls[c].step = "profile" /\ calls[d].step = "profile" /\ calls[c].run = calls[d].run => c = d

\* The manifest shows where the run is in its program, the machine agrees with
\* it between two saves, and what is being saved is a step of the machine ahead.
InStep(r) ==
  /\ at[r] = 0 =>
       /\ manifest[r] = NoManifest /\ machine[r] = InitialMachine
       /\ io[r] # "none" => (saving[r].state = "planned" /\ leaving[r] = "no")
  /\ at[r] \in DOMAIN Program => manifest[r].state = StateOf[at[r]]
  /\ at[r] \in DOMAIN Program /\ io[r] = "none" =>
       machine[r] = [runState |-> StateOf[at[r]], cancellationRequested |-> FALSE]
  /\ at[r] \in DOMAIN Program /\ io[r] # "none" =>
       /\ saving[r].state = machine[r].runState
       /\ Succeeds(StateOf[at[r]], machine[r].runState)
       /\ IF leaving[r] = "no"
            THEN /\ at[r] + 1 \in DOMAIN Program
                 /\ machine[r] = [runState |-> StateOf[at[r] + 1], cancellationRequested |-> FALSE]
            ELSE machine[r].runState \in TerminalStates
  /\ at[r] = Returned => io[r] = "none"

\* A run promotes its documents in the last step but one of its program, and has
\* only its end to record from then on.
Documented(r) ==
  r \in documented =>
    \/ at[r] = Returned /\ manifest[r].state \notin {"failed", "cancelled"}
    \/ /\ at[r] = Len(Program)
       /\ io[r] # "none" => machine[r].runState \in {"completed", "completed_with_warnings"}

RunInv(r) == InStep(r) /\ Documented(r)
DocInv == TypeOK /\ OneStarter /\ (\A r \in Runs : RunInv(r))

-----------------------------------------------------------------------------
(* The program, and the machine it drives *)

LEMMA ProgramIs ==
  /\ DOMAIN Program = 1..15 /\ Len(Program) = 15 /\ Returned = 16
  /\ Program[1] = "profile" /\ Program[2] = "ENQUEUE" /\ Program[3] = "checkpoint"
  /\ Program[4] = "BEGIN_EXTRACTING" /\ Program[5] = "capture" /\ Program[6] = "checkpoint"
  /\ Program[7] = "BEGIN_NORMALIZING" /\ Program[8] = "BEGIN_ANALYZING"
  /\ Program[9] = "BEGIN_RENDERING" /\ Program[10] = "checkpoint"
  /\ Program[11] = "BEGIN_VALIDATING" /\ Program[12] = "checkpoint"
  /\ Program[13] = "BEGIN_PROMOTING" /\ Program[14] = "document" /\ Program[15] = "finish"
BY DEF Program, Returned

LEMMA StatesAre ==
  /\ StateOf[1] = "planned" /\ StateOf[2] = "planned" /\ StateOf[3] = "queued"
  /\ StateOf[4] = "queued" /\ StateOf[5] = "extracting" /\ StateOf[6] = "extracting"
  /\ StateOf[7] = "extracting" /\ StateOf[8] = "normalizing" /\ StateOf[9] = "analyzing"
  /\ StateOf[10] = "rendering" /\ StateOf[11] = "rendering" /\ StateOf[12] = "validating"
  /\ StateOf[13] = "validating" /\ StateOf[14] = "promoting" /\ StateOf[15] = "promoting"
BY DEF StateOf

Edge(s, t) == [from |-> s, to |-> t]
LEMMA EdgesAre ==
  /\ LinearEvents =
       {"ENQUEUE", "BEGIN_EXTRACTING", "BEGIN_NORMALIZING", "BEGIN_ANALYZING", "BEGIN_RENDERING",
        "BEGIN_VALIDATING", "BEGIN_PROMOTING", "COMPLETE", "COMPLETE_WITH_WARNINGS"}
  /\ LinearTransitions["ENQUEUE"] = Edge("planned", "queued")
  /\ LinearTransitions["BEGIN_EXTRACTING"] = Edge("queued", "extracting")
  /\ LinearTransitions["BEGIN_NORMALIZING"] = Edge("extracting", "normalizing")
  /\ LinearTransitions["BEGIN_ANALYZING"] = Edge("normalizing", "analyzing")
  /\ LinearTransitions["BEGIN_RENDERING"] = Edge("analyzing", "rendering")
  /\ LinearTransitions["BEGIN_VALIDATING"] = Edge("rendering", "validating")
  /\ LinearTransitions["BEGIN_PROMOTING"] = Edge("validating", "promoting")
  /\ LinearTransitions["COMPLETE"] = Edge("promoting", "completed")
  /\ LinearTransitions["COMPLETE_WITH_WARNINGS"] = Edge("promoting", "completed_with_warnings")
BY DEF LinearEvents, LinearTransitions, Edge

\* Every step of the program but the last goes to the next one, and the state
\* of the run changes along a legal edge exactly where the step is an event.
LEMMA ProgramSteps ==
  ASSUME NEW i \in DOMAIN Program
  PROVE  /\ i \in 1..15 /\ StateOf[i] \in Chain
         /\ i = 15 \/ i + 1 \in DOMAIN Program
         /\ Program[i] \in LinearEvents =>
              /\ i + 1 \in DOMAIN Program
              /\ LinearTransitions[Program[i]] = Edge(StateOf[i], StateOf[i + 1])
              /\ StateOf[i + 1] \in Chain
         /\ Program[i] \in {"profile", "checkpoint", "capture", "document"} =>
              i + 1 \in DOMAIN Program /\ StateOf[i + 1] = StateOf[i]
         /\ (Program[i] = "document" => i = 14) /\ (Program[i] = "finish" => i = 15)
         /\ i = 14 => Program[i] = "document"
<1>1. i \in 1..15
  BY ProgramIs
<1> DEFINE Fact(k) ==
      /\ StateOf[k] \in Chain
      /\ k = 15 \/ k + 1 \in DOMAIN Program
      /\ Program[k] \in LinearEvents =>
           /\ k + 1 \in DOMAIN Program
           /\ LinearTransitions[Program[k]] = Edge(StateOf[k], StateOf[k + 1])
           /\ StateOf[k + 1] \in Chain
      /\ Program[k] \in {"profile", "checkpoint", "capture", "document"} =>
           k + 1 \in DOMAIN Program /\ StateOf[k + 1] = StateOf[k]
      /\ (Program[k] = "document" => k = 14) /\ (Program[k] = "finish" => k = 15)
      /\ k = 14 => Program[k] = "document"
<1>2. Fact(1)
  BY ProgramIs, StatesAre, EdgesAre DEF Chain
<1>3. Fact(2)
  BY ProgramIs, StatesAre, EdgesAre DEF Chain
<1>4. Fact(3)
  BY ProgramIs, StatesAre, EdgesAre DEF Chain
<1>5. Fact(4)
  BY ProgramIs, StatesAre, EdgesAre DEF Chain
<1>6. Fact(5)
  BY ProgramIs, StatesAre, EdgesAre DEF Chain
<1>7. Fact(6)
  BY ProgramIs, StatesAre, EdgesAre DEF Chain
<1>8. Fact(7)
  BY ProgramIs, StatesAre, EdgesAre DEF Chain
<1>9. Fact(8)
  BY ProgramIs, StatesAre, EdgesAre DEF Chain
<1>10. Fact(9)
  BY ProgramIs, StatesAre, EdgesAre DEF Chain
<1>11. Fact(10)
  BY ProgramIs, StatesAre, EdgesAre DEF Chain
<1>12. Fact(11)
  BY ProgramIs, StatesAre, EdgesAre DEF Chain
<1>13. Fact(12)
  BY ProgramIs, StatesAre, EdgesAre DEF Chain
<1>14. Fact(13)
  BY ProgramIs, StatesAre, EdgesAre DEF Chain
<1>15. Fact(14)
  BY ProgramIs, StatesAre, EdgesAre DEF Chain
<1>16. Fact(15)
  BY ProgramIs, StatesAre, EdgesAre DEF Chain
<1> HIDE DEF Fact
<1>17. Fact(i)
  BY <1>1, <1>2, <1>3, <1>4, <1>5, <1>6, <1>7, <1>8, <1>9, <1>10, <1>11, <1>12, <1>13, <1>14,
     <1>15, <1>16
<1>18. QED
  BY <1>1, <1>17 DEF Fact

\* What the transition function gives on a machine.
LEMMA Transitions ==
  ASSUME NEW m \in Machines
  PROVE  /\ \A e \in LinearEvents :
              /\ Transition(m, e) = [m EXCEPT !.runState = LinearTransitions[e].to]
              /\ Legal(m, e) <=> m.runState = LinearTransitions[e].from
         /\ Transition(m, "FAIL") = [m EXCEPT !.runState = "failed"]
         /\ Legal(m, "FAIL") <=> m.runState \notin TerminalStates
         /\ Transition(m, "REQUEST_CANCEL") =
              IF m.runState \in TerminalStates THEN m ELSE [m EXCEPT !.cancellationRequested = TRUE]
         /\ Transition(m, "CHECKPOINT") =
              IF m.cancellationRequested
                THEN [runState |-> "cancelled", cancellationRequested |-> FALSE] ELSE m
<1>1. \A e \in LinearEvents :
        /\ Transition(m, e) = [m EXCEPT !.runState = LinearTransitions[e].to]
        /\ Legal(m, e) <=> m.runState = LinearTransitions[e].from
  <2>1. ASSUME NEW e \in LinearEvents
        PROVE  Transition(m, e) = [m EXCEPT !.runState = LinearTransitions[e].to]
    BY EdgesAre DEF Transition
  <2>2. ASSUME NEW e \in LinearEvents
        PROVE  Legal(m, e) <=> m.runState = LinearTransitions[e].from
    BY DEF Legal
  <2>3. QED
    BY <2>1, <2>2
<1>2. "FAIL" \notin LinearEvents /\ "REQUEST_CANCEL" \notin LinearEvents /\ "CHECKPOINT" \notin LinearEvents
  BY EdgesAre
<1>3. /\ Transition(m, "FAIL") = [m EXCEPT !.runState = "failed"]
      /\ Legal(m, "FAIL") <=> m.runState \notin TerminalStates
  BY <1>2 DEF Transition, Legal
<1>4. Transition(m, "REQUEST_CANCEL") =
        IF m.runState \in TerminalStates THEN m ELSE [m EXCEPT !.cancellationRequested = TRUE]
  BY <1>2 DEF Transition
<1>5. Transition(m, "CHECKPOINT") =
        IF m.cancellationRequested
          THEN [runState |-> "cancelled", cancellationRequested |-> FALSE] ELSE m
  BY <1>2 DEF Transition
<1>6. QED
  BY <1>1, <1>3, <1>4, <1>5

\* The machine of a run that is between two saves.
InStateOf(i) == [runState |-> StateOf[i], cancellationRequested |-> FALSE]

LEMMA StatesDiffer ==
  /\ Chain \cap TerminalStates = {} /\ Chain \subseteq RunStates /\ TerminalStates \subseteq RunStates
  /\ "none" \notin RunStates /\ {"failed", "cancelled"} \subseteq TerminalStates
BY DEF Chain, TerminalStates, RunStates

\* A step of a run that leaves a step of the program for the next leaves it along
\* a legal edge, and the last step ends the run.
LEMMA EdgesSucceed ==
  ASSUME NEW i \in DOMAIN Program
  PROVE  /\ Program[i] \in LinearEvents => Succeeds(StateOf[i], StateOf[i + 1])
         /\ Succeeds(StateOf[i], "failed") /\ Succeeds(StateOf[i], "cancelled")
         /\ i = 15 => Succeeds(StateOf[i], "completed") /\ Succeeds(StateOf[i], "completed_with_warnings")
<1>1. ASSUME Program[i] \in LinearEvents PROVE Succeeds(StateOf[i], StateOf[i + 1])
  BY <1>1, ProgramSteps DEF Succeeds, Edge
<1>2. Succeeds(StateOf[i], "failed") /\ Succeeds(StateOf[i], "cancelled")
  BY ProgramSteps DEF Succeeds
<1>3. ASSUME i = 15
      PROVE  Succeeds(StateOf[i], "completed") /\ Succeeds(StateOf[i], "completed_with_warnings")
  BY <1>3, StatesAre, EdgesAre DEF Succeeds, Edge
<1>4. QED
  BY <1>1, <1>2, <1>3

-----------------------------------------------------------------------------
(* What an action leaves alone *)

\* An action of one run does not touch the others.
OnlyRun(r) ==
  \A s \in Runs \ {r} :
    /\ at'[s] = at[s] /\ io'[s] = io[s] /\ manifest'[s] = manifest[s] /\ saving'[s] = saving[s]
    /\ leaving'[s] = leaving[s] /\ machine'[s] = machine[s]
    /\ s \in documented' <=> s \in documented

LEMMA OthersKept ==
  ASSUME NEW r, OnlyRun(r), \A s \in Runs : RunInv(s), RunInv(r)'
  PROVE  (\A s \in Runs : RunInv(s))'
<1>1. ASSUME NEW s \in Runs, s # r PROVE InStep(s)' /\ Documented(s)'
  <2>1. /\ at'[s] = at[s] /\ io'[s] = io[s] /\ manifest'[s] = manifest[s] /\ saving'[s] = saving[s]
        /\ leaving'[s] = leaving[s] /\ machine'[s] = machine[s]
        /\ s \in documented' <=> s \in documented
    BY <1>1 DEF OnlyRun
  <2>2. InStep(s) /\ Documented(s)
    BY DEF RunInv
  <2>3. InStep(s)'
    BY <2>1, <2>2 DEF InStep
  <2>4. QED
    BY <2>1, <2>2, <2>3 DEF Documented
<1>2. QED
  BY <1>1 DEF RunInv

\* A run that is not fresh is no call's and was minted, so that its steps
\* disturb no call.
LEMMA StarterKept ==
  ASSUME TypeOK, OneStarter, NEW r \in Runs, ~Fresh(r), UNCHANGED <<planCached, calls, minted>>,
         \A s \in Runs \ {r} : at'[s] = at[s] /\ io'[s] = io[s]
  PROVE  OneStarter'
<1>1. ASSUME planCached PROVE \A s \in Runs : s > minted => Fresh(s)'
  BY <1>1 DEF OneStarter, Fresh
<1>2. ASSUME NEW c \in Calls, calls[c].step = "profile"
      PROVE  calls[c].run \in 1..minted /\ Fresh(calls[c].run)'
  <2>1. calls[c].run \in 1..minted /\ Fresh(calls[c].run)
    BY <1>2 DEF OneStarter
  <2>2. calls[c].run \in Runs
    BY <2>1, DocRunAssumption DEF TypeOK, Runs
  <2>3. QED
    BY <2>1, <2>2 DEF Fresh
<1>3. QED
  BY <1>1, <1>2 DEF OneStarter, Fresh

\* A save that begins keeps the run in step when what it saves is the machine's
\* state, and that is the next step's, or a terminal one.
LEMMA SaveInStep ==
  ASSUME TypeOK, NEW r \in Runs, InStep(r), at[r] \in DOMAIN Program,
         NEW m \in Machines, NEW failed \in BOOLEAN, NEW exit \in {"no", "return", "catch"},
         machine' = [machine EXCEPT ![r] = m], BeginSave(r, m.runState, failed, exit),
         UNCHANGED <<at, manifest>>,
         Succeeds(StateOf[at[r]], m.runState),
         exit = "no" => at[r] + 1 \in DOMAIN Program /\ m = InStateOf(at[r] + 1),
         exit # "no" => m.runState \in TerminalStates
  PROVE  InStep(r)'
<1>1. /\ machine'[r] = m /\ io'[r] = "vacate" /\ leaving'[r] = exit
      /\ saving'[r].state = m.runState
  BY DEF TypeOK, BeginSave, ManifestOf
<1>2. at'[r] = at[r] /\ manifest'[r] = manifest[r] /\ at[r] # 0 /\ at[r] # Returned
  BY ProgramIs
<1>3. manifest[r].state = StateOf[at[r]]
  BY DEF InStep
<1>4. QED
  BY <1>1, <1>2, <1>3 DEF InStep, InStateOf

-----------------------------------------------------------------------------
(* The three things a step of a run does *)

\* What no step of a run disturbs, and what it leaves well formed.
Aside ==
  /\ UNCHANGED <<runOf, planCached, calls, cancelling, minted, crashes, cancels>>
  /\ cancel' \subseteq Runs /\ visible' \in [Runs -> BOOLEAN]
  /\ orphaned' \subseteq Runs /\ faults' \in 0..MaxFaults

\* It goes on to the next step, which shows the same state: the documents are
\* promoted by the last step but one only.
LEMMA GoesOnKeeps ==
  ASSUME DocInv, NEW r \in Runs, at[r] \in DOMAIN Program, io[r] = "none", Aside,
         at[r] + 1 \in DOMAIN Program, StateOf[at[r] + 1] = StateOf[at[r]],
         at' = [at EXCEPT ![r] = @ + 1],
         UNCHANGED <<manifest, machine, io, saving, leaving>>,
         documented' = documented \/ (documented' = documented \cup {r} /\ at[r] = 14)
  PROVE  DocInv'
<1>1. TypeOK /\ OneStarter /\ InStep(r) /\ Documented(r)
  BY DEF DocInv, RunInv
<1>2. at'[r] = at[r] + 1 /\ at[r] \in 1..14
  BY <1>1, ProgramIs DEF TypeOK
<1>3. TypeOK'
  BY <1>1, <1>2, ProgramIs DEF TypeOK, Aside
<1>4. ~Fresh(r)
  BY <1>2 DEF Fresh
<1>5. OneStarter'
  BY <1>1, <1>4, StarterKept DEF TypeOK, Aside
<1>6. OnlyRun(r)
  BY <1>1 DEF OnlyRun, TypeOK
<1>7. InStep(r)'
  <2>1. StateOf[at'[r]] = StateOf[at[r]] /\ at'[r] \in DOMAIN Program /\ at'[r] # 0 /\ at'[r] # Returned
    BY <1>2, ProgramIs
  <2>2. /\ manifest'[r].state = StateOf[at'[r]] /\ io'[r] = "none"
        /\ machine'[r] = [runState |-> StateOf[at'[r]], cancellationRequested |-> FALSE]
    BY <1>1, <2>1 DEF InStep
  <2>3. QED
    BY <2>1, <2>2 DEF InStep
<1>8. Documented(r)'
  BY <1>1, <1>2, ProgramIs DEF Documented
<1>9. QED
  BY <1>3, <1>5, <1>6, <1>7, <1>8, OthersKept DEF DocInv, RunInv

\* It begins a save.
LEMMA SavesKeeps ==
  ASSUME DocInv, NEW r \in Runs, at[r] \in DOMAIN Program, Aside,
         NEW m \in Machines, NEW failed \in BOOLEAN, NEW exit \in {"no", "return", "catch"},
         machine' = [machine EXCEPT ![r] = m], BeginSave(r, m.runState, failed, exit),
         UNCHANGED <<at, manifest, documented>>,
         Succeeds(StateOf[at[r]], m.runState),
         exit = "no" => at[r] + 1 \in DOMAIN Program /\ m = InStateOf(at[r] + 1),
         exit # "no" => m.runState \in TerminalStates,
         r \in documented => m.runState \in {"completed", "completed_with_warnings"}
  PROVE  DocInv'
<1>1. TypeOK /\ OneStarter /\ InStep(r) /\ Documented(r)
  BY DEF DocInv, RunInv
<1>2. at[r] \in 1..15
  BY ProgramIs
<1>3. ManifestOf(m.runState, failed) \in Manifests
  BY DEF ManifestOf, Manifests, Machines
<1>4. TypeOK'
  BY <1>1, <1>3 DEF TypeOK, Aside, BeginSave
<1>5. OneStarter'
  BY <1>1, <1>2, StarterKept DEF TypeOK, Aside, BeginSave, Fresh
<1>6. OnlyRun(r)
  BY <1>1 DEF OnlyRun, TypeOK, BeginSave
<1>7. InStep(r)'
  BY <1>1, SaveInStep
<1>8. Documented(r)'
  BY <1>1, <1>2, ProgramIs DEF Documented, TypeOK
<1>9. QED
  BY <1>4, <1>5, <1>6, <1>7, <1>8, OthersKept DEF DocInv, RunInv

\* It is over, and what it saved last stands.
LEMMA EndsKeeps ==
  ASSUME DocInv, NEW r \in Runs, ~Fresh(r), Aside,
         at' = [at EXCEPT ![r] = Returned], io' = [io EXCEPT ![r] = "none"],
         NEW last \in Manifests, manifest' = [manifest EXCEPT ![r] = last],
         UNCHANGED <<machine, saving, leaving, documented>>,
         r \in documented => last.state \notin {"failed", "cancelled"}
  PROVE  DocInv'
<1>1. TypeOK /\ OneStarter
  BY DEF DocInv
<1>2. TypeOK'
  BY <1>1, ProgramIs DEF TypeOK, Aside
<1>3. OneStarter'
  BY <1>1, StarterKept DEF TypeOK, Aside
<1>4. OnlyRun(r)
  BY <1>1 DEF OnlyRun, TypeOK
<1>5. at'[r] = Returned /\ io'[r] = "none" /\ manifest'[r] = last
  BY <1>1 DEF TypeOK
<1>6. InStep(r)'
  BY <1>5, ProgramIs DEF InStep
<1>7. Documented(r)'
  BY <1>5 DEF Documented
<1>8. QED
  BY <1>2, <1>3, <1>4, <1>6, <1>7, OthersKept DEF DocInv, RunInv

\* The catch branch saves a terminal state: the one the machine is in, or a
\* failure of the run.
LEMMA CatchSaves ==
  ASSUME TypeOK, NEW r \in Runs, InStep(r), at[r] \in DOMAIN Program, Catch(r)
  PROVE  \E m \in Machines :
           /\ machine' = [machine EXCEPT ![r] = m] /\ BeginSave(r, m.runState, TRUE, "catch")
           /\ m.runState \in TerminalStates /\ Succeeds(StateOf[at[r]], m.runState)
           /\ machine[r].runState \in TerminalStates => m = machine[r]
<1> DEFINE m == IF Legal(machine[r], "FAIL") THEN Transition(machine[r], "FAIL") ELSE machine[r]
<1>1. machine[r] \in Machines
  BY DEF TypeOK
<1>2. m = IF machine[r].runState \notin TerminalStates
            THEN [machine[r] EXCEPT !.runState = "failed"] ELSE machine[r]
  BY <1>1, Transitions
<1>3. /\ m \in Machines /\ m.runState \in TerminalStates
      /\ machine[r].runState \in TerminalStates => m = machine[r]
      /\ machine[r].runState \notin TerminalStates => m.runState = "failed"
  BY <1>1, <1>2, StatesDiffer DEF Machines
<1>4. Succeeds(StateOf[at[r]], m.runState)
  <2>1. CASE machine[r].runState \notin TerminalStates
    BY <1>3, <2>1, EdgesSucceed
  <2>2. CASE machine[r].runState \in TerminalStates
    <3>1. io[r] # "none"
      BY <2>2, ProgramSteps, StatesDiffer DEF InStep
    <3>2. QED
      BY <1>3, <2>2, <3>1 DEF InStep
  <2>3. QED
    BY <2>1, <2>2
<1>5. machine' = [machine EXCEPT ![r] = m] /\ BeginSave(r, m.runState, TRUE, "catch")
  BY DEF Catch
<1>6. QED
  BY <1>3, <1>4, <1>5

\* So a run that throws keeps the invariant: unless it was about to record that
\* it is complete, it had promoted no documents.
LEMMA CatchKeeps ==
  ASSUME DocInv, NEW r \in Runs, at[r] \in DOMAIN Program, Aside, Catch(r),
         UNCHANGED <<at, manifest, documented>>,
         r \in documented => machine[r].runState \in TerminalStates
  PROVE  DocInv'
<1>1. TypeOK /\ InStep(r) /\ Documented(r)
  BY DEF DocInv, RunInv
<1>2. PICK m \in Machines :
        /\ machine' = [machine EXCEPT ![r] = m] /\ BeginSave(r, m.runState, TRUE, "catch")
        /\ m.runState \in TerminalStates /\ Succeeds(StateOf[at[r]], m.runState)
        /\ machine[r].runState \in TerminalStates => m = machine[r]
  BY <1>1, CatchSaves
<1>3. r \in documented => m.runState \in {"completed", "completed_with_warnings"}
  <2>1. SUFFICES ASSUME r \in documented PROVE m.runState \in {"completed", "completed_with_warnings"}
    OBVIOUS
  <2>2. m = machine[r] /\ at[r] = 15
    BY <1>1, <1>2, <2>1, ProgramIs DEF Documented
  <2>3. io[r] # "none"
    BY <1>1, <2>1, <2>2, StatesAre, ProgramSteps, StatesDiffer DEF InStep
  <2>4. QED
    BY <1>1, <2>1, <2>2, <2>3, ProgramIs DEF Documented
<1>4. QED
  BY <1>2, <1>3, SavesKeeps

-----------------------------------------------------------------------------
(* The steps of executeRun *)

\* A run that is between two saves is in the state its step shows.
LEMMA ReadyFacts ==
  ASSUME DocInv, NEW r \in Runs, NEW op, Ready(r, op)
  PROVE  /\ TypeOK /\ InStep(r) /\ Documented(r)
         /\ at[r] \in DOMAIN Program /\ at[r] \in 1..15 /\ Program[at[r]] = op /\ io[r] = "none"
         /\ machine[r] = InStateOf(at[r]) /\ machine[r] \in Machines
         /\ StateOf[at[r]] \in Chain /\ machine[r].runState \notin TerminalStates
         /\ io = [io EXCEPT ![r] = "none"] /\ manifest = [manifest EXCEPT ![r] = manifest[r]]
         /\ manifest[r] \in Manifests
         /\ r \in documented => at[r] = 15
         /\ ~Fresh(r)
<1>1. TypeOK /\ InStep(r) /\ Documented(r)
  BY DEF DocInv, RunInv
<1>2. at[r] \in DOMAIN Program /\ at[r] \in 1..15 /\ Program[at[r]] = op /\ io[r] = "none"
  BY ProgramIs DEF Ready
<1>3. machine[r] = InStateOf(at[r]) /\ machine[r] \in Machines
  BY <1>1, <1>2 DEF InStep, InStateOf, TypeOK
<1>4. StateOf[at[r]] \in Chain /\ machine[r].runState \notin TerminalStates
  BY <1>2, <1>3, ProgramSteps, StatesDiffer DEF InStateOf
<1>5. io = [io EXCEPT ![r] = "none"] /\ manifest = [manifest EXCEPT ![r] = manifest[r]] /\ manifest[r] \in Manifests
  BY <1>1, <1>2 DEF TypeOK
<1>6. r \in documented => at[r] = 15
  BY <1>1, <1>2, ProgramIs DEF Documented
<1>7. QED
  BY <1>1, <1>2, <1>3, <1>4, <1>5, <1>6 DEF Fresh

LEMMA ExecuteProfileKeeps ==
  ASSUME DocInv, NEW r \in Runs, ExecuteProfile(r)
  PROVE  DocInv'
<1>1. Ready(r, "profile")
  BY DEF ExecuteProfile
<1>2. /\ TypeOK /\ at[r] \in DOMAIN Program /\ io[r] = "none" /\ ~Fresh(r)
      /\ at[r] + 1 \in DOMAIN Program /\ StateOf[at[r] + 1] = StateOf[at[r]] /\ r \notin documented
  BY <1>1, ReadyFacts, ProgramSteps, ProgramIs
<1>3. Aside
  BY <1>2 DEF Aside, ExecuteProfile, memory, TypeOK
<1>4. CASE at' = [at EXCEPT ![r] = @ + 1]
  BY <1>2, <1>3, <1>4, GoesOnKeeps DEF ExecuteProfile
<1>5. CASE at' = [at EXCEPT ![r] = Returned]
  <2>1. /\ manifest[r] \in Manifests /\ manifest' = [manifest EXCEPT ![r] = manifest[r]]
        /\ io' = [io EXCEPT ![r] = "none"] /\ UNCHANGED <<machine, saving, leaving, documented>>
    BY <1>1, ReadyFacts DEF ExecuteProfile
  <2>2. QED
    BY <1>2, <1>3, <1>5, <2>1, EndsKeeps
<1>6. QED
  BY <1>4, <1>5 DEF ExecuteProfile

LEMMA ExecuteAdvanceKeeps ==
  ASSUME DocInv, NEW r \in Runs, ExecuteAdvance(r)
  PROVE  DocInv'
<1>1. PICK event \in LinearEvents \ {"COMPLETE", "COMPLETE_WITH_WARNINGS"} :
        Ready(r, event) /\ Advance(r, event, "no")
  BY DEF ExecuteAdvance
<1> DEFINE i == at[r]
           m == Transition(machine[r], event)
<1>2. /\ TypeOK /\ i \in DOMAIN Program /\ Program[i] = event /\ machine[r] = InStateOf(i)
      /\ machine[r] \in Machines /\ (r \in documented => i = 15)
  BY <1>1, ReadyFacts
<1>3. /\ i + 1 \in DOMAIN Program /\ LinearTransitions[event] = Edge(StateOf[i], StateOf[i + 1])
      /\ StateOf[i + 1] \in Chain /\ Succeeds(StateOf[i], StateOf[i + 1])
  BY <1>1, <1>2, ProgramSteps, EdgesSucceed
<1>4. Legal(machine[r], event) /\ m = InStateOf(i + 1) /\ m \in Machines
  <2>1. /\ LinearTransitions[event].from = StateOf[i] /\ LinearTransitions[event].to = StateOf[i + 1]
        /\ StateOf[i + 1] \in RunStates
    BY <1>3, StatesDiffer DEF Edge
  <2>2. /\ Legal(machine[r], event) <=> machine[r].runState = LinearTransitions[event].from
        /\ m = [machine[r] EXCEPT !.runState = LinearTransitions[event].to]
    BY <1>1, <1>2, Transitions
  <2>3. machine[r] = [runState |-> StateOf[i], cancellationRequested |-> FALSE]
    BY <1>2 DEF InStateOf
  <2>4. [machine[r] EXCEPT !.runState = StateOf[i + 1]] =
          [runState |-> StateOf[i + 1], cancellationRequested |-> FALSE]
    <3>1. [machine[r] EXCEPT !.runState = StateOf[i + 1]] =
            [runState |-> StateOf[i + 1], cancellationRequested |-> machine[r].cancellationRequested]
      BY <1>2 DEF Machines
    <3>2. machine[r].cancellationRequested = FALSE
      BY <2>3
    <3>3. QED
      BY <3>1, <3>2, Zenon
  <2>5. m = InStateOf(i + 1)
    BY <2>1, <2>2, <2>4, Zenon DEF InStateOf
  <2>6. Legal(machine[r], event)
    BY <2>1, <2>2, <2>3
  <2>7. InStateOf(i + 1) \in Machines
    BY <2>1 DEF InStateOf, Machines
  <2>8. QED
    BY <2>5, <2>6, <2>7, Zenon
<1>5. machine' = [machine EXCEPT ![r] = m] /\ BeginSave(r, m.runState, FALSE, "no")
  BY <1>1, <1>4 DEF Advance
<1>6. Aside
  BY <1>2 DEF Aside, ExecuteAdvance, memory, TypeOK
<1>7. r \notin documented
  BY <1>2, <1>3, ProgramIs
<1>8. Succeeds(StateOf[i], m.runState) /\ UNCHANGED <<at, manifest, documented>>
  BY <1>3, <1>4 DEF InStateOf, ExecuteAdvance
<1> HIDE DEF m
<1>9. QED
  BY <1>2, <1>3, <1>4, <1>5, <1>6, <1>7, <1>8, SavesKeeps

LEMMA ExecuteCheckpointKeeps ==
  ASSUME DocInv, NEW r \in Runs, ExecuteCheckpoint(r)
  PROVE  DocInv'
<1> DEFINE m == IF r \in cancel THEN Transition(machine[r], "REQUEST_CANCEL") ELSE machine[r]
           n == Transition(m, "CHECKPOINT")
<1>1. Ready(r, "checkpoint")
  BY DEF ExecuteCheckpoint
<1>2. /\ TypeOK /\ at[r] \in DOMAIN Program /\ io[r] = "none" /\ machine[r] = InStateOf(at[r])
      /\ machine[r] \in Machines /\ machine[r].runState \notin TerminalStates
      /\ at[r] + 1 \in DOMAIN Program /\ StateOf[at[r] + 1] = StateOf[at[r]] /\ r \notin documented
  BY <1>1, ReadyFacts, ProgramSteps, ProgramIs
<1>3. m = IF r \in cancel THEN [machine[r] EXCEPT !.cancellationRequested = TRUE] ELSE machine[r]
  BY <1>2, Transitions
<1>4. /\ m \in Machines /\ m.runState = machine[r].runState
      /\ r \in cancel => m.cancellationRequested = TRUE
      /\ r \notin cancel => m.cancellationRequested = FALSE
  <2>1. machine[r].cancellationRequested = FALSE
    BY <1>2 DEF InStateOf
  <2>2. CASE r \in cancel
    BY <1>2, <1>3, <2>2 DEF Machines
  <2>3. CASE r \notin cancel
    BY <1>2, <1>3, <2>1, <2>3
  <2>4. QED
    BY <2>2, <2>3
<1>5. n = IF r \in cancel THEN [runState |-> "cancelled", cancellationRequested |-> FALSE] ELSE m
  BY <1>4, Transitions
<1>6. Aside
  BY <1>2 DEF Aside, ExecuteCheckpoint, memory, TypeOK
<1>7. /\ machine' = [machine EXCEPT ![r] = n]
      /\ IF n.runState = m.runState
           THEN at' = [at EXCEPT ![r] = @ + 1] /\ UNCHANGED <<io, saving, leaving>>
           ELSE BeginSave(r, n.runState, FALSE, "return") /\ UNCHANGED at
      /\ UNCHANGED <<manifest, documented>>
  BY DEF ExecuteCheckpoint
<1> HIDE DEF m, n
<1>8. CASE r \in cancel
  <2>1. /\ n.runState = "cancelled" /\ n \in Machines /\ n.runState \in TerminalStates
        /\ n.runState # m.runState /\ Succeeds(StateOf[at[r]], n.runState)
    BY <1>2, <1>4, <1>5, <1>8, StatesDiffer, EdgesSucceed DEF Machines
  <2>2. QED
    BY <1>2, <1>6, <1>7, <2>1, SavesKeeps
<1>9. CASE r \notin cancel
  <2>1. n = machine[r] /\ n.runState = m.runState
    BY <1>3, <1>5, <1>9
  <2>2. UNCHANGED machine
    BY <1>2, <1>7, <2>1 DEF TypeOK
  <2>3. QED
    BY <1>2, <1>6, <1>7, <2>1, <2>2, GoesOnKeeps
<1>10. QED
  BY <1>8, <1>9

LEMMA ExecuteCaptureKeeps ==
  ASSUME DocInv, NEW r \in Runs, ExecuteCapture(r)
  PROVE  DocInv'
<1>1. Ready(r, "capture")
  BY DEF ExecuteCapture
<1>2. /\ TypeOK /\ at[r] \in DOMAIN Program /\ io[r] = "none" /\ machine[r] \in Machines
      /\ machine[r].runState \notin TerminalStates
      /\ at[r] + 1 \in DOMAIN Program /\ StateOf[at[r] + 1] = StateOf[at[r]] /\ r \notin documented
  BY <1>1, ReadyFacts, ProgramSteps, ProgramIs
<1>3. Aside /\ UNCHANGED <<manifest, documented>>
  BY <1>2 DEF Aside, ExecuteCapture, memory, TypeOK
<1>4. CASE at' = [at EXCEPT ![r] = @ + 1] /\ UNCHANGED <<machine, io, saving, leaving>>
  BY <1>2, <1>3, <1>4, GoesOnKeeps
<1>5. CASE Advance(r, "FAIL", "return") /\ UNCHANGED at
  <2> DEFINE m == Transition(machine[r], "FAIL")
  <2>1. Legal(machine[r], "FAIL") /\ m = [machine[r] EXCEPT !.runState = "failed"]
    BY <1>2, Transitions
  <2>2. m \in Machines /\ m.runState = "failed" /\ m.runState \in TerminalStates
    BY <1>2, <2>1, StatesDiffer DEF Machines
  <2>3. machine' = [machine EXCEPT ![r] = m] /\ BeginSave(r, m.runState, FALSE, "return")
    BY <1>5, <2>1 DEF Advance
  <2>4. Succeeds(StateOf[at[r]], m.runState)
    BY <1>2, <2>2, EdgesSucceed
  <2> HIDE DEF m
  <2>5. QED
    BY <1>2, <1>3, <1>5, <2>2, <2>3, <2>4, SavesKeeps
<1>6. CASE Catch(r) /\ UNCHANGED at
  BY <1>2, <1>3, <1>6, CatchKeeps
<1>7. QED
  BY <1>4, <1>5, <1>6 DEF ExecuteCapture

LEMMA ExecuteDocumentKeeps ==
  ASSUME DocInv, NEW r \in Runs, ExecuteDocument(r)
  PROVE  DocInv'
<1>1. Ready(r, "document")
  BY DEF ExecuteDocument
<1>2. /\ TypeOK /\ at[r] \in DOMAIN Program /\ io[r] = "none" /\ at[r] = 14
      /\ at[r] + 1 \in DOMAIN Program /\ StateOf[at[r] + 1] = StateOf[at[r]] /\ r \notin documented
  BY <1>1, ReadyFacts, ProgramSteps, ProgramIs
<1>3. Aside /\ UNCHANGED manifest
  BY <1>2 DEF Aside, ExecuteDocument, memory, TypeOK
<1>4. CASE /\ documented' = documented \cup {r} /\ at' = [at EXCEPT ![r] = @ + 1]
           /\ UNCHANGED <<machine, io, saving, leaving>>
  BY <1>2, <1>3, <1>4, GoesOnKeeps
<1>5. CASE Catch(r) /\ UNCHANGED <<at, documented>>
  BY <1>2, <1>3, <1>5, CatchKeeps
<1>6. QED
  BY <1>4, <1>5 DEF ExecuteDocument

LEMMA ExecuteFinishKeeps ==
  ASSUME DocInv, NEW r \in Runs, ExecuteFinish(r)
  PROVE  DocInv'
<1>1. PICK event \in {"COMPLETE", "COMPLETE_WITH_WARNINGS"} : Advance(r, event, "return")
  BY DEF ExecuteFinish
<1> DEFINE m == Transition(machine[r], event)
<1>2. /\ TypeOK /\ at[r] \in DOMAIN Program /\ at[r] = 15 /\ machine[r] = InStateOf(15)
      /\ machine[r] \in Machines
  <2>1. Ready(r, "finish")
    BY DEF ExecuteFinish
  <2>2. QED
    BY <2>1, ReadyFacts, ProgramSteps
<1>3. /\ event \in LinearEvents /\ LinearTransitions[event].from = "promoting"
      /\ LinearTransitions[event].to \in {"completed", "completed_with_warnings"}
  BY <1>1, EdgesAre DEF Edge
<1>4. Legal(machine[r], event) /\ m = [machine[r] EXCEPT !.runState = LinearTransitions[event].to]
  BY <1>2, <1>3, Transitions, StatesAre DEF InStateOf
<1>5. m \in Machines /\ m.runState \in {"completed", "completed_with_warnings"}
  BY <1>2, <1>3, <1>4 DEF Machines, RunStates, TerminalStates
<1>6. machine' = [machine EXCEPT ![r] = m] /\ BeginSave(r, m.runState, FALSE, "return")
  BY <1>1, <1>4 DEF Advance
<1>7. Aside /\ UNCHANGED <<at, manifest, documented>>
  BY <1>2 DEF Aside, ExecuteFinish, memory, TypeOK
<1>8. Succeeds(StateOf[at[r]], m.runState) /\ m.runState \in TerminalStates
  BY <1>2, <1>5, EdgesSucceed DEF TerminalStates
<1> HIDE DEF m
<1>9. QED
  BY <1>2, <1>5, <1>6, <1>7, <1>8, SavesKeeps

-----------------------------------------------------------------------------
(* The renames of a save *)

LEMMA SaveVacatesKeeps ==
  ASSUME DocInv, NEW r \in Runs, SaveVacates(r)
  PROVE  DocInv'
<1>1. TypeOK /\ OneStarter /\ InStep(r) /\ Documented(r)
  BY DEF DocInv, RunInv
<1>2. io[r] = "vacate" /\ io' = [io EXCEPT ![r] = "fill"] /\ visible' = [visible EXCEPT ![r] = FALSE]
      /\ UNCHANGED <<runOf, planCached, cancel, calls, cancelling, manifest, at, saving, leaving,
                     machine, documented, orphaned, minted, faults, crashes, cancels>>
  BY DEF SaveVacates, memory
<1>3. TypeOK'
  BY <1>1, <1>2 DEF TypeOK
<1>4. OneStarter'
  BY <1>1, <1>2, StarterKept DEF TypeOK, Fresh
<1>5. OnlyRun(r)
  BY <1>1, <1>2 DEF OnlyRun, TypeOK
<1>6. io'[r] = "fill"
  BY <1>1, <1>2 DEF TypeOK
<1>7. InStep(r)'
  BY <1>1, <1>2, <1>6 DEF InStep
<1>8. Documented(r)'
  BY <1>1, <1>2, <1>6 DEF Documented
<1>9. QED
  BY <1>3, <1>4, <1>5, <1>7, <1>8, OthersKept DEF DocInv, RunInv

\* What is being saved is where the run will be when the save is done.
LEMMA SavedFacts ==
  ASSUME DocInv, NEW r \in Runs, io[r] # "none"
  PROVE  /\ TypeOK /\ InStep(r) /\ Documented(r) /\ ~Fresh(r) /\ saving[r] \in Manifests
         /\ Succeeds(manifest[r].state, saving[r].state)
         /\ \/ at[r] = 0 /\ leaving[r] = "no" /\ saving[r].state = "planned" /\ machine[r] = InStateOf(1)
            \/ /\ at[r] \in DOMAIN Program /\ saving[r].state = machine[r].runState
               /\ IF leaving[r] = "no"
                    THEN at[r] + 1 \in DOMAIN Program /\ machine[r] = InStateOf(at[r] + 1)
                    ELSE machine[r].runState \in TerminalStates
<1>1. TypeOK /\ InStep(r) /\ Documented(r) /\ ~Fresh(r)
  BY DEF DocInv, RunInv, Fresh
<1>2. saving[r] \in Manifests /\ at[r] \in 0..16
  BY <1>1, ProgramIs DEF TypeOK
<1>3. CASE at[r] = 0
  BY <1>1, <1>2, <1>3, StatesAre
  DEF InStep, InStateOf, InitialMachine, Succeeds, NoManifest, ManifestOf
<1>4. CASE at[r] \in DOMAIN Program
  BY <1>1, <1>2, <1>4 DEF InStep, InStateOf
<1>5. at[r] # Returned
  BY <1>1 DEF InStep
<1>6. QED
  BY <1>1, <1>2, <1>3, <1>4, <1>5, ProgramIs

LEMMA SaveFillsKeeps ==
  ASSUME DocInv, NEW r \in Runs, SaveFills(r)
  PROVE  DocInv'
<1>1. /\ io[r] # "none" /\ manifest' = [manifest EXCEPT ![r] = saving[r]]
      /\ visible' = [visible EXCEPT ![r] = TRUE] /\ io' = [io EXCEPT ![r] = "none"]
      /\ IF leaving[r] = "no"
           THEN at' = [at EXCEPT ![r] = @ + 1] /\ UNCHANGED cancel
           ELSE Finish(r)
      /\ UNCHANGED <<runOf, planCached, calls, cancelling, saving, leaving, machine,
                     documented, orphaned, minted, faults, crashes, cancels>>
  BY DEF SaveFills
<1>2. /\ TypeOK /\ InStep(r) /\ Documented(r) /\ ~Fresh(r) /\ saving[r] \in Manifests
      /\ \/ at[r] = 0 /\ leaving[r] = "no" /\ saving[r].state = "planned" /\ machine[r] = InStateOf(1)
         \/ /\ at[r] \in DOMAIN Program /\ saving[r].state = machine[r].runState
            /\ IF leaving[r] = "no"
                 THEN at[r] + 1 \in DOMAIN Program /\ machine[r] = InStateOf(at[r] + 1)
                 ELSE machine[r].runState \in TerminalStates
  BY <1>1, SavedFacts
<1>3. Aside
  BY <1>1, <1>2 DEF Aside, TypeOK, Finish
<1>4. CASE leaving[r] = "no"
  <2>1. /\ at[r] + 1 \in 1..15 /\ machine[r] = InStateOf(at[r] + 1)
        /\ saving[r].state = StateOf[at[r] + 1]
    <3>1. CASE at[r] = 0
      BY <1>2, <1>4, <3>1, ProgramIs, StatesAre
    <3>2. CASE at[r] \in DOMAIN Program
      BY <1>2, <1>4, <3>2, ProgramIs DEF InStateOf
    <3>3. QED
      BY <1>2, <3>1, <3>2
  <2>2. /\ at'[r] = at[r] + 1 /\ io'[r] = "none" /\ manifest'[r] = saving[r] /\ machine'[r] = machine[r]
        /\ at' = [at EXCEPT ![r] = @ + 1]
    BY <1>1, <1>2, <1>4 DEF TypeOK
  <2>3. TypeOK'
    BY <1>1, <1>2, <1>3, <2>1, <2>2, ProgramIs DEF TypeOK, Aside
  <2>4. OneStarter /\ OneStarter'
    BY <1>1, <1>2, <2>2, StarterKept DEF DocInv, TypeOK
  <2>5. OnlyRun(r)
    BY <1>1, <1>2, <2>2 DEF OnlyRun, TypeOK
  <2>6. InStep(r)'
    BY <2>1, <2>2, ProgramIs DEF InStep, InStateOf
  <2>7. Documented(r)'
    BY <1>1, <1>2, <2>1, ProgramIs DEF Documented
  <2>8. QED
    BY <2>3, <2>4, <2>5, <2>6, <2>7, OthersKept DEF DocInv, RunInv
<1>5. CASE leaving[r] # "no"
  <2>1. r \in documented => saving[r].state \notin {"failed", "cancelled"}
    BY <1>1, <1>2, <1>5, ProgramIs DEF Documented
  <2>2. QED
    BY <1>1, <1>2, <1>3, <1>5, <2>1, EndsKeeps DEF Finish
<1>6. QED
  BY <1>4, <1>5

LEMMA SaveFailsKeeps ==
  ASSUME DocInv, NEW r \in Runs, SaveFails(r)
  PROVE  DocInv'
<1>1. /\ io[r] # "none" /\ faults < MaxFaults /\ faults' = faults + 1
      /\ visible' = [visible EXCEPT ![r] = manifest[r] # NoManifest]
      /\ UNCHANGED <<runOf, planCached, calls, cancelling, manifest, documented, minted, crashes, cancels>>
  BY DEF SaveFails
<1>2. /\ TypeOK /\ Documented(r) /\ ~Fresh(r)
      /\ \/ at[r] = 0
         \/ at[r] \in DOMAIN Program /\ (leaving[r] # "no" => machine[r].runState \in TerminalStates)
  BY <1>1, SavedFacts
<1>3. CASE /\ io' = [io EXCEPT ![r] = "none"] /\ Finish(r) /\ orphaned' = orphaned \cup {r}
           /\ at[r] = 0 \/ leaving[r] = "catch"
           /\ UNCHANGED <<saving, leaving, machine>>
  <2>1. Aside
    BY <1>1, <1>2, <1>3, DocRunAssumption DEF Aside, TypeOK, Finish
  <2>2. manifest' = [manifest EXCEPT ![r] = manifest[r]] /\ manifest[r] \in Manifests
    BY <1>1, <1>2 DEF TypeOK
  <2>3. r \in documented => manifest[r].state \notin {"failed", "cancelled"}
    <3>1. r \in documented => at[r] = 15
      BY <1>1, <1>2, <1>3, SavedFacts, ProgramIs DEF Documented
    <3>2. at[r] = 15 => manifest[r].state = "promoting"
      <4>1. 15 \in DOMAIN Program
        BY ProgramIs
      <4>2. at[r] \in DOMAIN Program => manifest[r].state = StateOf[at[r]]
        BY <1>1, SavedFacts DEF InStep
      <4>3. QED
        BY <4>1, <4>2, StatesAre
    <3>3. QED
      BY <3>1, <3>2
  <2>4. QED
    BY <1>1, <1>2, <1>3, <2>1, <2>2, <2>3, EndsKeeps DEF Finish
<1>4. CASE at[r] # 0 /\ leaving[r] # "catch" /\ Catch(r) /\ UNCHANGED <<at, cancel, orphaned>>
  <2>1. Aside
    BY <1>1, <1>2, <1>4, DocRunAssumption DEF Aside, TypeOK
  <2>2. r \in documented => machine[r].runState \in TerminalStates
    BY <1>1, <1>2, <1>4, ProgramIs DEF Documented, TerminalStates
  <2>3. QED
    BY <1>1, <1>2, <1>4, <2>1, <2>2, CatchKeeps
<1>5. QED
  BY <1>3, <1>4 DEF SaveFails

-----------------------------------------------------------------------------
(* startRun, cancelRun, and the restart of the server *)

\* A step of a call or of a cancellation that touches no run keeps the runs' part.
LEMMA RunsKept ==
  ASSUME DocInv, UNCHANGED runVars
  PROVE  (\A r \in Runs : RunInv(r))'
BY DEF DocInv, runVars, RunInv, InStep, Documented

\* Whatever was minted is a run.
LEMMA RunsMinted == TypeOK => 1..minted \subseteq Runs
BY DocRunAssumption DEF TypeOK, Runs

\* The run a call mints is fresh, and no other call's.
LEMMA MintKeeps ==
  ASSUME DocInv, NEW c \in Calls, planCached, calls[c].step \in {"idle", "load"}, Mint(c),
         UNCHANGED <<planCached, cancelling, runVars, faults, crashes, cancels>>
  PROVE  DocInv'
<1> DEFINE n == minted + 1
<1>1. /\ TypeOK /\ OneStarter
      /\ n \in Runs /\ minted' = n /\ runOf' = n /\ cancel' = cancel \ {n}
      /\ calls' = [calls EXCEPT ![c] = [step |-> "profile", run |-> n]]
      /\ UNCHANGED <<planCached, cancelling, manifest, visible, at, io, saving, leaving, machine,
                     documented, orphaned, faults, crashes, cancels>>
  BY DocRunAssumption DEF DocInv, Mint, SetCall, runVars, TypeOK, Runs
<1>2. n \in 0..MaxRuns /\ minted < n /\ 0..minted \subseteq 0..n
  BY <1>1, DocRunAssumption DEF Runs, TypeOK
<1>3. TypeOK'
  <2>1. calls' \in [Calls -> [step : CallSteps, run : 0..MaxRuns]]
    BY <1>1, <1>2 DEF TypeOK, CallSteps
  <2>2. runOf' \in 0..minted' /\ minted' \in 0..MaxRuns /\ cancel' \subseteq Runs
    BY <1>1, <1>2 DEF TypeOK
  <2>3. QED
    BY <1>1, <2>1, <2>2 DEF TypeOK
<1>4. Fresh(n)
  BY <1>1, <1>2 DEF OneStarter
<1>5. \A d \in Calls : d # c => calls'[d] = calls[d]
  BY <1>1 DEF TypeOK
<1>6. calls'[c] = [step |-> "profile", run |-> n]
  BY <1>1 DEF TypeOK
<1>7. \A d \in Calls : calls[d].step = "profile" => calls[d].run \in 1..minted /\ Fresh(calls[d].run)
  BY <1>1 DEF OneStarter
<1>8. OneStarter'
  <2>1. (\A r \in Runs : r > minted => Fresh(r))'
    BY <1>1, <1>2 DEF OneStarter, Fresh, TypeOK, Runs
  <2>2. \A d \in Calls : calls'[d].step = "profile" =>
          calls'[d].run \in 1..minted' /\ at'[calls'[d].run] = 0 /\ io'[calls'[d].run] = "none"
    <3>1. ASSUME NEW d \in Calls, calls'[d].step = "profile", d # c
          PROVE  calls'[d].run \in 1..minted' /\ at'[calls'[d].run] = 0 /\ io'[calls'[d].run] = "none"
      BY <1>1, <1>2, <1>5, <1>7, <3>1 DEF Fresh, TypeOK
    <3>2. calls'[c].run \in 1..minted' /\ at'[calls'[c].run] = 0 /\ io'[calls'[c].run] = "none"
      BY <1>1, <1>2, <1>4, <1>6 DEF Fresh, TypeOK
    <3>3. QED
      BY <3>1, <3>2
  <2>3. ASSUME NEW d \in Calls, NEW e \in Calls, calls'[d].step = "profile", calls'[e].step = "profile",
               calls'[d].run = calls'[e].run
        PROVE  d = e
    <3>1. CASE d # c /\ e # c
      BY <1>1, <1>5, <2>3, <3>1 DEF OneStarter
    <3>2. \A x \in Calls : x # c /\ calls'[x].step = "profile" => calls'[x].run # n
      BY <1>1, <1>2, <1>5, <1>7 DEF TypeOK
    <3>3. calls'[c].run = n
      BY <1>6
    <3>4. QED
      BY <2>3, <3>1, <3>2, <3>3
  <2>4. QED
    BY <1>1, <2>1, <2>2, <2>3 DEF OneStarter, Fresh
<1>9. QED
  BY <1>3, <1>8, RunsKept DEF DocInv

\* A call that goes on without minting or saving.
LEMMA CallKeeps ==
  ASSUME DocInv, NEW c \in Calls, NEW step \in CallSteps \ {"profile"}, NEW r \in 0..MaxRuns,
         SetCall(c, step, r), planCached \/ step \in {"returned", "rejected"},
         UNCHANGED <<runOf, planCached, cancel, cancelling, runVars, minted, faults, crashes, cancels>>
  PROVE  DocInv'
<1>1. TypeOK /\ OneStarter
  BY DEF DocInv
<1>2. /\ calls' = [calls EXCEPT ![c] = [step |-> step, run |-> r]]
      /\ UNCHANGED <<runOf, planCached, cancel, cancelling, manifest, visible, at, io, saving, leaving,
                     machine, documented, orphaned, minted, faults, crashes, cancels>>
  BY DEF SetCall, runVars
<1>3. TypeOK'
  BY <1>1, <1>2 DEF TypeOK
<1>4. /\ \A d \in Calls : d # c => calls'[d] = calls[d]
      /\ calls'[c].step = step
  BY <1>1, <1>2 DEF TypeOK
<1>5. OneStarter'
  <2>1. \A d \in Calls : calls'[d].step = "profile" => d # c /\ calls'[d] = calls[d]
    BY <1>4
  <2>2. ~planCached => \A d \in Calls : calls'[d].step \in {"idle", "returned", "rejected"}
    BY <1>1, <1>4 DEF OneStarter
  <2>3. \A d \in Calls : calls'[d].step = "profile" => calls'[d].run \in 1..minted /\ Fresh(calls'[d].run)
    BY <1>1, <2>1 DEF OneStarter
  <2>4. \A d, e \in Calls :
          calls'[d].step = "profile" /\ calls'[e].step = "profile" /\ calls'[d].run = calls'[e].run => d = e
    BY <1>1, <2>1 DEF OneStarter
  <2>5. QED
    BY <1>1, <1>2, <2>2, <2>3, <2>4 DEF OneStarter, Fresh
<1>6. QED
  BY <1>3, <1>5, RunsKept DEF DocInv

LEMMA StartRunKeeps ==
  ASSUME DocInv, NEW c \in Calls, StartRun(c)
  PROVE  DocInv'
<1>1. TypeOK /\ calls[c].step = "idle"
  BY DEF DocInv, StartRun
<1>2. 0 \in 0..MaxRuns /\ runOf \in 0..MaxRuns
  BY <1>1, DocRunAssumption DEF TypeOK
<1>3. UNCHANGED <<planCached, cancelling, runVars, faults, crashes, cancels>>
  BY DEF StartRun
<1>4. CASE ~planCached /\ SetCall(c, "rejected", 0) /\ UNCHANGED <<runOf, cancel, minted>>
  BY <1>2, <1>3, <1>4, CallKeeps DEF CallSteps
<1>5. CASE planCached /\ runOf # 0 /\ SetCall(c, "load", runOf) /\ UNCHANGED <<runOf, cancel, minted>>
  BY <1>2, <1>3, <1>5, CallKeeps DEF CallSteps
<1>6. CASE planCached /\ runOf = 0 /\ Mint(c)
  BY <1>1, <1>3, <1>6, MintKeeps
<1>7. QED
  BY <1>4, <1>5, <1>6 DEF StartRun

LEMMA StartLoadsKeeps ==
  ASSUME DocInv, NEW c \in Calls, StartLoads(c)
  PROVE  DocInv'
<1>1. TypeOK /\ OneStarter /\ calls[c].step = "load" /\ calls[c].run \in 0..MaxRuns
  BY DEF DocInv, StartLoads, TypeOK
<1>2. planCached
  BY <1>1 DEF OneStarter, TypeOK
<1>3. UNCHANGED <<planCached, cancelling, runVars, faults, crashes, cancels>>
  BY DEF StartLoads
<1>4. CASE SetCall(c, "returned", calls[c].run) /\ UNCHANGED <<runOf, cancel, minted>>
  BY <1>1, <1>2, <1>3, <1>4, CallKeeps DEF CallSteps
<1>5. CASE Mint(c)
  BY <1>1, <1>2, <1>3, <1>5, MintKeeps
<1>6. QED
  BY <1>4, <1>5 DEF StartLoads

LEMMA StartReturnsKeeps ==
  ASSUME DocInv, NEW c \in Calls, StartReturns(c)
  PROVE  DocInv'
<1>1. TypeOK /\ calls[c].run \in 0..MaxRuns /\ 0 \in 0..MaxRuns
  BY DocRunAssumption DEF DocInv, TypeOK
<1>2. UNCHANGED <<runOf, planCached, cancel, cancelling, runVars, minted, faults, crashes, cancels>>
  BY DEF StartReturns
<1>3. CASE SetCall(c, "rejected", 0)
  BY <1>1, <1>2, <1>3, CallKeeps DEF CallSteps
<1>4. CASE SetCall(c, "returned", calls[c].run)
  BY <1>1, <1>2, <1>4, CallKeeps DEF CallSteps
<1>5. QED
  BY <1>3, <1>4 DEF StartReturns

\* The first save of a run: the call that minted it is the only one to make it.
LEMMA StartProfileKeeps ==
  ASSUME DocInv, NEW c \in Calls, StartProfile(c)
  PROVE  DocInv'
<1>1. PICK r \in Runs :
        /\ r = calls[c].run /\ TypeOK /\ OneStarter /\ calls[c].step = "profile"
        /\ r \in 1..minted /\ Fresh(r) /\ r \in 0..MaxRuns /\ 0 \in 0..MaxRuns
  <2>1. /\ TypeOK /\ OneStarter /\ calls[c].step = "profile"
        /\ calls[c].run \in 1..minted /\ Fresh(calls[c].run)
    BY DEF DocInv, StartProfile, OneStarter
  <2>2. calls[c].run \in Runs
    BY <2>1, RunsMinted
  <2>3. calls[c].run \in 0..MaxRuns /\ 0 \in 0..MaxRuns
    BY <2>1, DocRunAssumption DEF TypeOK
  <2>4. QED
    BY <2>1, <2>2, <2>3
<1>2. /\ UNCHANGED <<runOf, planCached, cancel, cancelling, manifest, visible, at, machine, documented,
                     orphaned, minted, faults, crashes, cancels>>
  BY DEF StartProfile
<1>3. CASE SetCall(c, "saving", r) /\ BeginSave(r, "planned", FALSE, "no")
  <2>1. ManifestOf("planned", FALSE) \in Manifests /\ ManifestOf("planned", FALSE).state = "planned"
    BY DEF ManifestOf, Manifests, RunStates, Chain
  <2>2. /\ calls' = [calls EXCEPT ![c] = [step |-> "saving", run |-> r]]
        /\ saving' = [saving EXCEPT ![r] = ManifestOf("planned", FALSE)]
        /\ leaving' = [leaving EXCEPT ![r] = "no"] /\ io' = [io EXCEPT ![r] = "vacate"]
    BY <1>3 DEF SetCall, BeginSave
  <2>3. TypeOK'
    <3>1. calls' \in [Calls -> [step : CallSteps, run : 0..MaxRuns]]
      BY <1>1, <2>2 DEF TypeOK, CallSteps
    <3>2. saving' \in [Runs -> Manifests] /\ io' \in [Runs -> {"none", "vacate", "fill"}]
          /\ leaving' \in [Runs -> {"no", "return", "catch"}]
      BY <1>1, <2>1, <2>2 DEF TypeOK
    <3>3. QED
      BY <1>1, <1>2, <3>1, <3>2 DEF TypeOK
  <2>4. /\ \A d \in Calls : d # c => calls'[d] = calls[d]
        /\ calls'[c].step = "saving"
    BY <1>1, <2>2 DEF TypeOK
  <2>5. OneStarter'
    <3>1. planCached
      BY <1>1 DEF OneStarter, TypeOK
    <3>2. \A s \in Runs : s > minted => Fresh(s)'
      BY <1>1, <1>2, <2>2, <3>1 DEF OneStarter, Fresh, TypeOK, Runs
    <3>3. \A d \in Calls : calls'[d].step = "profile" => d # c /\ calls'[d] = calls[d] /\ calls[d].run # r
      BY <1>1, <2>4 DEF OneStarter
    <3>4. ASSUME NEW d \in Calls, calls'[d].step = "profile"
          PROVE  calls'[d].run \in 1..minted /\ at'[calls'[d].run] = 0 /\ io'[calls'[d].run] = "none"
      <4>1. calls[d].step = "profile" /\ calls'[d] = calls[d] /\ calls[d].run # r
        BY <3>3, <3>4
      <4>2. calls[d].run \in 1..minted /\ Fresh(calls[d].run)
        BY <1>1, <4>1 DEF OneStarter
      <4>3. calls[d].run \in Runs
        BY <1>1, <4>2, DocRunAssumption DEF TypeOK, Runs
      <4>4. at'[calls[d].run] = 0 /\ io'[calls[d].run] = "none"
        BY <1>1, <1>2, <2>2, <4>1, <4>2, <4>3 DEF Fresh, TypeOK
      <4>5. QED
        BY <4>1, <4>2, <4>4
    <3>5. \A d, e \in Calls :
            calls'[d].step = "profile" /\ calls'[e].step = "profile" /\ calls'[d].run = calls'[e].run => d = e
      BY <1>1, <3>3 DEF OneStarter
    <3>6. QED
      BY <1>2, <3>1, <3>2, <3>4, <3>5 DEF OneStarter, Fresh
  <2>6. OnlyRun(r)
    BY <1>1, <1>2, <2>2 DEF OnlyRun, TypeOK
  <2>7. InStep(r) /\ Documented(r)
    BY <1>1 DEF DocInv, RunInv
  <2>8. at'[r] = 0 /\ saving'[r].state = "planned" /\ leaving'[r] = "no"
    BY <1>1, <1>2, <2>1, <2>2 DEF Fresh, TypeOK
  <2>9. InStep(r)'
    BY <1>1, <1>2, <2>7, <2>8, ProgramIs DEF InStep, Fresh
  <2>10. Documented(r)'
    BY <1>1, <1>2, <2>7, <2>8, ProgramIs DEF Documented, Fresh
  <2>11. QED
    BY <1>1, <2>3, <2>5, <2>6, <2>9, <2>10, OthersKept DEF DocInv, RunInv
<1>4. CASE SetCall(c, "rejected", 0) /\ UNCHANGED <<io, saving, leaving>>
  BY <1>1, <1>2, <1>4, CallKeeps DEF CallSteps, runVars
<1>5. QED
  BY <1>1, <1>3, <1>4 DEF StartProfile

LEMMA CancelKeeps ==
  ASSUME DocInv, NEW r \in Runs, CancelLoads(r) \/ CancelRecords(r)
  PROVE  DocInv'
<1>1. TypeOK /\ OneStarter
  BY DEF DocInv
<1>2. /\ UNCHANGED <<runOf, planCached, calls, manifest, visible, at, io, saving, leaving,
                     machine, documented, orphaned, minted, faults, crashes>>
      /\ cancel' \subseteq Runs /\ cancelling' \subseteq Runs /\ cancels' \in 0..MaxCancels
      /\ UNCHANGED runVars
  BY <1>1, DocRunAssumption DEF CancelLoads, CancelRecords, TypeOK, runVars
<1>3. TypeOK'
  BY <1>1, <1>2 DEF TypeOK
<1>4. OneStarter'
  BY <1>1, <1>2 DEF OneStarter, Fresh
<1>5. QED
  BY <1>2, <1>3, <1>4, RunsKept DEF DocInv

\* The restart leaves every run returned, with the documents and the manifest it
\* had: a run that promoted its documents had not failed.
LEMMA CrashRestartKeeps ==
  ASSUME DocInv, CrashRestart
  PROVE  DocInv'
<1>1. TypeOK
  BY DEF DocInv
<1>2. /\ runOf' = 0 /\ planCached' = FALSE /\ cancel' = {} /\ cancelling' = {}
      /\ calls' = [c \in Calls |-> IF calls[c].step \in {"idle", "returned", "rejected"}
                                     THEN calls[c] ELSE [step |-> "rejected", run |-> 0]]
      /\ orphaned' = orphaned \cup {r \in 1..minted : at[r] # Returned}
      /\ at' = [r \in Runs |-> Returned] /\ io' = [r \in Runs |-> "none"]
      /\ saving' = [r \in Runs |-> NoManifest] /\ leaving' = [r \in Runs |-> "no"]
      /\ machine' = [r \in Runs |-> InitialMachine]
      /\ UNCHANGED <<manifest, visible, documented, minted, faults, cancels>>
      /\ crashes' = crashes + 1 /\ crashes < MaxCrashes
  BY DEF CrashRestart
<1>3. calls' \in [Calls -> [step : CallSteps, run : 0..MaxRuns]]
      /\ \A c \in Calls : calls'[c].step \in {"idle", "returned", "rejected"}
  <2>1. ASSUME NEW c \in Calls
        PROVE  /\ calls'[c] \in [step : CallSteps, run : 0..MaxRuns]
               /\ calls'[c].step \in {"idle", "returned", "rejected"}
    BY <1>1, <1>2, DocRunAssumption DEF TypeOK, CallSteps
  <2>2. QED
    BY <1>2, <2>1
<1>4. NoManifest \in Manifests /\ InitialMachine \in Machines
  BY DEF NoManifest, ManifestOf, Manifests, InitialMachine, Machines, RunStates, Chain
<1>5. TypeOK'
  <2>1. orphaned' \subseteq Runs
    BY <1>1, <1>2, RunsMinted DEF TypeOK
  <2>2. /\ runOf' \in 0..minted' /\ planCached' \in BOOLEAN /\ cancel' \subseteq Runs
        /\ cancelling' \subseteq Runs /\ crashes' \in 0..MaxCrashes
    <3>1. minted' \in 0..MaxRuns /\ 0 \in 0..minted'
      BY <1>1, <1>2, DocRunAssumption DEF TypeOK
    <3>2. crashes + 1 \in 0..MaxCrashes
      BY <1>1, <1>2, DocRunAssumption DEF TypeOK
    <3>3. QED
      BY <1>2, <3>1, <3>2
  <2>3. /\ at' \in [Runs -> 0..Returned] /\ io' \in [Runs -> {"none", "vacate", "fill"}]
        /\ saving' \in [Runs -> Manifests] /\ leaving' \in [Runs -> {"no", "return", "catch"}]
        /\ machine' \in [Runs -> Machines]
    BY <1>2, <1>4, ProgramIs
  <2>4. QED
    BY <1>1, <1>2, <1>3, <2>1, <2>2, <2>3 DEF TypeOK
<1>6. OneStarter'
  BY <1>2, <1>3 DEF OneStarter
<1>7. ASSUME NEW r \in Runs PROVE InStep(r)' /\ Documented(r)'
  <2>1. at'[r] = Returned /\ io'[r] = "none" /\ manifest'[r] = manifest[r]
    BY <1>2
  <2>2. InStep(r)'
    BY <2>1, ProgramIs DEF InStep
  <2>3. r \in documented => manifest[r].state \notin {"failed", "cancelled"}
    <3>1. InStep(r) /\ Documented(r)
      BY DEF DocInv, RunInv
    <3>2. 15 \in DOMAIN Program
      BY ProgramIs
    <3>3. r \in documented /\ at[r] = 15 => manifest[r].state = "promoting"
      BY <3>1, <3>2, StatesAre DEF InStep
    <3>4. QED
      BY <3>1, <3>3, ProgramIs DEF Documented
  <2>4. QED
    BY <1>2, <2>1, <2>2, <2>3 DEF Documented
<1>8. QED
  BY <1>5, <1>6, <1>7 DEF DocInv, RunInv

-----------------------------------------------------------------------------
(* The invariant, and the theorems *)

LEMMA DocInit == Init => DocInv
<1> SUFFICES ASSUME Init PROVE DocInv
  OBVIOUS
<1>1. NoManifest \in Manifests /\ InitialMachine \in Machines
  BY DEF NoManifest, ManifestOf, Manifests, InitialMachine, Machines, RunStates, Chain
<1>2. TypeOK
  BY <1>1, DocRunAssumption, ProgramIs DEF Init, TypeOK, CallSteps
<1>3. OneStarter
  BY DEF Init, OneStarter, Fresh
<1>4. \A r \in Runs : InStep(r) /\ Documented(r)
  BY ProgramIs DEF Init, InStep, Documented
<1>5. QED
  BY <1>2, <1>3, <1>4 DEF DocInv, RunInv

LEMMA DocStep == DocInv /\ [Next]_vars => DocInv'
<1> SUFFICES ASSUME DocInv, [Next]_vars PROVE DocInv'
  OBVIOUS
<1>1. ASSUME NEW c \in Calls, StartRun(c) PROVE DocInv'
  BY <1>1, StartRunKeeps
<1>2. ASSUME NEW c \in Calls, CallStep(c) PROVE DocInv'
  BY <1>2, StartLoadsKeeps, StartProfileKeeps, StartReturnsKeeps DEF CallStep
<1>3. ASSUME NEW r \in Runs, Execute(r) PROVE DocInv'
  BY <1>3, ExecuteProfileKeeps, ExecuteAdvanceKeeps, ExecuteCheckpointKeeps, ExecuteCaptureKeeps,
     ExecuteDocumentKeeps, ExecuteFinishKeeps, SaveVacatesKeeps, SaveFillsKeeps DEF Execute
<1>4. ASSUME NEW r \in Runs, SaveFails(r) PROVE DocInv'
  BY <1>4, SaveFailsKeeps
<1>5. ASSUME NEW r \in Runs, CancelLoads(r) \/ CancelRecords(r) PROVE DocInv'
  BY <1>5, CancelKeeps
<1>6. CASE CrashRestart
  BY <1>6, CrashRestartKeeps
<1>7. CASE UNCHANGED vars
  BY <1>7 DEF vars, DocInv, TypeOK, OneStarter, Fresh, RunInv, InStep, Documented
<1>8. QED
  BY <1>1, <1>2, <1>3, <1>4, <1>5, <1>6, <1>7 DEF Next

\* The invariant of the runs of a plan: besides the types, a run is minted for one
\* call of startRun only, its manifest shows the step its execution has reached,
\* and its documents are promoted by the last step before it records its end.
THEOREM RunsStayInStep == Spec => []DocInv
<1>1. QED
  BY DocInit, DocStep, PTL DEF Spec

\* A run reported as failed or cancelled left the documents of earlier runs alone,
\* whichever of its saves failed and whenever it was cancelled.
THEOREM FailedRunsTouchNothing == Spec => []UnfinishedTouchedNothing
<1>1. DocInv => UnfinishedTouchedNothing
  <2> SUFFICES ASSUME DocInv, NEW r \in Runs, r \in documented
               PROVE  manifest[r].state \notin {"failed", "cancelled"}
    BY DEF UnfinishedTouchedNothing
  <2>1. InStep(r) /\ Documented(r)
    BY DEF DocInv, RunInv
  <2>2. 15 \in DOMAIN Program
    BY ProgramIs
  <2>3. at[r] = 15 => manifest[r].state = "promoting"
    BY <2>1, <2>2, StatesAre DEF InStep
  <2>4. QED
    BY <2>1, <2>3, ProgramIs DEF Documented
<1>2. QED
  BY <1>1, RunsStayInStep, PTL

\* The states a client can read of a run follow the machine of executeRun, one
\* legal edge at a time: only the second rename of a save changes them.
THEOREM ManifestsFollowTheMachine == Spec => ManifestFollowsMachine
<1> DEFINE Follows == \A r \in Runs : Succeeds(manifest[r].state, manifest'[r].state)
<1>1. DocInv /\ [Next]_vars => [Follows]_vars
  <2> SUFFICES ASSUME DocInv, Next PROVE Follows
    OBVIOUS
  <2>1. UNCHANGED manifest => Follows
    BY DEF Succeeds
  <2>2. ASSUME NEW c \in Calls, StartRun(c) \/ CallStep(c) PROVE Follows
    BY <2>1, <2>2 DEF StartRun, CallStep, StartLoads, StartProfile, StartReturns, runVars
  <2>3. ASSUME NEW r \in Runs, SaveFills(r) PROVE Follows
    <3>1. TypeOK /\ io[r] # "none" /\ manifest' = [manifest EXCEPT ![r] = saving[r]]
      BY <2>3 DEF DocInv, SaveFills
    <3>2. Succeeds(manifest[r].state, saving[r].state)
      BY <3>1, SavedFacts
    <3>3. manifest'[r] = saving[r] /\ \A s \in Runs \ {r} : manifest'[s] = manifest[s]
      BY <3>1 DEF TypeOK
    <3>4. \A s \in Runs \ {r} : Succeeds(manifest[s].state, manifest'[s].state)
      BY <3>3 DEF Succeeds
    <3>5. QED
      BY <3>2, <3>3, <3>4
  <2>4. ASSUME NEW r \in Runs, Execute(r), ~SaveFills(r) PROVE Follows
    BY <2>1, <2>4 DEF Execute, ExecuteProfile, ExecuteAdvance, ExecuteCheckpoint, ExecuteCapture,
       ExecuteDocument, ExecuteFinish, SaveVacates
  <2>5. ASSUME NEW r \in Runs, SaveFails(r) \/ CancelLoads(r) \/ CancelRecords(r) PROVE Follows
    BY <2>1, <2>5 DEF SaveFails, CancelLoads, CancelRecords, runVars
  <2>6. CASE CrashRestart
    BY <2>1, <2>6 DEF CrashRestart
  <2>7. QED
    BY <2>2, <2>3, <2>4, <2>5, <2>6 DEF Next
<1>2. Spec => [][Follows]_vars
  BY <1>1, RunsStayInStep, PTL DEF Spec
<1>3. QED
  BY <1>2 DEF ManifestFollowsMachine

=============================================================================
