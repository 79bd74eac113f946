--------------------------- MODULE MCServices_proofs ---------------------------
(***************************************************************************)
(* Proofs about the components around the pipeline, for every value of     *)
(* their constants, and about the lock that the profile store, the run     *)
(* store, the narration journal and a capture take: FileLock, whose        *)
(* processes and steps are its own and no part of MCServices.              *)
(***************************************************************************)
EXTENDS MCServices, FileLock, Sequences, SequenceTheorems, FiniteSetTheorems, TLAPS

\* The instances count as this module does.
LEMMA SameCardinality ==
  ASSUME NEW X
  PROVE  C!Cardinality(X) = Cardinality(X) /\ D!Cardinality(X) = Cardinality(X)
  BY DEF C!Cardinality, D!Cardinality, Cardinality

-----------------------------------------------------------------------------
(* The update of the tool *)

\* Before the tree moves, and after the command, an output of other code is owed; while
\* it builds, what is installed is of the code.
Owing ==
  /\ update \notin {"install", "build"} /\ (built # head \/ installed # head) => owed
  /\ update = "build" => installed = head

LEMMA OwingInit == ServicesInit => Owing
  BY DEF ServicesInit, U!Init, Owing

LEMMA OwingStep == Owing /\ U!Next => Owing'
<1>. SUFFICES ASSUME Owing, U!Next PROVE Owing'
  OBVIOUS
<1>. USE DEF Owing, U!clone, U!outputs, U!End
<1>1. CASE U!Published
  BY <1>1 DEF U!Published
<1>2. CASE U!Develops
  BY <1>2 DEF U!Develops
<1>3. CASE U!Start
  BY <1>3 DEF U!Start
<1>4. CASE U!Status
  <2>1. built' = built /\ installed' = installed /\ head' = head /\ owed' = owed
    BY <1>4 DEF U!Status
  <2>2. update' \in {"idle", "confirm"} /\ update = "status"
    BY <1>4 DEF U!Status
  <2>. QED
    BY <2>1, <2>2
<1>5. CASE U!StatusFails \/ U!Confirm \/ U!Pull \/ U!PullFails
  BY <1>5 DEF U!StatusFails, U!Confirm, U!Pull, U!PullFails
<1>6. CASE U!Install \/ U!InstallFails
  BY <1>6 DEF U!Install, U!InstallFails
<1>7. CASE U!Build \/ U!BuildFails
  BY <1>7 DEF U!Build, U!BuildFails
<1>8. CASE U!Killed
  <2>1. /\ update' = "idle" /\ update # "idle" /\ update # "status"
        /\ built' = built /\ installed' = installed /\ head' = head
        /\ owed' = (owed \/ update \in {"install", "build"})
    BY <1>8 DEF U!Killed
  <2>2. SUFFICES ASSUME built # head \/ installed # head PROVE owed'
    BY <2>1
  <2>3. CASE owed
    BY <2>1, <2>3, Zenon
  <2>4. CASE update \in {"install", "build"}
    BY <2>1, <2>4, Zenon
  <2>5. CASE ~owed /\ update \notin {"install", "build"}
    BY <2>2, <2>5
  <2>. QED
    BY <2>3, <2>4, <2>5
<1>. QED
  BY <1>1, <1>2, <1>3, <1>4, <1>5, <1>6, <1>7, <1>8 DEF U!Next

\* runUpdate (update.ts): whatever happens between its steps, code that is not the code
\* installed and built is left behind only by a killed run, or one that said it failed.
THEOREM StaleBuildsAreReported == ServicesSpec => []StaleBuildWasReported
<1>1. Owing /\ [ServicesNext]_services => Owing'
  <2>. SUFFICES ASSUME Owing, [ServicesNext]_services PROVE Owing'
    OBVIOUS
  <2>1. CASE U!Next
    BY <2>1, OwingStep
  <2>2. CASE UNCHANGED self
    BY <2>2 DEF Owing, self
  <2>. QED
    BY <2>1, <2>2 DEF ServicesNext, services
<1>2. Owing => StaleBuildWasReported
  BY DEF Owing, StaleBuildWasReported, U!StaleBuildWasReported
<1>. QED
  BY OwingInit, <1>1, <1>2, PTL DEF ServicesSpec

-----------------------------------------------------------------------------
(* The request budget *)

CallerSteps == {"idle", "send", "await", "issue", "fetch", "sleep"}

\* The callers that have passed the check of the budget and are not charged yet.
Uncharged == {c \in Callers : caller[c] \in {"await", "issue"}}

\* What has been charged, with what is about to be, overruns the budget by no more
\* than one for each caller but the first.
Charged ==
  /\ caller \in [Callers -> CallerSteps]
  /\ requestCount \in Nat /\ issued = requestCount
  /\ requestCount + Cardinality(Uncharged) <= MaxRequests + Cardinality(Callers) - 1

LEMMA CallerSets ==
  /\ IsFiniteSet(Uncharged) /\ Cardinality(Uncharged) \in Nat
  /\ Cardinality(Callers) \in Nat /\ Cardinality(Callers) >= 1
  /\ Cardinality(Uncharged) <= Cardinality(Callers)
<1>1. IsFiniteSet(Callers) /\ Callers # {}
  BY ServicesAssumption
<1>2. Uncharged \subseteq Callers
  BY DEF Uncharged
<1>. QED
  BY <1>1, <1>2, FS_Subset, FS_CardinalityType, FS_EmptySet

LEMMA ChargedInit == ServicesInit => Charged
<1>. SUFFICES ASSUME ServicesInit PROVE Charged
  OBVIOUS
<1>1. C!Init
  BY DEF ServicesInit
<1>2. caller = [c \in Callers |-> "idle"] /\ requestCount = 0 /\ issued = 0
  BY <1>1 DEF C!Init
<1>3. Uncharged = {}
  BY <1>2 DEF Uncharged
<1>. QED
  BY <1>2, <1>3, FS_EmptySet, CallerSets, ServicesAssumption DEF Charged, CallerSteps

\* A step that charges nothing and lets no caller pass the check keeps the bound.
LEMMA ChargesNothing ==
  ASSUME Charged, NEW c \in Callers, NEW s \in CallerSteps,
         caller' = [caller EXCEPT ![c] = s],
         s \in {"await", "issue"} => caller[c] \in {"await", "issue"},
         UNCHANGED <<requestCount, issued>>
  PROVE  Charged'
<1>1. Uncharged' \subseteq Uncharged
  BY DEF Uncharged, Charged
<1>2. Cardinality(Uncharged') \in Nat /\ Cardinality(Uncharged') <= Cardinality(Uncharged)
  BY <1>1, CallerSets, FS_Subset, FS_CardinalityType
<1>3. caller' \in [Callers -> CallerSteps]
  BY DEF Charged
<1>. QED
  BY <1>2, <1>3, CallerSets, ServicesAssumption DEF Charged

\* A caller passes the check while the budget is not spent.
LEMMA PassesTheCheck ==
  ASSUME Charged, NEW c \in Callers, NEW s \in {"await", "issue"},
         ~C!Spent, caller[c] = "send", caller' = [caller EXCEPT ![c] = s],
         UNCHANGED <<requestCount, issued>>
  PROVE  Charged'
<1>1. caller' \in [Callers -> CallerSteps]
  BY DEF Charged, CallerSteps
<1>2. Uncharged' \subseteq Callers
  BY DEF Uncharged
<1>3. Cardinality(Uncharged') \in Nat /\ Cardinality(Uncharged') <= Cardinality(Callers)
  BY <1>2, ServicesAssumption, FS_Subset, FS_CardinalityType
<1>4. requestCount < MaxRequests
  BY ServicesAssumption DEF C!Spent, Charged
<1>. QED
  BY <1>1, <1>3, <1>4, CallerSets, ServicesAssumption DEF Charged

\* A media URI is charged as its caller passes the check, with the others still waiting.
LEMMA ChargedAtOnce ==
  ASSUME Charged, NEW c \in Callers,
         ~C!Spent, caller[c] = "send", caller' = [caller EXCEPT ![c] = "fetch"],
         requestCount' = requestCount + 1, issued' = issued + 1
  PROVE  Charged'
<1>1. caller' \in [Callers -> CallerSteps]
  BY DEF Charged, CallerSteps
<1>2. Uncharged' \subseteq Callers \ {c}
  BY DEF Uncharged, Charged
<1>3. /\ IsFiniteSet(Callers \ {c})
      /\ Cardinality(Callers \ {c}) = Cardinality(Callers) - 1
  BY ServicesAssumption, FS_RemoveElement
<1>4. Cardinality(Uncharged') \in Nat /\ Cardinality(Uncharged') <= Cardinality(Callers) - 1
  BY <1>2, <1>3, FS_Subset, FS_CardinalityType
<1>5. requestCount < MaxRequests
  BY ServicesAssumption DEF C!Spent, Charged
<1>. QED
  BY <1>1, <1>4, <1>5, CallerSets, ServicesAssumption DEF Charged

\* A caller that has its token is charged, and waits for it no longer.
LEMMA ChargedAfterTheToken ==
  ASSUME Charged, NEW c \in Callers,
         caller[c] = "issue", caller' = [caller EXCEPT ![c] = "fetch"],
         requestCount' = requestCount + 1, issued' = issued + 1
  PROVE  Charged'
<1>1. caller' \in [Callers -> CallerSteps]
  BY DEF Charged, CallerSteps
<1>2. c \in Uncharged /\ Uncharged' = Uncharged \ {c}
  BY DEF Uncharged, Charged
<1>3. Cardinality(Uncharged') = Cardinality(Uncharged) - 1
  BY <1>2, CallerSets, FS_RemoveElement
<1>. QED
  BY <1>1, <1>3, CallerSets, ServicesAssumption DEF Charged

LEMMA EndedMoves ==
  ASSUME NEW c \in Callers, NEW category, C!Ended(c, category)
  PROVE  \E s \in {"send", "idle"} : caller' = [caller EXCEPT ![c] = s]
  BY DEF C!Ended, C!Goto

\* An end of a request keeps the bound, when it charges nothing.
LEMMA EndedCharges ==
  ASSUME Charged, NEW c \in Callers, NEW category, C!Ended(c, category),
         UNCHANGED <<requestCount, issued>>
  PROVE  Charged'
<1>1. PICK s \in {"send", "idle"} : caller' = [caller EXCEPT ![c] = s]
  BY EndedMoves
<1>2. s \in CallerSteps /\ s \notin {"await", "issue"}
  BY <1>1 DEF CallerSteps
<1>. QED
  BY <1>1, <1>2, ChargesNothing

LEMMA SendCharges ==
  ASSUME Charged, NEW c \in Callers, C!Send(c)
  PROVE  Charged'
<1>1. caller[c] = "send"
  BY DEF C!Send, C!At
<1>2. CASE C!Spent /\ C!Ended(c, "transport") /\ UNCHANGED <<requestCount, issued>>
  BY <1>2, EndedCharges
<1>3. CASE ~C!Spent /\ requestCount' = requestCount + 1 /\ issued' = issued + 1 /\ C!Goto(c, "fetch")
  BY <1>1, <1>3, ChargedAtOnce DEF C!Goto
<1>4. CASE ~C!Spent /\ C!Goto(c, "issue") /\ UNCHANGED <<requestCount, issued>>
  BY <1>1, <1>4, PassesTheCheck DEF C!Goto
<1>5. CASE ~C!Spent /\ C!Goto(c, "await") /\ UNCHANGED <<requestCount, issued>>
  BY <1>1, <1>5, PassesTheCheck DEF C!Goto
<1>. QED
  BY <1>2, <1>3, <1>4, <1>5 DEF C!Send, C!counts

LEMMA ChargedStep == Charged /\ C!Next => Charged'
<1>. SUFFICES ASSUME Charged, C!Next PROVE Charged'
  OBVIOUS
<1>. USE DEF C!counts, C!session, C!At, C!Goto
<1>1. ASSUME NEW c \in Callers, C!Call(c) PROVE Charged'
  <2>1. caller' = [caller EXCEPT ![c] = "send"] /\ UNCHANGED <<requestCount, issued>>
    BY <1>1 DEF C!Call
  <2>. QED
    BY <2>1, ChargesNothing DEF CallerSteps
<1>2. ASSUME NEW c \in Callers, C!Resume(c) PROVE Charged'
  <2>1. caller[c] = "await" /\ UNCHANGED <<requestCount, issued>>
    BY <1>2 DEF C!Resume
  <2>2. CASE inFlight.expires # None
    <3>1. caller' = [caller EXCEPT ![c] = "issue"]
      BY <1>2, <2>2 DEF C!Resume
    <3>. QED
      BY <2>1, <3>1, ChargesNothing DEF CallerSteps
  <2>3. CASE inFlight.expires = None
    <3>1. PICK category : C!Ended(c, category)
      BY <1>2, <2>3 DEF C!Resume
    <3>. QED
      BY <2>1, <3>1, EndedCharges
  <2>. QED
    BY <2>2, <2>3
<1>3. ASSUME NEW c \in Callers, C!Issue(c) PROVE Charged'
  BY <1>3, ChargedAfterTheToken DEF C!Issue
<1>4. ASSUME NEW c \in Callers, C!Respond(c) PROVE Charged'
  <2>1. UNCHANGED <<requestCount, issued>>
    BY <1>4 DEF C!Respond
  <2>2. \/ \E category : C!Ended(c, category)
        \/ caller' = [caller EXCEPT ![c] = "sleep"]
    BY <1>4 DEF C!Respond
  <2>. QED
    BY <2>1, <2>2, EndedCharges, ChargesNothing DEF CallerSteps
<1>5. ASSUME NEW c \in Callers, C!Wake(c) PROVE Charged'
  <2>1. caller' = [caller EXCEPT ![c] = "send"] /\ UNCHANGED <<requestCount, issued>>
    BY <1>5 DEF C!Wake
  <2>. QED
    BY <2>1, ChargesNothing DEF CallerSteps
<1>6. CASE C!Settle \/ C!Clear \/ C!Tick
  BY <1>6 DEF C!Settle, C!Clear, C!Tick, Charged, Uncharged
<1>. QED
  BY <1>1, <1>2, <1>3, <1>4, <1>5, <1>6, SendCharges DEF C!Next

\* PlatformApiClient (client.ts, #send): the budget is checked before the wait for a token
\* and charged after it; however many callers wait at once, and whatever the answers,
\* it is overrun by no more than one request for each caller but one.
THEOREM OverrunIsBounded == ServicesSpec => []BudgetOverrunBounded
<1>1. Charged /\ [ServicesNext]_services => Charged'
  <2>. SUFFICES ASSUME Charged, [ServicesNext]_services PROVE Charged'
    OBVIOUS
  <2>1. CASE C!Next
    BY <2>1, ChargedStep
  <2>2. CASE UNCHANGED client
    BY <2>2 DEF Charged, Uncharged, client
  <2>. QED
    BY <2>1, <2>2 DEF ServicesNext, services
<1>2. Charged => BudgetOverrunBounded
  <2>. SUFFICES ASSUME Charged PROVE issued <= MaxRequests + Cardinality(Callers) - 1
    BY SameCardinality DEF BudgetOverrunBounded, C!BudgetOverrunBounded
  <2>1. /\ MaxRequests \in Nat /\ Cardinality(Callers) \in Nat /\ Cardinality(Uncharged) \in Nat
    BY CallerSets, ServicesAssumption
  <2>. QED
    BY <2>1 DEF Charged
<1>. QED
  BY ChargedInit, <1>1, <1>2, PTL DEF ServicesSpec

-----------------------------------------------------------------------------
(* Plans *)

Stages == {"started", "capturing", "captured", "documented", "ended"}
Read == Planned \X Int
RunRecords ==
  [stage : Stages, pending : SUBSET Planned, read : SUBSET Read, failed : SUBSET Planned,
   documented : SUBSET Read, source : Nat, seen : SUBSET Read]

PlanTypes ==
  /\ offered \in [Planned -> Int]
  /\ \E X : plans \in Seq(X)
  /\ planRuns \in [DOMAIN planRuns -> RunRecords] /\ DOMAIN planRuns \subseteq DOMAIN plans
  /\ \A p \in DOMAIN plans : D!InPlan(p) \subseteq Planned
  /\ \A r \in request : DOMAIN r.candidates \subseteq Planned
  /\ planBundle \in [of : Nat, flows : SUBSET Read]

Stage(p, s) == p \in DOMAIN planRuns /\ planRuns[p].stage = s
Seen(p) == planRuns[p].seen

\* What is published is seen by every run under way; so is what the one capture reads, by it
\* and by every run that waits to document; and so is the bundle they would document.
AllSeen ==
  /\ \A p \in DOMAIN planRuns :
       planRuns[p].stage \in {"started", "capturing", "captured"} => D!Published \subseteq Seen(p)
  /\ \A p : Stage(p, "capturing") =>
       /\ planRuns[p].read \subseteq Seen(p)
       /\ \A q : Stage(q, "capturing") => q = p
       /\ \A q : Stage(q, "captured") => planRuns[p].read \subseteq Seen(q)
  /\ \A p : Stage(p, "captured") => planBundle.flows \subseteq Seen(p)
  /\ \A p : Stage(p, "documented") => planRuns[p].documented \subseteq Seen(p)

\* Every flow of p's plan is among flows, still to come, reported or deleted.
Covers(p, flows, pending) ==
  \A f \in D!InPlan(p) :
    \/ f \in pending \/ f \in planRuns[p].failed \/ offered[f] = D!Gone
    \/ \E d \in flows : d[1] = f

AllCovered ==
  /\ \A p : Stage(p, "started") => planRuns[p].pending = D!InPlan(p) /\ planRuns[p].read = {}
  /\ \A p : Stage(p, "capturing") => Covers(p, planRuns[p].read, planRuns[p].pending)
  /\ \A p : Stage(p, "captured") /\ planBundle.of = p => Covers(p, planBundle.flows, {})
  /\ \A p : Stage(p, "documented") /\ planRuns[p].source = p =>
       Covers(p, planRuns[p].documented, {})

PlanInv == PlanTypes /\ AllSeen /\ AllCovered

\* One more element at the end of a sequence, whatever its elements are.
LEMMA OneMore ==
  ASSUME NEW X, NEW s \in Seq(X), NEW e
  PROVE  /\ Append(s, e) \in Seq(X \cup {e})
         /\ Len(s) \in Nat /\ DOMAIN s = 1 .. Len(s)
         /\ DOMAIN Append(s, e) = DOMAIN s \cup {Len(s) + 1}
         /\ \A p \in DOMAIN s : Append(s, e)[p] = s[p]
         /\ Append(s, e)[Len(s) + 1] = e
<1>1. s \in Seq(X \cup {e})
  OBVIOUS
<1>2. Append(s, e) \in Seq(X \cup {e})
  BY <1>1
<1>. QED
  BY <1>1, <1>2

LEMMA SelectionsAreOfFlows ==
  ASSUME NEW scope \in D!Scopes
  PROVE  DOMAIN scope.versions \subseteq Planned
<1>1. First \in Planned /\ Second \in Planned
  <2>1. Planned # {}
    BY ServicesAssumption, FS_EmptySet
  <2>2. First \in Planned
    BY <2>1 DEF First
  <2>3. Planned # {First}
    <3>1. Cardinality({First}) = 1
      BY FS_Singleton
    <3>. QED
      BY <3>1, ServicesAssumption
  <2>. QED
    BY <2>2, <2>3 DEF Second
<1>2. \A s \in MCSelections : DOMAIN s \subseteq Planned
  BY <1>1 DEF MCSelections
<1>. QED
  BY <1>2 DEF D!Scopes

LEMMA PlanInit == ServicesInit => PlanInv
<1>. SUFFICES ASSUME ServicesInit PROVE PlanInv
  OBVIOUS
<1>1. D!Init
  BY DEF ServicesInit
<1>2. offered \in [Planned -> Int]
  BY <1>1 DEF D!Init, MCTenants
<1>3. /\ plans = <<>> /\ DOMAIN planRuns = {} /\ planRuns = [p \in {} |-> {}] /\ request = {}
      /\ planBundle = [of |-> 0, flows |-> {}]
  BY <1>1 DEF D!Init, D!NoBundle
<1>4. plans \in Seq({})
  BY <1>3
<1>5. planBundle \in [of : Nat, flows : SUBSET Read]
  BY <1>3
<1>6. PlanTypes
  BY <1>2, <1>3, <1>4, <1>5 DEF PlanTypes
<1>. QED
  BY <1>3, <1>6 DEF PlanInv, AllSeen, AllCovered, Stage

\* The tenant changes: every run under way sees it, and what is deleted stays so.
LEMMA ChangeKeeps ==
  ASSUME PlanInv, NEW f \in Planned, NEW v \in Int, D!Change(f, v),
         offered[f] = D!Gone => v = D!Gone
  PROVE  PlanInv'
<1>. DEFINE Saw(p) == [planRuns[p] EXCEPT !.seen = @ \cup {<<f, v>>}]
<1>1. /\ offered' = [offered EXCEPT ![f] = v]
      /\ planRuns' = [p \in DOMAIN planRuns |-> IF p \in D!Running THEN Saw(p) ELSE planRuns[p]]
      /\ UNCHANGED <<request, plans, planBundle>>
  BY DEF D!Change
<1>2. \A p \in DOMAIN planRuns : planRuns[p] \in RunRecords
  BY DEF PlanInv, PlanTypes
<1>3. <<f, v>> \in Read
  BY DEF Read
<1>4. ASSUME NEW p \in DOMAIN planRuns
      PROVE  /\ Saw(p) \in RunRecords /\ Saw(p).seen = Seen(p) \cup {<<f, v>>}
             /\ Saw(p).stage = planRuns[p].stage /\ Saw(p).pending = planRuns[p].pending
             /\ Saw(p).read = planRuns[p].read /\ Saw(p).failed = planRuns[p].failed
             /\ Saw(p).documented = planRuns[p].documented /\ Saw(p).source = planRuns[p].source
  BY <1>2, <1>3 DEF RunRecords, Seen
<1>. HIDE DEF Saw
<1>5. ASSUME NEW p \in DOMAIN planRuns
      PROVE  /\ planRuns'[p] \in RunRecords
             /\ planRuns'[p].stage = planRuns[p].stage /\ planRuns'[p].pending = planRuns[p].pending
             /\ planRuns'[p].read = planRuns[p].read /\ planRuns'[p].failed = planRuns[p].failed
             /\ planRuns'[p].documented = planRuns[p].documented
             /\ planRuns'[p].source = planRuns[p].source
             /\ Seen(p) \subseteq Seen(p)'
             /\ planRuns[p].stage \in {"started", "capturing", "captured"} => <<f, v>> \in Seen(p)'
  BY <1>1, <1>2, <1>4 DEF Seen, D!Running, D!Under
<1>6. DOMAIN planRuns' = DOMAIN planRuns /\ planRuns' = [p \in DOMAIN planRuns |-> planRuns'[p]]
  BY <1>1
<1>7. offered' \in [Planned -> Int] /\ \A g \in Planned : offered[g] = D!Gone => offered'[g] = D!Gone
  BY <1>1 DEF PlanInv, PlanTypes
<1>8. PlanTypes'
  BY <1>1, <1>5, <1>6, <1>7 DEF PlanInv, PlanTypes, D!InPlan
<1>9. D!Published' \subseteq D!Published \cup {<<f, v>>}
  BY <1>1 DEF D!Published, PlanInv, PlanTypes
<1>10. \A p, s : Stage(p, s)' <=> Stage(p, s)
  BY <1>5, <1>6 DEF Stage
<1>11. AllSeen'
  <2>1. ASSUME NEW p \in DOMAIN planRuns, planRuns[p].stage \in {"started", "capturing", "captured"}
        PROVE  D!Published' \subseteq Seen(p)'
    BY <1>5, <1>9, <2>1 DEF PlanInv, AllSeen
  <2>2. \A p, s : Stage(p, s) => p \in DOMAIN planRuns
    BY DEF Stage
  <2>3. ASSUME NEW p, Stage(p, "capturing")
        PROVE  /\ planRuns'[p].read \subseteq Seen(p)'
               /\ \A q : Stage(q, "capturing") => q = p
               /\ \A q : Stage(q, "captured") => planRuns'[p].read \subseteq Seen(q)'
    BY <1>5, <2>2, <2>3 DEF PlanInv, AllSeen
  <2>4. \A p : Stage(p, "captured") => planBundle'.flows \subseteq Seen(p)'
    BY <1>1, <1>5, <2>2 DEF PlanInv, AllSeen
  <2>5. \A p : Stage(p, "documented") => planRuns'[p].documented \subseteq Seen(p)'
    BY <1>5, <2>2 DEF PlanInv, AllSeen
  <2>. QED
    BY <1>5, <1>6, <1>10, <2>1, <2>3, <2>4, <2>5 DEF AllSeen
<1>12. ASSUME NEW p \in DOMAIN planRuns, NEW flows, NEW pending, Covers(p, flows, pending)
       PROVE  Covers(p, flows, pending)'
  <2>1. D!InPlan(p)' = D!InPlan(p) /\ D!InPlan(p) \subseteq Planned
    BY <1>1 DEF D!InPlan, PlanInv, PlanTypes
  <2>. QED
    BY <1>5, <1>7, <1>12, <2>1 DEF Covers
<1>13. AllCovered'
  <2>1. \A p, s : Stage(p, s) => p \in DOMAIN planRuns
    BY DEF Stage
  <2>2. \A p : Stage(p, "started") =>
          planRuns'[p].pending = D!InPlan(p)' /\ planRuns'[p].read = {}
    BY <1>1, <1>5, <2>1 DEF PlanInv, AllCovered, D!InPlan
  <2>3. ASSUME NEW p, Stage(p, "capturing")
        PROVE  Covers(p, planRuns[p].read, planRuns[p].pending)'
    <3>1. Covers(p, planRuns[p].read, planRuns[p].pending)
      BY <2>3 DEF PlanInv, AllCovered
    <3>2. PICK flows, pending : flows = planRuns[p].read /\ pending = planRuns[p].pending
      OBVIOUS
    <3>3. Covers(p, flows, pending)'
      BY <1>12, <2>1, <2>3, <3>1, <3>2
    <3>. QED
      BY <1>5, <2>1, <2>3, <3>2, <3>3 DEF Covers
  <2>4. ASSUME NEW p, Stage(p, "captured"), planBundle.of = p
        PROVE  Covers(p, planBundle.flows, {})'
    <3>1. PICK flows : flows = planBundle.flows
      OBVIOUS
    <3>2. Covers(p, flows, {})'
      BY <1>12, <2>1, <2>4, <3>1 DEF PlanInv, AllCovered
    <3>. QED
      BY <1>1, <3>1, <3>2 DEF Covers
  <2>5. ASSUME NEW p, Stage(p, "documented"), planRuns[p].source = p
        PROVE  Covers(p, planRuns[p].documented, {})'
    <3>1. PICK flows : flows = planRuns[p].documented
      OBVIOUS
    <3>2. Covers(p, flows, {})'
      BY <1>12, <2>1, <2>5, <3>1 DEF PlanInv, AllCovered
    <3>. QED
      BY <1>5, <2>1, <2>5, <3>1, <3>2 DEF Covers
  <2>6. \A p : Stage(p, "documented") => planRuns'[p].source = planRuns[p].source
    BY <1>5, <2>1
  <2>. QED
    BY <1>1, <1>10, <2>2, <2>3, <2>4, <2>5, <2>6 DEF AllCovered
<1>. QED
  BY <1>8, <1>11, <1>13 DEF PlanInv

LEMMA EndedIsARun == D!EndedRun \in RunRecords /\ D!EndedRun.stage = "ended"
  BY DEF D!EndedRun, RunRecords, Stages

\* Runs that end, all those under way or one, leave what the others need.
LEMMA EndingKeeps ==
  ASSUME PlanInv, NEW E, E \subseteq DOMAIN planRuns,
         planRuns' = [p \in DOMAIN planRuns |-> IF p \in E THEN D!EndedRun ELSE planRuns[p]],
         UNCHANGED <<offered, plans, planBundle>>, request' \subseteq request
  PROVE  PlanInv'
<1>1. /\ DOMAIN planRuns' = DOMAIN planRuns
      /\ \A p \in DOMAIN planRuns : p \in E => planRuns'[p] = D!EndedRun
      /\ \A p \in DOMAIN planRuns : p \notin E => planRuns'[p] = planRuns[p]
  OBVIOUS
<1>2. planRuns' \in [DOMAIN planRuns' -> RunRecords]
  BY <1>1, EndedIsARun DEF PlanInv, PlanTypes
<1>3. PlanTypes'
  BY <1>1, <1>2 DEF PlanInv, PlanTypes, D!InPlan
<1>4. \A p, s : s # "ended" => (Stage(p, s)' <=> Stage(p, s) /\ p \notin E)
  BY <1>1, EndedIsARun DEF Stage
<1>5. \A p, s : Stage(p, s) /\ p \notin E =>
        planRuns'[p] = planRuns[p] /\ Seen(p)' = Seen(p)
  BY <1>1 DEF Stage, Seen
<1>6. D!Published' = D!Published
  BY DEF D!Published
<1>7. AllSeen'
  <2>1. \A p \in DOMAIN planRuns' :
          planRuns'[p].stage \in {"started", "capturing", "captured"} => D!Published' \subseteq Seen(p)'
    BY <1>1, <1>6, EndedIsARun DEF PlanInv, AllSeen, Seen
  <2>2. ASSUME NEW p, Stage(p, "capturing")'
        PROVE  /\ planRuns'[p].read \subseteq Seen(p)'
               /\ \A q : Stage(q, "capturing")' => q = p
               /\ \A q : Stage(q, "captured")' => planRuns'[p].read \subseteq Seen(q)'
    <3>1. Stage(p, "capturing") /\ planRuns'[p] = planRuns[p] /\ Seen(p)' = Seen(p)
      BY <1>4, <1>5, <2>2
    <3>2. \A q : Stage(q, "captured")' => Stage(q, "captured") /\ Seen(q)' = Seen(q)
      BY <1>4, <1>5
    <3>. QED
      BY <1>4, <3>1, <3>2 DEF PlanInv, AllSeen
  <2>3. ASSUME NEW p, Stage(p, "captured")' PROVE planBundle'.flows \subseteq Seen(p)'
    <3>1. Stage(p, "captured") /\ Seen(p)' = Seen(p)
      BY <1>4, <1>5, <2>3
    <3>. QED
      BY <3>1 DEF PlanInv, AllSeen
  <2>4. ASSUME NEW p, Stage(p, "documented")' PROVE planRuns'[p].documented \subseteq Seen(p)'
    <3>1. Stage(p, "documented") /\ Seen(p)' = Seen(p) /\ planRuns'[p] = planRuns[p]
      BY <1>4, <1>5, <2>4
    <3>. QED
      BY <3>1 DEF PlanInv, AllSeen
  <2>. QED
    BY <2>1, <2>2, <2>3, <2>4 DEF AllSeen
<1>8. AllCovered'
  <2>1. \A p : D!InPlan(p)' = D!InPlan(p)
    BY DEF D!InPlan
  <2>2. \A p : Stage(p, "started")' =>
          planRuns'[p].pending = D!InPlan(p)' /\ planRuns'[p].read = {}
    BY <1>4, <1>5, <2>1 DEF PlanInv, AllCovered
  <2>3. \A p : Stage(p, "capturing")' => Covers(p, planRuns[p].read, planRuns[p].pending)'
    BY <1>4, <1>5, <2>1 DEF PlanInv, AllCovered, Covers
  <2>4. \A p : Stage(p, "captured")' /\ planBundle'.of = p => Covers(p, planBundle.flows, {})'
    BY <1>4, <1>5, <2>1 DEF PlanInv, AllCovered, Covers
  <2>5. \A p : Stage(p, "documented")' /\ planRuns'[p].source = p =>
          Covers(p, planRuns[p].documented, {})'
    BY <1>4, <1>5, <2>1 DEF PlanInv, AllCovered, Covers
  <2>. QED
    BY <2>2, <2>3, <2>4, <2>5 DEF AllCovered
<1>. QED
  BY <1>3, <1>7, <1>8 DEF PlanInv

LEMMA CreatePlanKeeps ==
  ASSUME PlanInv, D!CreatePlan
  PROVE  PlanInv'
<1>1. request' = {} /\ UNCHANGED <<offered, planRuns, planBundle>>
  BY DEF D!CreatePlan
<1>2. PICK r \in request : UNCHANGED plans \/ \E made :
        plans' = Append(plans, made) /\ DOMAIN made.targetVersions = DOMAIN r.candidates
  BY DEF D!CreatePlan, D!Matched
<1>3. CASE UNCHANGED plans
  BY <1>1, <1>3 DEF PlanInv, PlanTypes, AllSeen, AllCovered, Stage, Seen, Covers, D!InPlan, D!Published
<1>4. ASSUME NEW made, plans' = Append(plans, made),
             DOMAIN made.targetVersions = DOMAIN r.candidates
      PROVE  PlanInv'
  <2>1. PICK X : plans \in Seq(X)
    BY DEF PlanInv, PlanTypes
  <2>2. /\ plans' \in Seq(X \cup {made})
        /\ DOMAIN plans' = DOMAIN plans \cup {Len(plans) + 1}
        /\ \A p \in DOMAIN plans : plans'[p] = plans[p]
        /\ plans'[Len(plans) + 1] = made
    BY <1>4, <2>1, OneMore
  <2>3. \A p \in DOMAIN plans' : D!InPlan(p)' \subseteq Planned
    BY <1>4, <2>2 DEF PlanInv, PlanTypes, D!InPlan
  <2>4. PlanTypes'
    BY <1>1, <2>2, <2>3 DEF PlanInv, PlanTypes
  <2>5. AllSeen'
    BY <1>1 DEF PlanInv, AllSeen, Stage, Seen, D!Published
  <2>6. \A p \in DOMAIN planRuns : D!InPlan(p)' = D!InPlan(p)
    BY <2>2 DEF PlanInv, PlanTypes, D!InPlan
  <2>7. AllCovered'
    BY <1>1, <2>6 DEF PlanInv, AllCovered, Stage, Covers
  <2>. QED
    BY <2>4, <2>5, <2>7 DEF PlanInv
<1>. QED
  BY <1>2, <1>3, <1>4

LEMMA StartRunKeeps ==
  ASSUME PlanInv, NEW p \in DOMAIN plans, NEW h, D!StartRun(p, h)
  PROVE  PlanInv'
<1>1. /\ p \notin DOMAIN planRuns /\ DOMAIN planRuns' = DOMAIN planRuns \cup {p}
      /\ planRuns'[p] = D!NewRun(p) /\ \A q \in DOMAIN planRuns : planRuns'[q] = planRuns[q]
      /\ planRuns' = [q \in DOMAIN planRuns' |-> planRuns'[q]]
      /\ UNCHANGED <<offered, request, plans, planBundle>>
  BY DEF D!StartRun
<1>2. D!Published \subseteq Read
  BY DEF PlanInv, PlanTypes, D!Published, Read
<1>3. /\ D!NewRun(p) \in RunRecords /\ D!NewRun(p).stage = "started"
      /\ D!NewRun(p).pending = D!InPlan(p) /\ D!NewRun(p).seen = D!Published
      /\ D!NewRun(p).read = {}
  BY <1>2 DEF D!NewRun, RunRecords, Stages, PlanInv, PlanTypes
<1>4. PlanTypes'
  BY <1>1, <1>3 DEF PlanInv, PlanTypes, D!InPlan
<1>5. \A q, s : s # "started" => (Stage(q, s)' <=> Stage(q, s))
  BY <1>1, <1>3 DEF Stage
<1>6. /\ D!Published' = D!Published
      /\ \A q \in DOMAIN planRuns : Seen(q)' = Seen(q)
      /\ Seen(p)' = D!Published
  BY <1>1, <1>3 DEF D!Published, Seen
<1>7. \A q, s : Stage(q, s) => q \in DOMAIN planRuns
  BY DEF Stage
<1>8. AllSeen'
  <2>1. \A q \in DOMAIN planRuns' :
          planRuns'[q].stage \in {"started", "capturing", "captured"} => D!Published' \subseteq Seen(q)'
    BY <1>1, <1>6 DEF PlanInv, AllSeen
  <2>. QED
    BY <1>1, <1>5, <1>6, <1>7, <2>1 DEF PlanInv, AllSeen
<1>9. \A q \in DOMAIN planRuns' : D!InPlan(q)' = D!InPlan(q)
  BY <1>1 DEF D!InPlan
<1>10. AllCovered'
  <2>1. \A q : Stage(q, "started")' =>
          planRuns'[q].pending = D!InPlan(q)' /\ planRuns'[q].read = {}
    BY <1>1, <1>3, <1>9 DEF PlanInv, AllCovered, Stage
  <2>. QED
    BY <1>1, <1>5, <1>7, <1>9, <2>1 DEF PlanInv, AllCovered, Covers
<1>. QED
  BY <1>4, <1>8, <1>10 DEF PlanInv

\* A step of run p leaves the other runs, what is published and what was planned.
LEMMA RunFrame ==
  ASSUME PlanInv, NEW p \in DOMAIN planRuns, NEW m \in RunRecords, D!Run(p, m),
         m.seen = Seen(p), UNCHANGED <<offered, request, plans>>,
         planBundle' \in [of : Nat, flows : SUBSET Read]
  PROVE  /\ PlanTypes'
         /\ DOMAIN planRuns' = DOMAIN planRuns /\ planRuns'[p] = m
         /\ \A q \in DOMAIN planRuns : q # p => planRuns'[q] = planRuns[q]
         /\ \A q, s : q # p => (Stage(q, s)' <=> Stage(q, s))
         /\ \A s : Stage(p, s)' <=> m.stage = s
         /\ \A q, s : Stage(q, s) => q \in DOMAIN planRuns
         /\ \A q \in DOMAIN planRuns : Seen(q)' = Seen(q) /\ D!InPlan(q)' = D!InPlan(q)
         /\ D!Published' = D!Published
<1>1. /\ DOMAIN planRuns' = DOMAIN planRuns /\ planRuns'[p] = m
      /\ \A q \in DOMAIN planRuns : q # p => planRuns'[q] = planRuns[q]
      /\ planRuns' \in [DOMAIN planRuns' -> RunRecords]
  BY DEF D!Run, PlanInv, PlanTypes
<1>2. PlanTypes'
  BY <1>1 DEF PlanInv, PlanTypes, D!InPlan
<1>. QED
  BY <1>1, <1>2 DEF Stage, Seen, D!InPlan, D!Published

LEMMA CaptureListsKeeps ==
  ASSUME PlanInv, NEW p \in DOMAIN planRuns, D!CaptureLists(p)
  PROVE  PlanInv'
<1>. DEFINE relisted == [planRuns[p] EXCEPT !.stage = "capturing",
                                         !.pending = {f \in @ : offered[f] # D!Gone}]
<1>1. planRuns[p] \in RunRecords /\ planRuns[p].stage = "started"
  BY DEF PlanInv, PlanTypes, D!CaptureLists
<1>2. PICK m \in RunRecords :
        /\ m = relisted /\ m.stage = "capturing" /\ m.seen = Seen(p)
        /\ m.pending = {f \in planRuns[p].pending : offered[f] # D!Gone}
        /\ m.read = planRuns[p].read
  <2>1. /\ relisted \in RunRecords /\ relisted.stage = "capturing" /\ relisted.seen = Seen(p)
        /\ relisted.pending = {f \in planRuns[p].pending : offered[f] # D!Gone}
        /\ relisted.read = planRuns[p].read
    BY <1>1 DEF RunRecords, Stages, Seen
  <2>. HIDE DEF relisted
  <2>. QED
    BY <2>1
<1>3. /\ D!Run(p, m) /\ D!Unlocked
      /\ UNCHANGED <<offered, request, plans, planBundle>>
  BY <1>2 DEF D!CaptureLists, D!RunStep
<1>. HIDE DEF relisted
<1>4. planBundle' \in [of : Nat, flows : SUBSET Read]
  BY <1>3 DEF PlanInv, PlanTypes
<1>5. /\ PlanTypes'
      /\ DOMAIN planRuns' = DOMAIN planRuns /\ planRuns'[p] = m
      /\ \A q \in DOMAIN planRuns : q # p => planRuns'[q] = planRuns[q]
      /\ \A q, s : q # p => (Stage(q, s)' <=> Stage(q, s))
      /\ \A s : Stage(p, s)' <=> m.stage = s
      /\ \A q, s : Stage(q, s) => q \in DOMAIN planRuns
      /\ \A q \in DOMAIN planRuns : Seen(q)' = Seen(q) /\ D!InPlan(q)' = D!InPlan(q)
      /\ D!Published' = D!Published
  BY <1>2, <1>3, <1>4, RunFrame
<1>6. \A q : ~Stage(q, "capturing")
  BY <1>3 DEF D!Unlocked, Stage
<1>7. m.read = {} /\ planRuns[p].pending = D!InPlan(p)
  BY <1>1, <1>2 DEF PlanInv, AllSeen, AllCovered, Stage
<1>8. AllSeen'
  <2>1. \A q \in DOMAIN planRuns' :
          planRuns'[q].stage \in {"started", "capturing", "captured"} => D!Published' \subseteq Seen(q)'
    BY <1>1, <1>5 DEF PlanInv, AllSeen
  <2>2. ASSUME NEW q, Stage(q, "capturing")'
        PROVE  q = p /\ planRuns'[q].read = {}
    BY <1>5, <1>6, <1>7, <2>2
  <2>. QED
    BY <1>2, <1>3, <1>5, <2>1, <2>2 DEF PlanInv, AllSeen
<1>9. AllCovered'
  <2>1. Covers(p, m.read, m.pending)'
    BY <1>2, <1>3, <1>5, <1>7 DEF Covers
  <2>2. \A q : Stage(q, "started")' =>
          planRuns'[q].pending = D!InPlan(q)' /\ planRuns'[q].read = {}
    BY <1>2, <1>5 DEF PlanInv, AllCovered
  <2>3. ASSUME NEW q, Stage(q, "capturing")'
        PROVE  Covers(q, planRuns[q].read, planRuns[q].pending)'
    <3>1. q = p
      BY <1>5, <1>6, <2>3
    <3>. QED
      BY <1>5, <2>1, <3>1 DEF Covers
  <2>4. ASSUME NEW q, Stage(q, "captured")', planBundle'.of = q
        PROVE  Covers(q, planBundle.flows, {})'
    <3>1. q # p /\ Stage(q, "captured") /\ q \in DOMAIN planRuns
      BY <1>2, <1>5, <2>4
    <3>. QED
      BY <1>3, <1>5, <2>4, <3>1 DEF PlanInv, AllCovered, Covers
  <2>5. ASSUME NEW q, Stage(q, "documented")', planRuns'[q].source = q
        PROVE  Covers(q, planRuns[q].documented, {})'
    <3>1. q # p /\ Stage(q, "documented") /\ q \in DOMAIN planRuns
      BY <1>2, <1>5, <2>5
    <3>. QED
      BY <1>3, <1>5, <2>5, <3>1 DEF PlanInv, AllCovered, Covers
  <2>. QED
    BY <2>2, <2>3, <2>4, <2>5 DEF AllCovered
<1>. QED
  BY <1>5, <1>8, <1>9 DEF PlanInv

LEMMA CaptureReadsKeeps ==
  ASSUME PlanInv, NEW p \in DOMAIN planRuns, D!CaptureReads(p)
  PROVE  PlanInv'
<1>1. PICK f \in planRuns[p].pending :
        \/ D!RunStep(p, D!Read(planRuns[p], f))
        \/ D!RunStep(p, D!NotRead(planRuns[p], f))
  BY DEF D!CaptureReads
<1>2. planRuns[p] \in RunRecords /\ planRuns[p].stage = "capturing" /\ offered \in [Planned -> Int]
  BY DEF PlanInv, PlanTypes, D!CaptureReads
<1>3. f \in Planned /\ offered[f] \in Int /\ <<f, offered[f]>> \in Read /\ <<f, offered[f]>> \in D!Published
  BY <1>2 DEF RunRecords, Read, D!Published
<1>4. PICK m \in RunRecords :
        /\ D!RunStep(p, m) /\ m.stage = "capturing" /\ m.seen = Seen(p)
        /\ m.pending = planRuns[p].pending \ {f}
        /\ m.read \subseteq planRuns[p].read \cup {<<f, offered[f]>>}
        /\ planRuns[p].read \subseteq m.read /\ planRuns[p].failed \subseteq m.failed
        /\ f \in m.failed \/ <<f, offered[f]>> \in m.read
  <2>1. CASE D!RunStep(p, D!Read(planRuns[p], f))
    <3>. DEFINE m == D!Read(planRuns[p], f)
    <3>1. /\ m \in RunRecords /\ m.stage = "capturing" /\ m.seen = Seen(p)
          /\ m.pending = planRuns[p].pending \ {f}
          /\ m.read = planRuns[p].read \cup {<<f, offered[f]>>} /\ m.failed = planRuns[p].failed
      BY <1>2, <1>3 DEF RunRecords, Seen, D!Read
    <3>. HIDE DEF m
    <3>. QED
      BY <2>1, <3>1 DEF m
  <2>2. CASE D!RunStep(p, D!NotRead(planRuns[p], f))
    <3>. DEFINE m == D!NotRead(planRuns[p], f)
    <3>1. /\ m \in RunRecords /\ m.stage = "capturing" /\ m.seen = Seen(p)
          /\ m.pending = planRuns[p].pending \ {f}
          /\ m.read = planRuns[p].read /\ m.failed = planRuns[p].failed \cup {f}
      BY <1>2, <1>3 DEF RunRecords, Seen, D!NotRead
    <3>. HIDE DEF m
    <3>. QED
      BY <2>2, <3>1 DEF m
  <2>. QED
    BY <1>1, <2>1, <2>2
<1>5. D!Run(p, m) /\ UNCHANGED <<offered, request, plans, planBundle>>
  BY <1>4 DEF D!RunStep
<1>6. planBundle' \in [of : Nat, flows : SUBSET Read]
  BY <1>5 DEF PlanInv, PlanTypes
<1>7. /\ PlanTypes'
      /\ DOMAIN planRuns' = DOMAIN planRuns /\ planRuns'[p] = m
      /\ \A q \in DOMAIN planRuns : q # p => planRuns'[q] = planRuns[q]
      /\ \A q, s : q # p => (Stage(q, s)' <=> Stage(q, s))
      /\ \A s : Stage(p, s)' <=> m.stage = s
      /\ \A q, s : Stage(q, s) => q \in DOMAIN planRuns
      /\ \A q \in DOMAIN planRuns : Seen(q)' = Seen(q) /\ D!InPlan(q)' = D!InPlan(q)
      /\ D!Published' = D!Published
  BY <1>4, <1>5, <1>6, RunFrame
<1>8. Stage(p, "capturing") /\ \A q : Stage(q, "capturing") => q = p
  BY <1>2 DEF PlanInv, AllSeen, Stage
<1>9. m.read \subseteq Seen(p) /\ \A q : Stage(q, "captured") => m.read \subseteq Seen(q)
  <2>1. D!Published \subseteq Seen(p) /\ planRuns[p].read \subseteq Seen(p)
    BY <1>2, <1>8 DEF PlanInv, AllSeen
  <2>2. \A q : Stage(q, "captured") => D!Published \subseteq Seen(q) /\ planRuns[p].read \subseteq Seen(q)
    BY <1>8 DEF PlanInv, AllSeen, Stage
  <2>. QED
    BY <1>3, <1>4, <2>1, <2>2
<1>10. AllSeen'
  <2>1. \A q \in DOMAIN planRuns' :
          planRuns'[q].stage \in {"started", "capturing", "captured"} => D!Published' \subseteq Seen(q)'
    BY <1>2, <1>7 DEF PlanInv, AllSeen
  <2>2. ASSUME NEW q, Stage(q, "capturing")' PROVE q = p
    BY <1>7, <1>8, <2>2
  <2>. QED
    BY <1>4, <1>5, <1>7, <1>9, <2>1, <2>2 DEF PlanInv, AllSeen
<1>11. AllCovered'
  <2>1. Covers(p, m.read, m.pending)'
    <3>1. Covers(p, planRuns[p].read, planRuns[p].pending)
      BY <1>8 DEF PlanInv, AllCovered
    <3>2. <<f, offered[f]>>[1] = f
      OBVIOUS
    <3>. QED
      BY <1>4, <1>5, <1>7, <3>1, <3>2 DEF Covers
  <2>2. \A q : Stage(q, "started")' =>
          planRuns'[q].pending = D!InPlan(q)' /\ planRuns'[q].read = {}
    BY <1>4, <1>7 DEF PlanInv, AllCovered
  <2>3. ASSUME NEW q, Stage(q, "capturing")'
        PROVE  Covers(q, planRuns[q].read, planRuns[q].pending)'
    <3>1. q = p
      BY <1>7, <1>8, <2>3
    <3>. QED
      BY <1>7, <2>1, <3>1 DEF Covers
  <2>4. ASSUME NEW q, Stage(q, "captured")', planBundle'.of = q
        PROVE  Covers(q, planBundle.flows, {})'
    <3>1. q # p /\ Stage(q, "captured") /\ q \in DOMAIN planRuns
      BY <1>4, <1>7, <2>4
    <3>. QED
      BY <1>5, <1>7, <2>4, <3>1 DEF PlanInv, AllCovered, Covers
  <2>5. ASSUME NEW q, Stage(q, "documented")', planRuns'[q].source = q
        PROVE  Covers(q, planRuns[q].documented, {})'
    <3>1. q # p /\ Stage(q, "documented") /\ q \in DOMAIN planRuns
      BY <1>4, <1>7, <2>5
    <3>. QED
      BY <1>5, <1>7, <2>5, <3>1 DEF PlanInv, AllCovered, Covers
  <2>. QED
    BY <2>2, <2>3, <2>4, <2>5 DEF AllCovered
<1>. QED
  BY <1>7, <1>10, <1>11 DEF PlanInv

LEMMA CapturePromotesKeeps ==
  ASSUME PlanInv, NEW p \in DOMAIN planRuns, D!CapturePromotes(p)
  PROVE  PlanInv'
<1>. DEFINE m == [planRuns[p] EXCEPT !.stage = "captured", !.read = {}]
<1>1. planRuns[p] \in RunRecords /\ planRuns[p].stage = "capturing" /\ planRuns[p].pending = {}
  BY DEF PlanInv, PlanTypes, D!CapturePromotes
<1>2. /\ m \in RunRecords /\ m.stage = "captured" /\ m.seen = Seen(p)
      /\ m.failed = planRuns[p].failed
  BY <1>1 DEF RunRecords, Stages, Seen
<1>3. /\ D!Run(p, m) /\ UNCHANGED <<offered, request, plans>>
      /\ planBundle' = [of |-> p, flows |-> planRuns[p].read]
  BY DEF D!CapturePromotes
<1>. HIDE DEF m
<1>4. p \in Nat
  <2>1. PICK X : plans \in Seq(X)
    BY DEF PlanInv, PlanTypes
  <2>. QED
    BY <2>1 DEF PlanInv, PlanTypes
<1>5. /\ planBundle' \in [of : Nat, flows : SUBSET Read]
      /\ planBundle'.of = p /\ planBundle'.flows = planRuns[p].read
  BY <1>1, <1>3, <1>4 DEF RunRecords
<1>6. /\ PlanTypes'
      /\ DOMAIN planRuns' = DOMAIN planRuns /\ planRuns'[p] = m
      /\ \A q \in DOMAIN planRuns : q # p => planRuns'[q] = planRuns[q]
      /\ \A q, s : q # p => (Stage(q, s)' <=> Stage(q, s))
      /\ \A s : Stage(p, s)' <=> m.stage = s
      /\ \A q, s : Stage(q, s) => q \in DOMAIN planRuns
      /\ \A q \in DOMAIN planRuns : Seen(q)' = Seen(q) /\ D!InPlan(q)' = D!InPlan(q)
      /\ D!Published' = D!Published
  BY <1>2, <1>3, <1>5, RunFrame
<1>7. Stage(p, "capturing") /\ \A q : Stage(q, "capturing") => q = p
  BY <1>1 DEF PlanInv, AllSeen, Stage
<1>8. AllSeen'
  <2>1. \A q \in DOMAIN planRuns' :
          planRuns'[q].stage \in {"started", "capturing", "captured"} => D!Published' \subseteq Seen(q)'
    BY <1>1, <1>6 DEF PlanInv, AllSeen
  <2>2. \A q : ~Stage(q, "capturing")'
    BY <1>2, <1>6, <1>7
  <2>3. \A q : Stage(q, "captured")' => planBundle'.flows \subseteq Seen(q)'
    BY <1>5, <1>6, <1>7 DEF PlanInv, AllSeen
  <2>. QED
    BY <1>2, <1>6, <2>1, <2>2, <2>3 DEF PlanInv, AllSeen
<1>9. AllCovered'
  <2>1. Covers(p, planBundle.flows, {})'
    <3>1. Covers(p, planRuns[p].read, planRuns[p].pending)
      BY <1>7 DEF PlanInv, AllCovered
    <3>. QED
      BY <1>1, <1>2, <1>3, <1>5, <1>6, <3>1 DEF Covers
  <2>2. \A q : Stage(q, "started")' =>
          planRuns'[q].pending = D!InPlan(q)' /\ planRuns'[q].read = {}
    BY <1>2, <1>6 DEF PlanInv, AllCovered
  <2>3. \A q : ~Stage(q, "capturing")'
    BY <1>2, <1>6, <1>7
  <2>4. ASSUME NEW q, Stage(q, "captured")', planBundle'.of = q
        PROVE  Covers(q, planBundle.flows, {})'
    BY <1>5, <2>1, <2>4
  <2>5. ASSUME NEW q, Stage(q, "documented")', planRuns'[q].source = q
        PROVE  Covers(q, planRuns[q].documented, {})'
    <3>1. q # p /\ Stage(q, "documented") /\ q \in DOMAIN planRuns
      BY <1>2, <1>6, <2>5
    <3>. QED
      BY <1>3, <1>6, <2>5, <3>1 DEF PlanInv, AllCovered, Covers
  <2>. QED
    BY <2>2, <2>3, <2>4, <2>5 DEF AllCovered
<1>. QED
  BY <1>6, <1>8, <1>9 DEF PlanInv

LEMMA DocumentsKeeps ==
  ASSUME PlanInv, NEW p \in DOMAIN planRuns, D!Documents(p)
  PROVE  PlanInv'
<1>. DEFINE documents == [planRuns[p] EXCEPT !.stage = "documented",
                            !.documented = planBundle.flows, !.source = planBundle.of]
<1>1. /\ planRuns[p] \in RunRecords /\ planRuns[p].stage = "captured"
      /\ planBundle \in [of : Nat, flows : SUBSET Read]
  BY DEF PlanInv, PlanTypes, D!Documents
<1>2. PICK m \in RunRecords :
        /\ m = documents /\ m.stage = "documented" /\ m.seen = Seen(p)
        /\ m.failed = planRuns[p].failed
        /\ m.documented = planBundle.flows /\ m.source = planBundle.of
  <2>1. /\ documents \in RunRecords /\ documents.stage = "documented" /\ documents.seen = Seen(p)
        /\ documents.failed = planRuns[p].failed
        /\ documents.documented = planBundle.flows /\ documents.source = planBundle.of
    BY <1>1 DEF RunRecords, Stages, Seen
  <2>. HIDE DEF documents
  <2>. QED
    BY <2>1
<1>3. D!Run(p, m) /\ UNCHANGED <<offered, request, plans, planBundle>>
  BY <1>2 DEF D!Documents, D!RunStep
<1>. HIDE DEF documents
<1>4. planBundle' \in [of : Nat, flows : SUBSET Read]
  BY <1>1, <1>3
<1>5. /\ PlanTypes'
      /\ DOMAIN planRuns' = DOMAIN planRuns /\ planRuns'[p] = m
      /\ \A q \in DOMAIN planRuns : q # p => planRuns'[q] = planRuns[q]
      /\ \A q, s : q # p => (Stage(q, s)' <=> Stage(q, s))
      /\ \A s : Stage(p, s)' <=> m.stage = s
      /\ \A q, s : Stage(q, s) => q \in DOMAIN planRuns
      /\ \A q \in DOMAIN planRuns : Seen(q)' = Seen(q) /\ D!InPlan(q)' = D!InPlan(q)
      /\ D!Published' = D!Published
  BY <1>2, <1>3, <1>4, RunFrame
<1>6. Stage(p, "captured")
  BY <1>1 DEF Stage
<1>7. AllSeen'
  <2>1. \A q \in DOMAIN planRuns' :
          planRuns'[q].stage \in {"started", "capturing", "captured"} => D!Published' \subseteq Seen(q)'
    BY <1>2, <1>5 DEF PlanInv, AllSeen
  <2>2. m.documented \subseteq Seen(p)
    BY <1>2, <1>6 DEF PlanInv, AllSeen
  <2>3. ASSUME NEW q, Stage(q, "capturing")'
        PROVE  /\ planRuns'[q].read \subseteq Seen(q)'
               /\ \A r : Stage(r, "capturing")' => r = q
               /\ \A r : Stage(r, "captured")' => planRuns'[q].read \subseteq Seen(r)'
    <3>1. q # p /\ Stage(q, "capturing") /\ planRuns'[q] = planRuns[q]
      BY <1>2, <1>5, <2>3
    <3>. QED
      BY <1>2, <1>5, <3>1 DEF PlanInv, AllSeen
  <2>. QED
    BY <1>2, <1>3, <1>5, <2>1, <2>2, <2>3 DEF PlanInv, AllSeen
<1>8. AllCovered'
  <2>1. ASSUME m.source = p PROVE Covers(p, m.documented, {})'
    <3>1. Covers(p, planBundle.flows, {})
      BY <1>2, <1>6, <2>1 DEF PlanInv, AllCovered
    <3>. QED
      BY <1>2, <1>3, <1>5, <3>1 DEF Covers
  <2>2. \A q : Stage(q, "started")' =>
          planRuns'[q].pending = D!InPlan(q)' /\ planRuns'[q].read = {}
    BY <1>2, <1>5 DEF PlanInv, AllCovered
  <2>3. ASSUME NEW q, Stage(q, "capturing")'
        PROVE  Covers(q, planRuns[q].read, planRuns[q].pending)'
    <3>1. q # p /\ Stage(q, "capturing") /\ q \in DOMAIN planRuns
      BY <1>2, <1>5, <2>3
    <3>. QED
      BY <1>3, <1>5, <3>1 DEF PlanInv, AllCovered, Covers
  <2>4. ASSUME NEW q, Stage(q, "captured")', planBundle'.of = q
        PROVE  Covers(q, planBundle.flows, {})'
    <3>1. q # p /\ Stage(q, "captured") /\ q \in DOMAIN planRuns
      BY <1>2, <1>5, <2>4
    <3>. QED
      BY <1>3, <1>5, <2>4, <3>1 DEF PlanInv, AllCovered, Covers
  <2>5. ASSUME NEW q, Stage(q, "documented")', planRuns'[q].source = q
        PROVE  Covers(q, planRuns[q].documented, {})'
    <3>1. CASE q = p
      BY <1>5, <2>1, <2>5, <3>1 DEF Covers
    <3>2. CASE q # p
      <4>1. Stage(q, "documented") /\ q \in DOMAIN planRuns
        BY <1>5, <2>5, <3>2
      <4>. QED
        BY <1>3, <1>5, <2>5, <3>2, <4>1 DEF PlanInv, AllCovered, Covers
    <3>. QED
      BY <3>1, <3>2
  <2>. QED
    BY <2>2, <2>3, <2>4, <2>5 DEF AllCovered
<1>. QED
  BY <1>5, <1>7, <1>8 DEF PlanInv

LEMMA PlanStep == PlanInv /\ D!Next => PlanInv'
<1>. SUFFICES ASSUME PlanInv, D!Next PROVE PlanInv'
  OBVIOUS
<1>1. ASSUME NEW f \in Planned, D!Publish(f) PROVE PlanInv'
  <2>1. /\ offered[f] + 1 \in Int /\ D!Change(f, offered[f] + 1)
        /\ offered[f] # D!Gone
    BY <1>1, ServicesAssumption DEF D!Publish, D!Gone, PlanInv, PlanTypes
  <2>. QED
    BY <2>1, ChangeKeeps
<1>2. ASSUME NEW f \in Planned, D!Delete(f) PROVE PlanInv'
  <2>1. D!Gone \in Int /\ D!Change(f, D!Gone)
    BY <1>2 DEF D!Delete, D!Gone
  <2>. QED
    BY <2>1, ChangeKeeps
<1>3. CASE D!Tick
  BY <1>3 DEF D!Tick, PlanInv, PlanTypes, AllSeen, AllCovered, Stage, Seen, Covers, D!InPlan, D!Published
<1>4. CASE D!Restart
  <2>1. D!Running \subseteq DOMAIN planRuns
    BY DEF D!Running
  <2>. QED
    BY <1>4, <2>1, EndingKeeps DEF D!Restart
<1>5. ASSUME NEW scope \in D!Scopes, D!Discover(scope) PROVE PlanInv'
  <2>1. request' = {[scope |-> scope, candidates |-> [f \in D!Candidates(scope) |-> offered[f]]]}
        /\ UNCHANGED <<offered, plans, planRuns, planBundle>>
    BY <1>5 DEF D!Discover
  <2>2. D!Candidates(scope) \subseteq Planned
    BY SelectionsAreOfFlows DEF D!Candidates
  <2>3. \A r \in request' : DOMAIN r.candidates \subseteq Planned
    BY <2>1, <2>2
  <2>. QED
    BY <2>1, <2>3 DEF PlanInv, PlanTypes, AllSeen, AllCovered, Stage, Seen, Covers, D!InPlan, D!Published
<1>6. ASSUME NEW p \in DOMAIN planRuns, D!Ends(p) PROVE PlanInv'
  <2>1. /\ planRuns' = [q \in DOMAIN planRuns |-> IF q \in {p} THEN D!EndedRun ELSE planRuns[q]]
        /\ UNCHANGED <<offered, request, plans, planBundle>>
    BY <1>6 DEF D!Ends, D!RunStep, D!Run, PlanInv, PlanTypes
  <2>. QED
    BY <2>1, EndingKeeps
<1>. QED
  BY <1>1, <1>2, <1>3, <1>4, <1>5, <1>6, CreatePlanKeeps, StartRunKeeps, CaptureListsKeeps,
     CaptureReadsKeeps, CapturePromotesKeeps, DocumentsKeeps DEF D!Next

\* executeRun (archivist-port.ts): whichever run's bundle is there when a run documents, and
\* whatever is published, deleted, planned, started or restarted in between, it documents no
\* version that was out of date before it started, and of its own bundle every planned flow
\* but those reported as failed and those deleted.
THEOREM NothingDocumentedIsStale == ServicesSpec => []NothingStaleIsDocumented
<1>1. PlanInv /\ [ServicesNext]_services => PlanInv'
  <2>. SUFFICES ASSUME PlanInv, [ServicesNext]_services PROVE PlanInv'
    OBVIOUS
  <2>1. CASE D!Next
    BY <2>1, PlanStep
  <2>2. CASE UNCHANGED planning
    BY <2>2 DEF PlanInv, PlanTypes, AllSeen, AllCovered, Stage, Seen, Covers, D!InPlan,
       D!Published, planning
  <2>. QED
    BY <2>1, <2>2 DEF ServicesNext, services
<1>2. PlanInv => NothingStaleIsDocumented
  <2>. SUFFICES ASSUME PlanInv, NEW p \in DOMAIN planRuns, planRuns[p].stage = "documented"
                PROVE  /\ planRuns[p].documented \subseteq planRuns[p].seen
                       /\ planRuns[p].source = p => Covers(p, planRuns[p].documented, {})
    BY DEF NothingStaleIsDocumented, D!NothingStaleIsDocumented, Covers
  <2>. QED
    BY DEF PlanInv, AllSeen, AllCovered, Stage, Seen
<1>. QED
  BY PlanInit, <1>1, <1>2, PTL DEF ServicesSpec

-----------------------------------------------------------------------------
(* The profiles and their credentials *)

Commands == [kind : P!Kinds, id : Ids \cup {None}, client : Clients \cup {None}]
CommandSteps == {"idle"} \cup P!Waiting

\* A directory of profiles: every file that parses is of the profile it is named for.
IsDir(files) ==
  /\ DOMAIN files \subseteq ProfileFiles /\ files \in [DOMAIN files -> Profiles]
  /\ \A f \in DOMAIN files :
       files[f] = P!Corrupt \/ (files[f].id \in Ids /\ MCFileOf[files[f].id] = f)

ProfileTypes ==
  /\ dir \in [there : BOOLEAN, files : {dir.files}] /\ IsDir(dir.files)
  /\ aside = None \/ IsDir(aside)
  /\ secrets \in [Ids -> Clients \cup {None}]
  /\ command \in [Writers -> CommandSteps] /\ cmd \in [Writers -> Commands]
  /\ snap = [p \in Writers |-> snap[p]] /\ \A p \in Writers : IsDir(snap[p])

Of(p) == cmd[p].id
Kind(p) == cmd[p].kind
OwnFile(p) == MCFileOf[Of(p)]
Writing(p) == command[p] \in {"lock", "snapshot", "archive", "swap"}

\* A process commands an id, and writes to add or to remove it.
Commanded ==
  \A p \in Writers :
    /\ command[p] # "idle" => Of(p) \in Ids
    /\ Writing(p) => Kind(p) \in {"add", "remove"}

\* The write lock is held through the snapshot and both renames; between the renames,
\* and only there, what the store holds is aside.
Serialized ==
  /\ \A p \in Writers : command[p] \in {"snapshot", "archive", "swap"} => writeLock = p
  /\ \A p \in Writers : command[p] = "swap" => aside # None /\ DOMAIN dir.files = {}
  /\ aside # None => \E p \in Writers : command[p] = "swap"

\* What a process is about to write has all that the store holds, but for what its
\* snapshot could not read and the profile it removes.
Snapped ==
  \A p \in Writers :
    command[p] \in {"archive", "swap"} =>
      /\ Kind(p) = "add" => OwnFile(p) \in DOMAIN snap[p]
      /\ \A f \in DOMAIN P!Held \ DOMAIN snap[p] :
           f \in lost \/ (Kind(p) = "remove" /\ f = OwnFile(p))

Credentials(i) == secrets[i] # None \/ i \in keys
Accounted(i) == MCFileOf[i] \in DOMAIN P!Held \/ i \in reported \/ MCFileOf[i] \in lost

\* p has given the credential of i, and is about to store its profile.
Adding(p, i) == Writing(p) /\ Kind(p) = "add" /\ Of(p) = i
OtherAdds(p, i) == \E q \in Writers \ {p} : Adding(q, i)

\* No other command on i gives what one of kind k removes, or the other way round.
Uncrossed(p, i, k) ==
  i \notin crossed =>
    \A q \in Writers \ {p} : command[q] # "idle" /\ Of(q) = i => ~P!Cross(k, Kind(q))
Apart == \A p \in Writers : command[p] # "idle" => Uncrossed(p, Of(p), Kind(p))

\* Where a credential may be without a profile, and where it is gone already.
Credited ==
  /\ \A i \in Ids \ crossed :
       Credentials(i) => Accounted(i) \/ \E p \in Writers : Adding(p, i)
  /\ \A p \in Writers : Of(p) \notin crossed =>
       /\ Writing(p) /\ Kind(p) = "remove" => ~Credentials(Of(p)) \/ Of(p) \in reported
       /\ command[p] = "key" /\ Kind(p) = "remove" => secrets[Of(p)] = None
       /\ command[p] \in {"secret", "key"} /\ Kind(p) \in {"set-secret", "set-narration-key"}
          => Accounted(Of(p))

ProfileInv == ProfileTypes /\ Commanded /\ Serialized /\ Snapped /\ Apart /\ Credited

LEMMA EmptyDir == IsDir(<<>>)
<1>1. DOMAIN <<>> = {}
  OBVIOUS
<1>2. <<>> \in [{} -> Profiles]
  BY <1>1
<1>. QED
  BY <1>1, <1>2 DEF IsDir

LEMMA DirIsThere == ASSUME NEW files, IsDir(files) PROVE files # None
  BY ServicesAssumption DEF IsDir

LEMMA LeftOut ==
  ASSUME NEW files, IsDir(files), NEW gone
  PROVE  /\ IsDir(P!Without(files, gone)) /\ DOMAIN P!Without(files, gone) = DOMAIN files \ gone
  BY DEF IsDir, P!Without

LEMMA PutIn ==
  ASSUME NEW files, IsDir(files), NEW i \in Ids, NEW c \in Clients \cup {None}
  PROVE  LET d == P!With(files, MCFileOf[i], [id |-> i, client |-> c])
         IN  IsDir(d) /\ DOMAIN d = DOMAIN files \cup {MCFileOf[i]}
<1>. DEFINE r == [id |-> i, client |-> c]
            d == P!With(files, MCFileOf[i], r)
<1>1. r \in Profiles /\ r.id = i
  BY DEF Profiles
<1>2. MCFileOf[i] \in ProfileFiles
  BY ServicesAssumption
<1>. HIDE DEF r
<1>3. /\ DOMAIN d = DOMAIN files \cup {MCFileOf[i]}
      /\ \A f \in DOMAIN d : d[f] = IF f = MCFileOf[i] THEN r ELSE files[f]
      /\ d = [f \in DOMAIN d |-> d[f]]
  BY DEF P!With
<1>. HIDE DEF d
<1>4. IsDir(d)
  BY <1>1, <1>2, <1>3 DEF IsDir
<1>. QED
  BY <1>3, <1>4 DEF d, r

\* What a step of p leaves of the others.
LEMMA ProfileFrame ==
  ASSUME ProfileTypes, NEW p \in Writers, NEW s \in CommandSteps, NEW c \in Commands,
         NEW d, IsDir(d),
         command' = [command EXCEPT ![p] = s], cmd' = [cmd EXCEPT ![p] = c],
         snap' = [snap EXCEPT ![p] = d],
         dir' \in [there : BOOLEAN, files : {dir'.files}], IsDir(dir'.files),
         aside' = None \/ IsDir(aside'), secrets' \in [Ids -> Clients \cup {None}]
  PROVE  /\ ProfileTypes'
         /\ command'[p] = s /\ cmd'[p] = c /\ snap'[p] = d
         /\ \A q \in Writers : q # p =>
              command'[q] = command[q] /\ cmd'[q] = cmd[q] /\ snap'[q] = snap[q]
<1>1. /\ command'[p] = s /\ cmd'[p] = c /\ snap'[p] = d
      /\ \A q \in Writers : q # p =>
           command'[q] = command[q] /\ cmd'[q] = cmd[q] /\ snap'[q] = snap[q]
      /\ command' \in [Writers -> CommandSteps] /\ cmd' \in [Writers -> Commands]
      /\ snap' = [q \in Writers |-> snap'[q]]
  BY DEF ProfileTypes
<1>2. \A q \in Writers : IsDir(snap'[q])
  <2>. SUFFICES ASSUME NEW q \in Writers PROVE IsDir(snap'[q])
    OBVIOUS
  <2>1. CASE q = p
    BY <1>1, <2>1
  <2>2. CASE q # p
    BY <1>1, <2>2 DEF ProfileTypes
  <2>. QED
    BY <2>1, <2>2
<1>3. ProfileTypes'
  <2>1. IsDir(dir.files)'
    BY DEF IsDir
  <2>2. (aside = None \/ IsDir(aside))'
    BY DEF IsDir
  <2>3. (\A q \in Writers : IsDir(snap[q]))'
    BY <1>2 DEF IsDir
  <2>. QED
    BY <1>1, <2>1, <2>2, <2>3 DEF ProfileTypes
<1>. QED
  BY <1>1, <1>3


WritingSteps == {"lock", "snapshot", "archive", "swap"}
Giving(p) == command[p] # "idle" /\ Kind(p) \in P!Gives

\* A command's credentials and profile, when it stops or goes on with step s as kind k.
CreditAfter(p, j, s, k) ==
  j \notin crossed' =>
    /\ Credentials(j)' =>
         Accounted(j)' \/ (s \in WritingSteps /\ k = "add") \/ OtherAdds(p, j)
    /\ s \in WritingSteps /\ k = "remove" => ~Credentials(j)' \/ j \in reported'
    /\ s = "key" /\ k = "remove" => secrets'[j] = None
    /\ s \in {"secret", "key"} /\ k \in {"set-secret", "set-narration-key"} => Accounted(j)'

\* Only a command that gives credentials gives those of its id.
OthersAloneGive(p, j) ==
  \/ Giving(p)
  \/ (secrets[j] = None => secrets'[j] = None) /\ (j \in keys' => j \in keys)

\* A command that goes on as what it is still crosses no other.
LEMMA StillUncrossed ==
  ASSUME ProfileInv, NEW p \in Writers, command[p] # "idle", crossed' = crossed,
         NEW s, command' = [command EXCEPT ![p] = s], NEW c, cmd' = [cmd EXCEPT ![p] = c]
  PROVE  Uncrossed(p, Of(p), Kind(p)) /\ \A j, k : j = Of(p) /\ k = Kind(p) => Uncrossed(p, j, k)'
<1>1. Uncrossed(p, Of(p), Kind(p))
  BY DEF ProfileInv, Apart
<1>2. \A q \in Writers \ {p} : command'[q] = command[q] /\ Of(q)' = Of(q) /\ Kind(q)' = Kind(q)
  BY DEF ProfileInv, ProfileTypes, Of, Kind
<1>. QED
  BY <1>1, <1>2 DEF Uncrossed

\* What crosses nothing where p goes on leaves the commands apart.
LEMMA ApartKept ==
  ASSUME ProfileTypes, Commanded, Apart,
         NEW p \in Writers, NEW j \in Ids, NEW k, crossed \subseteq crossed',
         command'[p] # "idle" => Of(p)' = j /\ Kind(p)' = k /\ Uncrossed(p, j, k)',
         \A q \in Writers : q # p => command'[q] = command[q] /\ cmd'[q] = cmd[q]
  PROVE  Apart'
<1>1. SUFFICES ASSUME NEW q \in Writers, command'[q] # "idle", Of(q)' \notin crossed',
                      NEW r \in Writers \ {q}, command'[r] # "idle", Of(r)' = Of(q)'
               PROVE  ~P!Cross(Kind(q)', Kind(r)')
  BY DEF Apart, Uncrossed
<1>2. \A x \in Writers \ {p} : Of(x)' = Of(x) /\ Kind(x)' = Kind(x) /\ command'[x] = command[x]
  BY DEF Of, Kind
<1>3. CASE q = p
  BY <1>1, <1>3 DEF Uncrossed
<1>4. CASE r = p
  <2>1. ~P!Cross(k, Kind(q)')
    BY <1>1, <1>4 DEF Uncrossed
  <2>. QED
    BY <1>1, <1>4, <2>1 DEF P!Cross
<1>5. CASE q # p /\ r # p
  BY <1>1, <1>2, <1>5 DEF Apart, Uncrossed
<1>. QED
  BY <1>3, <1>4, <1>5

\* Credentials and profiles stay as they are for every other command while p deals with j.
LEMMA CreditKept ==
  ASSUME ProfileTypes, Commanded, Apart, Apart', Credited, crossed \subseteq crossed',
         NEW p \in Writers, NEW j \in Ids, NEW s, NEW k,
         command[p] # "idle" => Of(p) = j,
         command'[p] = s, s # "idle" => Of(p)' = j /\ Kind(p)' = k,
         \A q \in Writers : q # p => command'[q] = command[q] /\ cmd'[q] = cmd[q],
         \A i \in Ids : i # j => /\ Credentials(i)' => Credentials(i)
                                 /\ secrets[i] = None => secrets'[i] = None,
         OthersAloneGive(p, j),
         \A i \in Ids : Accounted(i) => Accounted(i)' \/ (i = j /\ command[p] # "idle" /\ Kind(p) = "remove"),
         reported \subseteq reported',
         CreditAfter(p, j, s, k)
  PROVE  Credited'
<1>. DEFINE Adds(i) == \E q \in Writers : Adding(q, i)
<1>1. \A q \in Writers \ {p} :
        /\ command'[q] = command[q] /\ Of(q)' = Of(q) /\ Kind(q)' = Kind(q)
        /\ Writing(q)' <=> Writing(q)
  BY DEF Of, Kind, Writing
<1>2. ASSUME NEW i \in Ids, i \notin crossed', Credentials(i)' PROVE Accounted(i)' \/ Adds(i)'
  <2>1. CASE i = j
    <3>1. CASE OtherAdds(p, j)
      BY <1>1, <2>1, <3>1 DEF OtherAdds, Adding
    <3>2. CASE s \in WritingSteps /\ k = "add"
      BY <2>1, <3>2 DEF Adding, Writing, WritingSteps
    <3>. QED
      BY <1>2, <2>1, <3>1, <3>2 DEF CreditAfter
  <2>2. CASE i # j
    <3>1. Credentials(i) /\ i \notin crossed
      BY <1>2, <2>2
    <3>2. CASE Accounted(i)
      BY <2>2, <3>2
    <3>3. ASSUME NEW q \in Writers, Adding(q, i) PROVE Adds(i)'
      <4>1. q # p
        BY <2>2, <3>3 DEF Adding, Writing
      <4>. QED
        BY <1>1, <3>3, <4>1 DEF Adding
    <3>. QED
      BY <3>1, <3>2, <3>3 DEF Credited
  <2>. QED
    BY <2>1, <2>2
<1>3. ASSUME NEW q \in Writers, Of(q)' \notin crossed'
      PROVE  /\ Writing(q)' /\ Kind(q)' = "remove" => ~Credentials(Of(q))' \/ Of(q)' \in reported'
             /\ command'[q] = "key" /\ Kind(q)' = "remove" => secrets'[Of(q)'] = None
             /\ command'[q] \in {"secret", "key"}
                /\ Kind(q)' \in {"set-secret", "set-narration-key"} => Accounted(Of(q))'
  <2>1. CASE q = p /\ s # "idle"
    BY <1>3, <2>1 DEF CreditAfter, WritingSteps, Writing, Credentials, Accounted
  <2>2. CASE command'[q] = "idle"
    BY <2>2 DEF Writing
  <2>3. CASE q # p /\ command'[q] # "idle"
    <3>1. /\ Of(q)' = Of(q) /\ Kind(q)' = Kind(q) /\ command'[q] = command[q]
          /\ Writing(q)' <=> Writing(q)
      BY <1>1, <2>3
    <3>2. Of(q) \in Ids /\ Of(q) \notin crossed
      BY <1>3, <2>3, <3>1 DEF Commanded
    <3>3. PICK i \in Ids : i = Of(q)
      BY <3>2
    <3>4. Credentials(Of(q))' <=> Credentials(i)'
      BY <3>1, <3>3 DEF Credentials
    <3>5. Accounted(Of(q))' <=> Accounted(i)'
      BY <3>1, <3>3 DEF Accounted
    <3>6. /\ Writing(q) /\ Kind(q) = "remove" => ~Credentials(i) \/ i \in reported
          /\ command[q] = "key" /\ Kind(q) = "remove" => secrets[i] = None
          /\ command[q] \in {"secret", "key"} /\ Kind(q) \in {"set-secret", "set-narration-key"}
             => Accounted(i)
      BY <3>2, <3>3 DEF Credited
    <3>7. i = j /\ command[p] # "idle" => ~P!Cross(Kind(p), Kind(q))
      BY <2>3, <3>1, <3>2, <3>3 DEF Apart, Uncrossed
    <3>8. Kind(q) = "remove" => /\ Credentials(i)' => Credentials(i)
                                /\ secrets[i] = None => secrets'[i] = None
      <4>1. CASE i # j
        BY <4>1
      <4>2. CASE i = j
        <5>1. Kind(q) = "remove" => ~Giving(p)
          BY <3>7, <4>2 DEF Giving, P!Cross
        <5>. QED
          BY <4>2, <5>1 DEF OthersAloneGive, Credentials
      <4>. QED
        BY <4>1, <4>2
    <3>9. Kind(q) \in {"set-secret", "set-narration-key"} => (Accounted(i) => Accounted(i)')
      BY <3>7 DEF P!Cross, P!Gives
    <3>. QED
      BY <3>1, <3>3, <3>4, <3>5, <3>6, <3>8, <3>9
  <2>. QED
    BY <2>1, <2>2, <2>3
<1>. QED
  BY <1>2, <1>3 DEF Credited, Accounted, Credentials


\* The credentials of every other id, and the lock of every other process, stay.
OthersKeepCredentials(j) ==
  \A i \in Ids : i # j => secrets'[i] = secrets[i] /\ (i \in keys' <=> i \in keys)
OthersKeepLock(p) == \A q \in Writers : q # p /\ writeLock = q => writeLock' = q

\* A step of p outside the renames: it leaves the directories, and what it does with
\* the credentials of its id fits where it stops or goes on.
LEMMA QuietStep ==
  ASSUME ProfileInv, NEW p \in Writers, NEW j \in Ids,
         NEW s \in CommandSteps \ {"archive", "swap"}, NEW c \in Commands, NEW d, IsDir(d),
         command[p] # "idle" => Of(p) = j, command[p] # "swap", s # "idle" => c.id = j,
         command' = [command EXCEPT ![p] = s], cmd' = [cmd EXCEPT ![p] = c],
         snap' = [snap EXCEPT ![p] = d],
         dir' \in [there : BOOLEAN, files : {dir.files}], aside' = aside,
         secrets' \in [Ids -> Clients \cup {None}],
         OthersKeepCredentials(j), OthersAloneGive(p, j),
         lost' = lost, reported \subseteq reported', crossed \subseteq crossed',
         s = "snapshot" => writeLock' = p,
         OthersKeepLock(p),
         s \in {"lock", "snapshot"} => c.kind \in {"add", "remove"},
         s # "idle" => Uncrossed(p, j, c.kind)',
         CreditAfter(p, j, s, c.kind)
  PROVE  ProfileInv'
<1>1. /\ ProfileTypes /\ Commanded /\ Serialized /\ Snapped /\ Apart /\ Credited
      /\ dir'.files = dir.files /\ dir' \in [there : BOOLEAN, files : {dir'.files}]
      /\ IsDir(dir'.files) /\ (aside' = None \/ IsDir(aside'))
  BY DEF ProfileInv, ProfileTypes
<1>2. /\ ProfileTypes'
      /\ command'[p] = s /\ cmd'[p] = c /\ snap'[p] = d
      /\ \A q \in Writers : q # p =>
           command'[q] = command[q] /\ cmd'[q] = cmd[q] /\ snap'[q] = snap[q]
  BY <1>1, ProfileFrame
<1>3. P!Held' = P!Held
  BY <1>1 DEF P!Held
<1>4. Commanded'
  BY <1>1, <1>2 DEF Commanded, Of, Kind, Writing
<1>5. Serialized'
  BY <1>1, <1>2 DEF Serialized, OthersKeepLock
<1>6. Snapped'
  BY <1>1, <1>2, <1>3 DEF Snapped, Kind, Of, OwnFile
<1>7. \A i \in Ids : i # j => /\ Credentials(i)' => Credentials(i)
                              /\ secrets[i] = None => secrets'[i] = None
  BY DEF Credentials, OthersKeepCredentials
<1>8. \A i \in Ids : Accounted(i) => Accounted(i)'
  BY <1>3 DEF Accounted
<1>9. command'[p] # "idle" => Of(p)' = j /\ Kind(p)' = c.kind
  BY <1>2 DEF Of, Kind
<1>10. Apart'
  BY <1>1, <1>2, <1>9, ApartKept
<1>11. Credited'
  BY <1>1, <1>2, <1>7, <1>8, <1>9, <1>10, CreditKept
<1>. QED
  BY <1>2, <1>4, <1>5, <1>6, <1>10, <1>11 DEF ProfileInv

\* What End leaves of a command that writes nothing.
LEMMA EndStep ==
  ASSUME ProfileInv, NEW p \in Writers, command[p] \notin {"idle", "swap"}, P!End(p),
         dir' \in [there : BOOLEAN, files : {dir.files}],
         UNCHANGED <<aside, secrets, keys, lost>>, reported \subseteq reported',
         crossed' = crossed,
         \/ Of(p) \in reported' \/ Accounted(Of(p)) \/ ~Credentials(Of(p))
         \/ OtherAdds(p, Of(p)) \/ Of(p) \in crossed
  PROVE  ProfileInv'
<1>1. /\ command' = [command EXCEPT ![p] = "idle"] /\ cmd' = [cmd EXCEPT ![p] = P!NoCommand]
      /\ snap' = [snap EXCEPT ![p] = <<>>] /\ writeLock' = IF writeLock = p THEN None ELSE writeLock
  BY DEF P!End, P!Goto
<1>2. P!NoCommand \in Commands
  BY DEF P!NoCommand, Commands, P!Kinds
<1>3. Of(p) \in Ids /\ secrets \in [Ids -> Clients \cup {None}]
  BY DEF ProfileInv, Commanded, ProfileTypes
<1>4. PICK j \in Ids : j = Of(p)
  BY <1>3
<1>5. Accounted(j)' \/ ~Credentials(j)' \/ OtherAdds(p, j) \/ j \in crossed
  BY <1>4 DEF Accounted, Credentials, P!Held
<1>6. CreditAfter(p, j, "idle", P!NoCommand.kind)
  BY <1>5 DEF CreditAfter, WritingSteps
<1>7. "idle" \in CommandSteps \ {"archive", "swap"}
  BY DEF CommandSteps
<1>8. OthersKeepCredentials(j) /\ OthersKeepLock(p) /\ OthersAloneGive(p, j)
  BY <1>1, <1>4 DEF OthersKeepCredentials, OthersKeepLock, OthersAloneGive
<1>. QED
  BY <1>1, <1>2, <1>3, <1>4, <1>6, <1>7, <1>8, EmptyDir, QuietStep


LEMMA StartKeeps == ASSUME ProfileInv, NEW p \in Writers, P!Start(p) PROVE ProfileInv'
<1>1. PICK kind \in P!Kinds, j \in Ids, client_ \in Clients :
        /\ cmd' = [cmd EXCEPT ![p] = [kind |-> kind, id |-> j, client |-> client_]]
        /\ command' = [command EXCEPT ![p] = IF kind = "add" THEN "secret" ELSE "get"]
        /\ crossed' = IF P!Crosses(kind, j) THEN crossed \cup {j} ELSE crossed
  BY DEF P!Start, P!Goto
<1>2. /\ command[p] = "idle"
      /\ UNCHANGED <<dir, aside, secrets, keys, writeLock, snap, reported, lost>>
  BY DEF P!Start, P!At, P!history
<1>. DEFINE c == [kind |-> kind, id |-> j, client |-> client_]
            s == IF kind = "add" THEN "secret" ELSE "get"
<1>3. c \in Commands /\ c.kind = kind /\ c.id = j
  BY DEF Commands
<1>4. /\ s \in CommandSteps \ {"archive", "swap"} /\ s \in {"secret", "get"}
      /\ (s = "secret" <=> kind = "add")
  BY DEF CommandSteps, P!Waiting
<1>5. /\ snap' = [snap EXCEPT ![p] = snap[p]] /\ IsDir(snap[p])
      /\ dir' \in [there : BOOLEAN, files : {dir.files}]
      /\ secrets' \in [Ids -> Clients \cup {None}]
  BY <1>2 DEF ProfileInv, ProfileTypes
<1>6. j \notin crossed => (Credentials(j) => Accounted(j) \/ OtherAdds(p, j))
  BY <1>2 DEF ProfileInv, Credited, Adding, OtherAdds, Writing
<1>7. CreditAfter(p, j, s, c.kind)
  BY <1>1, <1>2, <1>3, <1>4, <1>6 DEF CreditAfter, WritingSteps, Credentials, Accounted, P!Held
<1>8. OthersKeepCredentials(j) /\ OthersKeepLock(p) /\ OthersAloneGive(p, j) /\ crossed \subseteq crossed'
  BY <1>1, <1>2 DEF OthersKeepCredentials, OthersKeepLock, OthersAloneGive
<1>9. Uncrossed(p, j, c.kind)'
  <2>1. \A q \in Writers \ {p} : command'[q] = command[q] /\ cmd'[q] = cmd[q]
    BY <1>1 DEF ProfileInv, ProfileTypes
  <2>2. CASE P!Crosses(kind, j)
    BY <1>1, <2>2 DEF Uncrossed
  <2>3. CASE ~P!Crosses(kind, j)
    BY <1>3, <2>1, <2>3 DEF Uncrossed, P!Crosses, P!Of, Of, Kind, P!Cross
  <2>. QED
    BY <2>2, <2>3
<1>. HIDE DEF c, s
<1>. QED
  BY <1>1, <1>2, <1>3, <1>4, <1>5, <1>7, <1>8, <1>9, QuietStep DEF c, s

LEMMA GetKeeps == ASSUME ProfileInv, NEW p \in Writers, P!Get(p) PROVE ProfileInv'
<1>1. /\ command[p] = "get" /\ dir' = [dir EXCEPT !.there = TRUE]
      /\ UNCHANGED <<aside, secrets, keys, reported, lost, crossed>>
  BY DEF P!Get, P!At, P!Opened, P!history
<1>2. dir' \in [there : BOOLEAN, files : {dir.files}]
  BY <1>1 DEF ProfileInv, ProfileTypes
<1>3. Of(p) \in Ids
  BY <1>1 DEF ProfileInv, Commanded
<1>4. PICK j \in Ids : j = Of(p)
  BY <1>3
<1>5. j \notin crossed => (Credentials(j) => Accounted(j) \/ OtherAdds(p, j))
  BY <1>1, <1>3, <1>4 DEF ProfileInv, Credited, Adding, OtherAdds, Writing
<1>6. CASE P!End(p)
  BY <1>1, <1>2, <1>4, <1>5, <1>6, EndStep
<1>7. CASE /\ P!Found(p) /\ cmd[p].kind # "show"
           /\ command' = [command EXCEPT ![p] =
                IF cmd[p].kind = "set-narration-key" THEN "key" ELSE "secret"]
           /\ cmd' = [cmd EXCEPT ![p].id =
                IF cmd[p].kind = "remove" THEN @ ELSE dir.files[MCFileOf[cmd[p].id]].id]
           /\ UNCHANGED <<writeLock, snap>>
  <2>1. /\ MCFileOf[j] \in DOMAIN dir.files /\ dir.files[MCFileOf[j]] # P!Corrupt
    BY <1>4, <1>7 DEF P!Found, P!Of, Of
  <2>2. dir.files[MCFileOf[j]].id = j
    BY <2>1, ServicesAssumption DEF ProfileInv, ProfileTypes, IsDir
  <2>3. cmd[p] \in Commands /\ cmd \in [Writers -> Commands] /\ cmd[p].id = j
    BY <1>4 DEF ProfileInv, ProfileTypes, Of
  <2>4. PICK c \in Commands : c = cmd[p] /\ c.id = j
    BY <2>3
  <2>5. cmd' = [cmd EXCEPT ![p] = c]
    <3>1. dir.files[MCFileOf[cmd[p].id]].id = j
      BY <2>2, <2>3
    <3>2. cmd' = [cmd EXCEPT ![p].id = j]
      BY <1>7, <2>3, <3>1
    <3>3. [cmd[p] EXCEPT !.id = j] = cmd[p]
      BY <2>3 DEF Commands
    <3>4. cmd' = [cmd EXCEPT ![p] = [cmd[p] EXCEPT !.id = j]]
      BY <3>2
    <3>. QED
      BY <2>4, <3>3, <3>4
  <2>6. Accounted(j)'
    <3>1. aside = None
      BY <2>1 DEF ProfileInv, Serialized
    <3>. QED
      BY <1>1, <1>2, <2>1, <3>1 DEF Accounted, P!Held
  <2>7. PICK s \in {"secret", "key"} :
          /\ command' = [command EXCEPT ![p] = s]
          /\ s = "key" => c.kind = "set-narration-key"
    BY <1>7, <2>4
  <2>8. s \in CommandSteps \ {"archive", "swap"}
    BY DEF CommandSteps, P!Waiting
  <2>9. CreditAfter(p, j, s, c.kind)
    BY <2>6, <2>7 DEF CreditAfter, WritingSteps
  <2>10. /\ snap' = [snap EXCEPT ![p] = snap[p]] /\ IsDir(snap[p])
         /\ secrets' \in [Ids -> Clients \cup {None}]
    BY <1>1, <1>7 DEF ProfileInv, ProfileTypes
  <2>11. /\ command[p] # "idle" /\ command[p] # "swap" /\ Of(p) = j
         /\ OthersKeepCredentials(j) /\ OthersKeepLock(p) /\ OthersAloneGive(p, j) /\ crossed' = crossed
         /\ lost' = lost /\ reported \subseteq reported' /\ aside' = aside /\ writeLock' = writeLock
    BY <1>1, <1>3, <1>4, <1>7 DEF OthersKeepCredentials, OthersKeepLock, OthersAloneGive
  <2>12. Uncrossed(p, j, c.kind)'
    BY <2>4, <2>5, <2>7, <2>11, StillUncrossed DEF Kind
  <2>. QED
    BY <2>12, <1>2, <2>4, <2>5, <2>7, <2>8, <2>9, <2>10, <2>11, QuietStep
<1>. QED
  BY <1>6, <1>7 DEF P!Get, P!Goto, P!Of


\* A command goes on as it is.
LEMMA GoesOn ==
  ASSUME ProfileInv, NEW p \in Writers, command[p] \notin {"idle", "swap"},
         NEW c \in Commands, c = cmd[p], NEW j \in Ids, j = c.id,
         NEW s \in {"key", "lock", "snapshot"}, command' = [command EXCEPT ![p] = s],
         UNCHANGED <<dir, aside, cmd, snap, lost, crossed>>, reported \subseteq reported',
         secrets' \in [Ids -> Clients \cup {None}],
         OthersKeepCredentials(j), OthersAloneGive(p, j),
         s = "snapshot" => writeLock' = p,
         OthersKeepLock(p),
         s \in {"lock", "snapshot"} => c.kind \in {"add", "remove"},
         CreditAfter(p, j, s, c.kind)
  PROVE  ProfileInv'
<1>1. Of(p) = j
  BY DEF Of
<1>2. s \in CommandSteps \ {"archive", "swap"} /\ s # "idle"
  BY DEF CommandSteps, P!Waiting
<1>3. PICK d : IsDir(d) /\ snap' = [snap EXCEPT ![p] = d]
  BY DEF ProfileInv, ProfileTypes
<1>4. /\ cmd' = [cmd EXCEPT ![p] = c] /\ dir' \in [there : BOOLEAN, files : {dir.files}]
      /\ aside' = aside /\ lost' = lost
  BY DEF ProfileInv, ProfileTypes
<1>5. Uncrossed(p, j, c.kind)'
  BY <1>1, <1>2, <1>4, StillUncrossed DEF Kind
<1>. QED
  BY <1>1, <1>2, <1>3, <1>4, <1>5, QuietStep

\* What holds of the id of a command, before it writes.
LEMMA BeforeWriting ==
  ASSUME ProfileInv, NEW p \in Writers, command[p] \notin {"idle", "lock", "snapshot", "archive", "swap"}
  PROVE  /\ Of(p) \in Ids
         /\ Credentials(Of(p)) =>
              Accounted(Of(p)) \/ OtherAdds(p, Of(p)) \/ Of(p) \in crossed
<1>1. Of(p) \in Ids
  BY DEF ProfileInv, Commanded
<1>2. ~Adding(p, Of(p))
  BY DEF Adding, Writing
<1>. QED
  BY <1>1, <1>2 DEF ProfileInv, Credited, OtherAdds

LEMMA SecretKeeps == ASSUME ProfileInv, NEW p \in Writers, P!Secret(p) PROVE ProfileInv'
<1>1. /\ command[p] = "secret" /\ UNCHANGED <<dir, aside, keys, reported, lost, crossed>>
  BY DEF P!Secret, P!At, P!history
<1>2. /\ Of(p) \in Ids
      /\ Credentials(Of(p)) =>
           Accounted(Of(p)) \/ OtherAdds(p, Of(p)) \/ Of(p) \in crossed
  BY <1>1, BeforeWriting
<1>3. PICK c \in Commands, j \in Ids : c = cmd[p] /\ c.id = Of(p) /\ j = Of(p)
  BY <1>2 DEF ProfileInv, ProfileTypes, Of
<1>4. secrets \in [Ids -> Clients \cup {None}]
  BY DEF ProfileInv, ProfileTypes
<1>5. CASE /\ c.kind = "remove" /\ secrets' = [secrets EXCEPT ![j] = None]
           /\ command' = [command EXCEPT ![p] = "key"] /\ UNCHANGED <<writeLock, cmd, snap>>
  <2>1. secrets' \in [Ids -> Clients \cup {None}] /\ secrets'[j] = None
    BY <1>2, <1>3, <1>4, <1>5
  <2>2. Credentials(j)' => Accounted(j)' \/ OtherAdds(p, j) \/ j \in crossed'
    BY <1>1, <1>2, <1>3, <2>1 DEF Credentials, Accounted, P!Held
  <2>3. CreditAfter(p, j, "key", c.kind)
    BY <1>5, <2>1, <2>2 DEF CreditAfter, WritingSteps
  <2>4. OthersKeepCredentials(j) /\ OthersKeepLock(p) /\ OthersAloneGive(p, j)
    BY <1>1, <1>4, <1>5, <2>1 DEF OthersKeepCredentials, OthersKeepLock, OthersAloneGive
  <2>. QED
    BY <1>1, <1>2, <1>3, <1>4, <1>5, <2>1, <2>3, <2>4, GoesOn
<1>6. CASE /\ c.kind = "add" /\ secrets' = [secrets EXCEPT ![j] = c.client]
           /\ command' = [command EXCEPT ![p] = "lock"] /\ UNCHANGED <<writeLock, cmd, snap>>
  <2>1. secrets' \in [Ids -> Clients \cup {None}]
    BY <1>2, <1>3, <1>4, <1>6 DEF Commands
  <2>2. CreditAfter(p, j, "lock", c.kind)
    BY <1>6 DEF CreditAfter, WritingSteps
  <2>3. OthersKeepCredentials(j) /\ OthersKeepLock(p) /\ OthersAloneGive(p, j)
    BY <1>1, <1>3, <1>4, <1>6 DEF OthersKeepCredentials, OthersKeepLock, OthersAloneGive, Giving, P!Gives, Kind
  <2>. QED
    BY <1>1, <1>2, <1>3, <1>4, <1>6, <2>1, <2>2, <2>3, GoesOn
<1>7. CASE c.kind = "set-secret" /\ secrets' = [secrets EXCEPT ![j] = c.client] /\ P!End(p)
  <2>1. secrets' \in [Ids -> Clients \cup {None}]
    BY <1>2, <1>3, <1>4, <1>7 DEF Commands
  <2>2. Accounted(Of(p)) \/ Of(p) \in crossed
    BY <1>1, <1>3, <1>7 DEF ProfileInv, Credited, Kind
  <2>4. Accounted(j)' \/ j \in crossed'
    BY <1>1, <1>3, <2>2 DEF Accounted, P!Held
  <2>5. CreditAfter(p, j, "idle", P!NoCommand.kind)
    BY <2>4 DEF CreditAfter, WritingSteps
  <2>6. /\ command' = [command EXCEPT ![p] = "idle"] /\ cmd' = [cmd EXCEPT ![p] = P!NoCommand]
        /\ snap' = [snap EXCEPT ![p] = <<>>] /\ writeLock' = IF writeLock = p THEN None ELSE writeLock
    BY <1>7 DEF P!End, P!Goto
  <2>7. P!NoCommand \in Commands /\ "idle" \in CommandSteps \ {"archive", "swap"}
    BY DEF P!NoCommand, Commands, P!Kinds, CommandSteps
  <2>8. /\ command[p] # "swap" /\ OthersAloneGive(p, j) /\ crossed' = crossed
        /\ OthersKeepCredentials(j) /\ OthersKeepLock(p)
        /\ lost' = lost /\ reported \subseteq reported' /\ aside' = aside
    BY <1>1, <1>2, <1>3, <1>4, <1>7, <2>6
    DEF OthersKeepCredentials, OthersKeepLock, OthersAloneGive, Giving, P!Gives, Kind
  <2>9. dir' \in [there : BOOLEAN, files : {dir.files}]
    BY <1>1 DEF ProfileInv, ProfileTypes
  <2>. QED
    BY <1>3, <2>1, <2>5, <2>6, <2>7, <2>8, <2>9, EmptyDir, QuietStep
<1>. QED
  BY <1>3, <1>5, <1>6, <1>7 DEF P!Secret, P!Goto, P!Of, Of


LEMMA FailuresKeep ==
  ASSUME ProfileInv, NEW p \in Writers,
         P!SecretFails(p) \/ P!LockTimesOut(p) \/ P!ArchiveFails(p)
  PROVE  ProfileInv'
<1>1. /\ command[p] \in {"secret", "lock", "archive"} /\ P!End(p)
      /\ UNCHANGED <<dir, aside, secrets, keys, lost, crossed>> /\ reported \subseteq reported'
      /\ command[p] # "secret" => Of(p) \in reported'
  BY DEF P!SecretFails, P!LockTimesOut, P!ArchiveFails, P!GiveUp, P!At, P!history, P!Of, Of
<1>2. \/ Of(p) \in reported' \/ Accounted(Of(p)) \/ ~Credentials(Of(p))
      \/ OtherAdds(p, Of(p)) \/ Of(p) \in crossed
  BY <1>1, BeforeWriting
<1>3. dir' \in [there : BOOLEAN, files : {dir.files}]
  BY <1>1 DEF ProfileInv, ProfileTypes
<1>. QED
  BY <1>1, <1>2, <1>3, EndStep

LEMMA KeyKeeps ==
  ASSUME ProfileInv, NEW p \in Writers, P!Key(p) \/ P!KeyFails(p)
  PROVE  ProfileInv'
<1>1. /\ command[p] = "key" /\ UNCHANGED <<dir, aside, secrets, lost, crossed>>
      /\ reported \subseteq reported'
  BY DEF P!Key, P!KeyFails, P!At, P!history
<1>2. /\ Of(p) \in Ids
      /\ Credentials(Of(p)) =>
           Accounted(Of(p)) \/ OtherAdds(p, Of(p)) \/ Of(p) \in crossed
  BY <1>1, BeforeWriting
<1>3. PICK c \in Commands, j \in Ids : c = cmd[p] /\ c.id = Of(p) /\ j = Of(p)
  BY <1>2 DEF ProfileInv, ProfileTypes, Of
<1>4. secrets' \in [Ids -> Clients \cup {None}] /\ dir' \in [there : BOOLEAN, files : {dir.files}]
  BY <1>1 DEF ProfileInv, ProfileTypes
<1>5. CASE c.kind = "set-narration-key" /\ keys' = keys \cup {j} /\ P!End(p)
  <2>1. Accounted(j)' \/ j \in crossed'
    BY <1>1, <1>3, <1>5 DEF ProfileInv, Credited, Kind, Accounted, P!Held
  <2>2. CreditAfter(p, j, "idle", P!NoCommand.kind)
    BY <2>1 DEF CreditAfter, WritingSteps
  <2>3. /\ command' = [command EXCEPT ![p] = "idle"] /\ cmd' = [cmd EXCEPT ![p] = P!NoCommand]
        /\ snap' = [snap EXCEPT ![p] = <<>>] /\ writeLock' = IF writeLock = p THEN None ELSE writeLock
    BY <1>5 DEF P!End, P!Goto
  <2>4. P!NoCommand \in Commands /\ "idle" \in CommandSteps \ {"archive", "swap"}
    BY DEF P!NoCommand, Commands, P!Kinds, CommandSteps
  <2>5. /\ command[p] # "swap" /\ OthersAloneGive(p, j) /\ crossed' = crossed
        /\ OthersKeepCredentials(j) /\ OthersKeepLock(p)
        /\ lost' = lost /\ reported \subseteq reported' /\ aside' = aside
    BY <1>1, <1>2, <1>3, <1>5, <2>3
    DEF OthersKeepCredentials, OthersKeepLock, OthersAloneGive, Giving, P!Gives, Kind
  <2>. QED
    BY <1>3, <1>4, <2>2, <2>3, <2>4, <2>5, EmptyDir, QuietStep
<1>6. CASE /\ c.kind = "remove" /\ (keys' = keys \ {j} \/ (keys' = keys /\ j \in reported'))
           /\ command' = [command EXCEPT ![p] = "lock"] /\ UNCHANGED <<writeLock, cmd, snap>>
  <2>1. secrets[j] = None \/ j \in crossed
    BY <1>1, <1>3, <1>6 DEF ProfileInv, Credited, Kind
  <2>2. ~Credentials(j)' \/ j \in reported' \/ j \in crossed'
    BY <1>1, <1>6, <2>1 DEF Credentials
  <2>3. Credentials(j)' => Accounted(j)' \/ j \in crossed'
    BY <2>2 DEF Accounted
  <2>4. CreditAfter(p, j, "lock", c.kind)
    BY <1>6, <2>2, <2>3 DEF CreditAfter
  <2>5. OthersKeepCredentials(j) /\ OthersKeepLock(p) /\ OthersAloneGive(p, j)
    BY <1>1, <1>6 DEF OthersKeepCredentials, OthersKeepLock, OthersAloneGive
  <2>. QED
    BY <1>1, <1>3, <1>4, <1>6, <2>4, <2>5, GoesOn
<1>7. CASE P!End(p) /\ UNCHANGED keys
  BY <1>1, <1>2, <1>4, <1>7, EndStep
<1>. QED
  <2>1. CASE P!Key(p)
    BY <1>3, <1>5, <1>6, <2>1 DEF P!Key, P!Goto, P!Of, Of
  <2>2. CASE P!KeyFails(p)
    BY <1>3, <1>6, <1>7, <2>2 DEF P!KeyFails, P!Goto, P!Of, Of
  <2>. QED
    BY <2>1, <2>2

LEMMA LockKeeps == ASSUME ProfileInv, NEW p \in Writers, P!Lock(p) PROVE ProfileInv'
<1>1. /\ command[p] = "lock" /\ writeLock = None /\ writeLock' = p
      /\ command' = [command EXCEPT ![p] = "snapshot"]
      /\ UNCHANGED <<dir, aside, secrets, keys, cmd, snap, reported, lost, crossed>>
  BY DEF P!Lock, P!At, P!Goto, P!history
<1>2. Of(p) \in Ids /\ Kind(p) \in {"add", "remove"}
  BY <1>1 DEF ProfileInv, Commanded, Writing
<1>3. PICK c \in Commands, j \in Ids : c = cmd[p] /\ c.id = Of(p) /\ j = Of(p)
  BY <1>2 DEF ProfileInv, ProfileTypes, Of
<1>4. secrets' \in [Ids -> Clients \cup {None}]
  BY <1>1 DEF ProfileInv, ProfileTypes
<1>5. c.kind = "remove" => ~Credentials(j) \/ j \in reported \/ j \in crossed
  BY <1>1, <1>3 DEF ProfileInv, Credited, Writing, Kind
<1>6. c.kind = "remove" => ~Credentials(j)' \/ j \in reported' \/ j \in crossed'
  BY <1>1, <1>5 DEF Credentials
<1>7. c.kind = "add" \/ ~Credentials(j)' \/ Accounted(j)' \/ j \in crossed'
  BY <1>2, <1>3, <1>6 DEF Kind, Accounted
<1>8. CreditAfter(p, j, "snapshot", c.kind)
  BY <1>6, <1>7 DEF CreditAfter, WritingSteps
<1>9. /\ OthersKeepCredentials(j) /\ OthersKeepLock(p) /\ OthersAloneGive(p, j)
      /\ c.kind \in {"add", "remove"}
  BY <1>1, <1>2, <1>3, ServicesAssumption DEF OthersKeepCredentials, OthersKeepLock, OthersAloneGive, Kind
<1>. QED
  BY <1>1, <1>3, <1>4, <1>8, <1>9, GoesOn


\* The holder of the lock writes alone.
LEMMA WritesAlone ==
  ASSUME ProfileInv, NEW p \in Writers, command[p] \in {"snapshot", "archive", "swap"}
  PROVE  /\ writeLock = p
         /\ \A q \in Writers : q # p => command[q] \notin {"snapshot", "archive", "swap"}
         /\ command[p] # "swap" => aside = None
         /\ Of(p) \in Ids /\ Kind(p) \in {"add", "remove"}
         /\ Kind(p) = "remove" =>
              ~Credentials(Of(p)) \/ Of(p) \in reported \/ Of(p) \in crossed
  BY DEF ProfileInv, Serialized, Commanded, Credited, Writing

\* What p has written, or is about to, against what the store holds.
Complete(j, d, k) ==
  /\ k = "add" => MCFileOf[j] \in DOMAIN d
  /\ \A f \in DOMAIN P!Held \ DOMAIN d :
       f \in lost \/ (k = "remove" /\ f = MCFileOf[j])

\* A step of the writer: its snapshot, the renames, or its end.
LEMMA WriterStep ==
  ASSUME ProfileInv, NEW p \in Writers, command[p] \in {"snapshot", "archive", "swap"},
         NEW j \in Ids, j = Of(p),
         NEW s \in {"archive", "swap", "idle"}, NEW c \in Commands, NEW d, IsDir(d),
         s # "idle" => /\ c.id = j /\ c.kind \in {"add", "remove"} /\ c.kind = Kind(p)
                       /\ writeLock' = p /\ Complete(j, d, c.kind)',
         command' = [command EXCEPT ![p] = s], cmd' = [cmd EXCEPT ![p] = c],
         snap' = [snap EXCEPT ![p] = d],
         dir' \in [there : BOOLEAN, files : {dir'.files}], IsDir(dir'.files),
         IF s = "swap" THEN IsDir(aside') /\ DOMAIN dir'.files = {} ELSE aside' = None,
         UNCHANGED <<secrets, keys, crossed>>, reported \subseteq reported',
         \A i \in Ids : Accounted(i) => Accounted(i)' \/ (i = j /\ Kind(p) = "remove"),
         CreditAfter(p, j, s, c.kind)
  PROVE  ProfileInv'
<1>1. /\ ProfileTypes /\ Commanded /\ Serialized /\ Snapped /\ Apart /\ Credited
      /\ s \in CommandSteps /\ (aside' = None \/ IsDir(aside'))
      /\ secrets' \in [Ids -> Clients \cup {None}]
      /\ \A q \in Writers : q # p => command[q] \notin {"snapshot", "archive", "swap"}
  BY WritesAlone DEF ProfileInv, ProfileTypes, CommandSteps, P!Waiting
<1>2. /\ ProfileTypes'
      /\ command'[p] = s /\ cmd'[p] = c /\ snap'[p] = d
      /\ \A q \in Writers : q # p =>
           command'[q] = command[q] /\ cmd'[q] = cmd[q] /\ snap'[q] = snap[q]
  BY <1>1, ProfileFrame
<1>3. Commanded'
  BY <1>1, <1>2 DEF Commanded, Of, Kind, Writing
<1>4. s = "swap" => aside' # None
  BY DirIsThere
<1>5. Serialized'
  BY <1>1, <1>2, <1>4 DEF Serialized
<1>6. Snapped'
  BY <1>1, <1>2 DEF Snapped, Kind, Of, OwnFile, Complete
<1>7. command'[p] # "idle" => Of(p)' = j /\ Kind(p)' = c.kind
  BY <1>2 DEF Of, Kind
<1>8. Apart'
  <2>1. s # "idle" => Uncrossed(p, j, c.kind)'
    BY <1>1, StillUncrossed
  <2>. QED
    BY <1>1, <1>2, <1>7, <2>1, ApartKept
<1>9. Credited'
  <2>1. \A i \in Ids : i # j => (Credentials(i)' => Credentials(i))
    BY DEF Credentials
  <2>2. OthersAloneGive(p, j)
    BY DEF OthersAloneGive
  <2>. QED
    BY <1>1, <1>2, <1>7, <1>8, <2>1, <2>2, CreditKept
<1>. QED
  BY <1>2, <1>3, <1>5, <1>6, <1>8, <1>9 DEF ProfileInv

LEMMA ArchiveKeeps == ASSUME ProfileInv, NEW p \in Writers, P!Archive(p) PROVE ProfileInv'
<1>1. /\ command[p] = "archive" /\ aside' = dir.files
      /\ dir' = [there |-> FALSE, files |-> <<>>] /\ command' = [command EXCEPT ![p] = "swap"]
      /\ UNCHANGED <<secrets, keys, writeLock, cmd, snap, reported, lost, crossed>>
  BY DEF P!Archive, P!At, P!Goto, P!history
<1>2. /\ writeLock = p /\ aside = None /\ Of(p) \in Ids /\ Kind(p) \in {"add", "remove"}
      /\ Kind(p) = "remove" => ~Credentials(Of(p)) \/ Of(p) \in reported \/ Of(p) \in crossed
  BY <1>1, WritesAlone
<1>3. PICK c, j, d :
        /\ c \in Commands /\ j \in Ids
        /\ c = cmd[p] /\ c.id = Of(p) /\ c.kind = Kind(p) /\ j = Of(p)
        /\ IsDir(d) /\ d = snap[p] /\ snap' = [snap EXCEPT ![p] = d] /\ cmd' = [cmd EXCEPT ![p] = c]
  BY <1>1, <1>2 DEF ProfileInv, ProfileTypes, Of, Kind
<1>4. IsDir(aside') /\ aside' # None /\ DOMAIN dir'.files = {} /\ dir'.files = <<>>
      /\ dir' \in [there : BOOLEAN, files : {dir'.files}]
  BY <1>1, DirIsThere DEF ProfileInv, ProfileTypes
<1>5. P!Held' = P!Held
  BY <1>1, <1>2, <1>4 DEF P!Held
<1>6. Complete(j, d, c.kind)'
  BY <1>1, <1>3, <1>5 DEF Complete, ProfileInv, Snapped, OwnFile
<1>7. \A i \in Ids : Accounted(i) => Accounted(i)'
  BY <1>1, <1>5 DEF Accounted
<1>8. CreditAfter(p, j, "swap", c.kind)
  BY <1>1, <1>2, <1>3 DEF CreditAfter, WritingSteps, Credentials, Accounted
<1>9. IsDir(dir'.files)
  BY <1>4, EmptyDir
<1>10. /\ command[p] \in {"snapshot", "archive", "swap"} /\ j = Of(p)
       /\ c.id = j /\ c.kind \in {"add", "remove"} /\ writeLock' = p
       /\ UNCHANGED <<secrets, keys, crossed>> /\ reported \subseteq reported'
       /\ command' = [command EXCEPT ![p] = "swap"] /\ cmd' = [cmd EXCEPT ![p] = c]
       /\ snap' = [snap EXCEPT ![p] = d] /\ IsDir(d)
  BY <1>1, <1>2, <1>3
<1>. QED
  BY <1>3, <1>4, <1>6, <1>7, <1>8, <1>9, <1>10, WriterStep


\* The end of a command that was swapping: what the store holds becomes dir'.files.
LEMMA WriterEnds ==
  ASSUME ProfileInv, NEW p \in Writers, command[p] = "swap",
         command' = [command EXCEPT ![p] = "idle"], cmd' = [cmd EXCEPT ![p] = P!NoCommand],
         snap' = [snap EXCEPT ![p] = <<>>],
         dir' \in [there : BOOLEAN, files : {dir'.files}], IsDir(dir'.files), aside' = None,
         UNCHANGED <<secrets, keys, crossed>>, reported \subseteq reported',
         \A i \in Ids : Accounted(i) => Accounted(i)' \/ (i = Of(p) /\ Kind(p) = "remove"),
         \/ Of(p) \in reported'
         \/ Kind(p) = "add" /\ MCFileOf[Of(p)] \in DOMAIN dir'.files
         \/ Kind(p) = "remove"
  PROVE  ProfileInv'
<1>1. /\ Of(p) \in Ids /\ Kind(p) \in {"add", "remove"}
      /\ Kind(p) = "remove" => ~Credentials(Of(p)) \/ Of(p) \in reported \/ Of(p) \in crossed
  BY WritesAlone
<1>2. PICK j \in Ids : j = Of(p)
  BY <1>1
<1>3. Accounted(j)' \/ ~Credentials(j)' \/ j \in crossed'
  BY <1>1, <1>2 DEF Accounted, Credentials, P!Held
<1>4. CreditAfter(p, j, "idle", P!NoCommand.kind)
  BY <1>3 DEF CreditAfter, WritingSteps
<1>5. P!NoCommand \in Commands
  BY DEF P!NoCommand, Commands, P!Kinds
<1>6. \A i \in Ids : Accounted(i) => Accounted(i)' \/ (i = j /\ Kind(p) = "remove")
  BY <1>2
<1>. QED
  BY <1>2, <1>4, <1>5, <1>6, EmptyDir, WriterStep

LEMMA SwapKeeps == ASSUME ProfileInv, NEW p \in Writers, P!Swap(p) PROVE ProfileInv'
<1>1. /\ command[p] = "swap" /\ dir' = [there |-> TRUE, files |-> snap[p]] /\ aside' = None
      /\ command' = [command EXCEPT ![p] = "idle"] /\ cmd' = [cmd EXCEPT ![p] = P!NoCommand]
      /\ snap' = [snap EXCEPT ![p] = <<>>]
      /\ UNCHANGED <<secrets, keys, reported, lost, crossed>>
  BY DEF P!Swap, P!End, P!At, P!Goto, P!history
<1>2. /\ dir' \in [there : BOOLEAN, files : {dir'.files}] /\ dir'.files = snap[p]
      /\ IsDir(snap[p])
  BY <1>1 DEF ProfileInv, ProfileTypes
<1>3. P!Held' = snap[p]
  BY <1>1, <1>2 DEF P!Held
<1>4. /\ Kind(p) = "add" => MCFileOf[Of(p)] \in DOMAIN snap[p]
      /\ \A f \in DOMAIN P!Held \ DOMAIN snap[p] :
           f \in lost \/ (Kind(p) = "remove" /\ f = MCFileOf[Of(p)])
  BY <1>1 DEF ProfileInv, Snapped, OwnFile
<1>5. Of(p) \in Ids /\ Kind(p) \in {"add", "remove"}
  BY <1>1, WritesAlone
<1>6. \A i \in Ids : Accounted(i) => Accounted(i)' \/ (i = Of(p) /\ Kind(p) = "remove")
  BY <1>1, <1>3, <1>4, <1>5, ServicesAssumption DEF Accounted
<1>. QED
  BY <1>1, <1>2, <1>4, <1>5, <1>6, WriterEnds

LEMMA SwapFailsKeeps == ASSUME ProfileInv, NEW p \in Writers, P!SwapFails(p) PROVE ProfileInv'
<1>1. /\ command[p] = "swap" /\ dir' = [there |-> TRUE, files |-> aside] /\ aside' = None
      /\ command' = [command EXCEPT ![p] = "idle"] /\ cmd' = [cmd EXCEPT ![p] = P!NoCommand]
      /\ snap' = [snap EXCEPT ![p] = <<>>]
      /\ reported' = reported \cup {Of(p)} /\ UNCHANGED <<secrets, keys, lost, crossed>>
  BY DEF P!SwapFails, P!GiveUp, P!End, P!At, P!Goto, P!Of, Of
<1>2. /\ dir' \in [there : BOOLEAN, files : {dir'.files}] /\ dir'.files = aside
      /\ aside # None /\ IsDir(aside)
  BY <1>1 DEF ProfileInv, ProfileTypes, Serialized
<1>3. P!Held' = P!Held
  BY <1>1, <1>2 DEF P!Held
<1>4. \A i \in Ids : Accounted(i) => Accounted(i)'
  BY <1>1, <1>3 DEF Accounted
<1>. QED
  BY <1>1, <1>2, <1>4, WriterEnds

LEMMA CrashKeeps == ASSUME ProfileInv, NEW p \in Writers, P!Crash(p) PROVE ProfileInv'
<1>1. /\ command[p] # "idle"
      /\ command' = [command EXCEPT ![p] = "idle"] /\ cmd' = [cmd EXCEPT ![p] = P!NoCommand]
      /\ snap' = [snap EXCEPT ![p] = <<>>]
      /\ reported' = reported \cup {Of(p)} /\ UNCHANGED <<dir, secrets, keys, writeLock, crossed>>
  BY DEF P!Crash, P!Waiting, P!Goto, P!Of, Of
<1>2. dir' \in [there : BOOLEAN, files : {dir'.files}] /\ IsDir(dir'.files)
  BY <1>1 DEF ProfileInv, ProfileTypes
<1>3. CASE command[p] = "swap"
  <2>1. aside # None /\ aside' = None /\ lost' = lost \cup DOMAIN aside
    BY <1>3 DEF P!Crash, P!At, ProfileInv, Serialized
  <2>2. \A i \in Ids : Accounted(i) => Accounted(i)'
    BY <1>1, <2>1 DEF Accounted, P!Held
  <2>. QED
    BY <1>1, <1>2, <1>3, <2>1, <2>2, WriterEnds
<1>4. CASE command[p] # "swap"
  <2>1. UNCHANGED <<aside, lost>>
    BY <1>4 DEF P!Crash, P!At
  <2>2. Of(p) \in Ids
    BY <1>1 DEF ProfileInv, Commanded
  <2>3. PICK j \in Ids : j = Of(p)
    BY <2>2
  <2>4. Accounted(j)'
    BY <1>1, <2>3 DEF Accounted
  <2>5. CreditAfter(p, j, "idle", P!NoCommand.kind)
    BY <2>4 DEF CreditAfter, WritingSteps
  <2>6. P!NoCommand \in Commands /\ "idle" \in CommandSteps \ {"archive", "swap"}
    BY DEF P!NoCommand, Commands, P!Kinds, CommandSteps
  <2>7. /\ OthersKeepCredentials(j) /\ OthersKeepLock(p) /\ OthersAloneGive(p, j) /\ crossed' = crossed
        /\ lost' = lost /\ reported \subseteq reported' /\ aside' = aside
        /\ dir' \in [there : BOOLEAN, files : {dir.files}]
        /\ secrets' \in [Ids -> Clients \cup {None}]
    BY <1>1, <1>2, <2>1, <2>2, <2>3 DEF OthersKeepCredentials, OthersKeepLock, OthersAloneGive, ProfileInv, ProfileTypes
  <2>. QED
    BY <1>1, <1>4, <2>3, <2>5, <2>6, <2>7, EmptyDir, QuietStep
<1>. QED
  BY <1>3, <1>4

LEMMA ReclaimKeeps == ASSUME ProfileInv, P!LockReclaimed PROVE ProfileInv'
<1>1. /\ writeLock # None /\ command[writeLock] \notin {"snapshot", "archive", "swap"}
      /\ UNCHANGED <<dir, aside, secrets, keys, command, cmd, snap, reported, lost, crossed>>
  BY DEF P!LockReclaimed, P!history
<1>2. ProfileTypes' /\ Commanded' /\ Snapped' /\ Apart' /\ Credited'
  BY <1>1 DEF ProfileInv, ProfileTypes, IsDir, Commanded, Snapped, Apart, Uncrossed, Credited, Of, Kind, OwnFile,
     Writing, Credentials, Accounted, Adding, P!Held
<1>3. Serialized'
  BY <1>1 DEF ProfileInv, Serialized
<1>. QED
  BY <1>2, <1>3 DEF ProfileInv


LEMMA SnapshotKeeps == ASSUME ProfileInv, NEW p \in Writers, P!Snapshot(p) PROVE ProfileInv'
<1>. DEFINE own == MCFileOf[Of(p)]
<1>1. /\ command[p] = "snapshot" /\ dir' = [dir EXCEPT !.there = TRUE]
      /\ UNCHANGED <<aside, secrets, keys>>
  BY DEF P!Snapshot, P!At, P!Opened
<1>2. PICK unread \in SUBSET DOMAIN dir.files :
        LET files == P!Without(dir.files, unread)
        IN  IF Kind(p) = "remove" /\ own \notin DOMAIN files
              THEN P!End(p) /\ UNCHANGED <<reported, lost, crossed>>
              ELSE /\ snap' = [snap EXCEPT ![p] =
                        IF Kind(p) = "add" THEN P!With(files, own, P!Stored(p))
                                           ELSE P!Without(files, {own})]
                   /\ lost' = lost \cup unread
                   /\ command' = [command EXCEPT ![p] = "archive"]
                   /\ UNCHANGED <<writeLock, cmd, reported, crossed>>
  BY DEF P!Snapshot, P!Goto, P!Of, Of, Kind, P!history
<1>3. /\ writeLock = p /\ aside = None /\ Of(p) \in Ids /\ Kind(p) \in {"add", "remove"}
      /\ Kind(p) = "remove" => ~Credentials(Of(p)) \/ Of(p) \in reported \/ Of(p) \in crossed
  BY <1>1, WritesAlone
<1>4. /\ dir' \in [there : BOOLEAN, files : {dir.files}] /\ dir'.files = dir.files
      /\ dir' \in [there : BOOLEAN, files : {dir'.files}] /\ IsDir(dir.files)
  BY <1>1 DEF ProfileInv, ProfileTypes
<1>. DEFINE files == P!Without(dir.files, unread)
<1>5. IsDir(files) /\ DOMAIN files = DOMAIN dir.files \ unread
  BY <1>4, LeftOut
<1>6. CASE Kind(p) = "remove" /\ own \notin DOMAIN files
  <2>1. P!End(p) /\ UNCHANGED <<reported, lost, crossed>>
    BY <1>2, <1>6
  <2>2. Of(p) \in reported' \/ ~Credentials(Of(p)) \/ Of(p) \in crossed
    BY <1>3, <1>6, <2>1
  <2>. QED
    BY <1>1, <1>4, <2>1, <2>2, EndStep
<1>7. CASE ~(Kind(p) = "remove" /\ own \notin DOMAIN files)
  <2>. DEFINE new == IF Kind(p) = "add" THEN P!With(files, own, P!Stored(p))
                                        ELSE P!Without(files, {own})
  <2>1. /\ snap' = [snap EXCEPT ![p] = new] /\ lost' = lost \cup unread
        /\ command' = [command EXCEPT ![p] = "archive"] /\ UNCHANGED <<writeLock, cmd, reported, crossed>>
    BY <1>2, <1>7
  <2>2. cmd[p].client \in Clients \cup {None}
    BY DEF ProfileInv, ProfileTypes, Commands
  <2>3. /\ IsDir(new)
        /\ DOMAIN new = IF Kind(p) = "add" THEN DOMAIN files \cup {own} ELSE DOMAIN files \ {own}
    <3>. HIDE DEF files
    <3>1. CASE Kind(p) = "add"
      <4>1. P!Stored(p) = [id |-> Of(p), client |-> cmd[p].client]
        BY DEF P!Stored, P!Of, Of
      <4>. QED
        BY <1>3, <1>5, <2>2, <3>1, <4>1, PutIn
    <3>2. CASE Kind(p) # "add"
      BY <1>5, <3>2, LeftOut
    <3>. QED
      BY <3>1, <3>2
  <2>. HIDE DEF new, files
  <2>4. PICK c, j, d :
          /\ c \in Commands /\ j \in Ids
          /\ c = cmd[p] /\ c.id = Of(p) /\ c.kind = Kind(p) /\ j = Of(p)
          /\ IsDir(d) /\ d = new /\ snap' = [snap EXCEPT ![p] = d] /\ cmd' = [cmd EXCEPT ![p] = c]
    <3>1. cmd[p] \in Commands /\ cmd' = [cmd EXCEPT ![p] = cmd[p]]
      BY <2>1 DEF ProfileInv, ProfileTypes
    <3>2. \E c \in Commands : c = cmd[p] /\ c.id = Of(p) /\ c.kind = Kind(p) /\ cmd' = [cmd EXCEPT ![p] = c]
      BY <3>1 DEF Of, Kind
    <3>3. \E d : IsDir(d) /\ d = new /\ snap' = [snap EXCEPT ![p] = d]
      BY <2>1, <2>3
    <3>. QED
      BY <1>3, <3>2, <3>3
  <2>5. P!Held' = dir.files /\ P!Held = dir.files
    BY <1>1, <1>3, <1>4 DEF P!Held
  <2>6. Complete(j, d, c.kind)'
    BY <1>3, <1>5, <2>1, <2>3, <2>4, <2>5 DEF Complete
  <2>7. \A i \in Ids : Accounted(i) => Accounted(i)'
    BY <2>1, <2>5 DEF Accounted
  <2>8. CreditAfter(p, j, "archive", c.kind)
    BY <1>1, <1>3, <2>1, <2>4 DEF CreditAfter, WritingSteps, Credentials, Accounted
  <2>9. /\ command[p] \in {"snapshot", "archive", "swap"} /\ j = Of(p)
        /\ c.id = j /\ c.kind \in {"add", "remove"} /\ writeLock' = p /\ aside' = None
        /\ UNCHANGED <<secrets, keys, crossed>> /\ reported \subseteq reported'
        /\ command' = [command EXCEPT ![p] = "archive"] /\ cmd' = [cmd EXCEPT ![p] = c]
        /\ snap' = [snap EXCEPT ![p] = d] /\ IsDir(d) /\ IsDir(dir'.files)
    BY <1>1, <1>3, <1>4, <2>1, <2>4
  <2>. QED
    BY <1>4, <2>4, <2>6, <2>7, <2>8, <2>9, WriterStep
<1>. QED
  BY <1>6, <1>7

LEMMA ProfileStep == ProfileInv /\ P!Next => ProfileInv'
<1>. SUFFICES ASSUME ProfileInv, P!Next PROVE ProfileInv'
  OBVIOUS
<1>1. CASE P!LockReclaimed
  BY <1>1, ReclaimKeeps
<1>2. ASSUME NEW p \in Writers, P!Step(p) PROVE ProfileInv'
  BY <1>2, GetKeeps, SecretKeeps, KeyKeeps, LockKeeps, FailuresKeep, SnapshotKeeps,
     ArchiveKeeps, SwapKeeps DEF P!Step
<1>. QED
  BY <1>1, <1>2, StartKeeps, FailuresKeep, KeyKeeps, SwapFailsKeeps, CrashKeeps DEF P!Next

LEMMA ProfileInit == ServicesInit => ProfileInv
<1>. SUFFICES ASSUME ServicesInit PROVE ProfileInv
  OBVIOUS
<1>. DEFINE client_ == CHOOSE c \in Clients : TRUE
<1>1. P!Init
  BY DEF ServicesInit
<1>2. PICK known \in [Ids -> {"absent", "corrupt", "stored"}] :
        LET present == {i \in Ids : known[i] # "absent"}
        IN  /\ dir = [there |-> TRUE, files |->
                 [f \in {MCFileOf[i] : i \in present} |->
                    LET i == CHOOSE j \in present : MCFileOf[j] = f
                    IN  IF known[i] = "stored" THEN [id |-> i, client |-> client_] ELSE P!Corrupt]]
            /\ secrets = [i \in Ids |-> IF i \in present THEN client_ ELSE None]
  BY <1>1 DEF P!Init
<1>. DEFINE present == {i \in Ids : known[i] # "absent"}
            Of_(f) == CHOOSE j \in present : MCFileOf[j] = f
            entry(f) == IF known[Of_(f)] = "stored" THEN [id |-> Of_(f), client |-> client_]
                                                   ELSE P!Corrupt
<1>3. client_ \in Clients
  BY ServicesAssumption
<1>. HIDE DEF client_
<1>4. ASSUME NEW f \in {MCFileOf[i] : i \in present}
      PROVE  /\ f \in ProfileFiles /\ entry(f) \in Profiles
             /\ entry(f) = P!Corrupt \/ (entry(f).id \in Ids /\ MCFileOf[entry(f).id] = f)
  <2>1. Of_(f) \in present /\ MCFileOf[Of_(f)] = f
    BY <1>4
  <2>2. f \in ProfileFiles
    BY <2>1, ServicesAssumption
  <2>3. PICK i \in Ids : i = Of_(f)
    BY <2>1
  <2>. HIDE DEF present, Of_
  <2>. QED
    BY <1>3, <2>1, <2>2, <2>3 DEF Profiles, P!Corrupt
<1>5. dir.files = [f \in {MCFileOf[i] : i \in present} |-> entry(f)]
      /\ dir \in [there : BOOLEAN, files : {dir.files}]
  BY <1>2
<1>6. DOMAIN dir.files = {MCFileOf[i] : i \in present} /\ IsDir(dir.files)
  <2>. HIDE DEF entry, present
  <2>. QED
    BY <1>4, <1>5 DEF IsDir
<1>7. secrets \in [Ids -> Clients \cup {None}] /\ \A i \in Ids : secrets[i] # None => i \in present
  BY <1>2, <1>3
<1>8. /\ aside = None /\ keys = {} /\ writeLock = None /\ lost = {} /\ reported = {}
      /\ command = [p \in Writers |-> "idle"] /\ cmd = [p \in Writers |-> P!NoCommand]
      /\ snap = [p \in Writers |-> <<>>]
  BY <1>1 DEF P!Init
<1>9. P!NoCommand \in Commands /\ "idle" \in CommandSteps
  BY DEF P!NoCommand, Commands, P!Kinds, CommandSteps
<1>10. ProfileTypes
  BY <1>5, <1>6, <1>7, <1>8, <1>9, EmptyDir DEF ProfileTypes
<1>11. \A i \in Ids : Credentials(i) => Accounted(i)
  BY <1>6, <1>7, <1>8 DEF Credentials, Accounted, P!Held
<1>12. Commanded /\ Serialized /\ Snapped /\ Apart /\ Credited
  BY <1>8, <1>11 DEF Commanded, Serialized, Snapped, Apart, Credited, Writing
<1>. QED
  BY <1>10, <1>12 DEF ProfileInv


\* Only the second rename, or a crash before it, changes what the store holds.
LEMMA OnlySwapForgets ==
  ASSUME ProfileInv, P!Next, NEW f \in DOMAIN P!Held \ (DOMAIN P!Held)'
  PROVE  f \in lost' \/ \E p \in Writers : cmd[p].kind = "remove" /\ MCFileOf[cmd[p].id] = f
<1>1. ASSUME NEW p \in Writers, P!Swap(p)
      PROVE  f \in lost' \/ (cmd[p].kind = "remove" /\ MCFileOf[cmd[p].id] = f)
  <2>1. command[p] = "swap" /\ P!Held' = snap[p] /\ lost' = lost
    BY <1>1 DEF P!Swap, P!At, P!Held, P!history
  <2>. QED
    BY <2>1 DEF ProfileInv, Snapped, Kind, OwnFile, Of
<1>2. ASSUME NEW p \in Writers, P!Crash(p) PROVE f \in lost'
  <2>1. CASE command[p] = "swap"
    BY <1>2, <2>1 DEF P!Crash, P!At, P!Held, ProfileInv, Serialized
  <2>2. CASE command[p] # "swap"
    BY <1>2, <2>2 DEF P!Crash, P!At, P!Held
  <2>. QED
    BY <2>1, <2>2
<1>3. ASSUME NEW p \in Writers, P!SwapFails(p) PROVE FALSE
  <2>1. command[p] = "swap" /\ aside # None /\ P!Held' = aside
    BY <1>3 DEF P!SwapFails, P!At, P!Held, ProfileInv, Serialized
  <2>. QED
    BY <2>1 DEF P!Held
<1>4. ASSUME NEW p \in Writers, P!Archive(p) PROVE FALSE
  <2>1. command[p] = "archive" /\ aside' = dir.files
    BY <1>4 DEF P!Archive, P!At
  <2>2. aside = None /\ aside' # None
    BY <2>1, WritesAlone, DirIsThere DEF ProfileInv, ProfileTypes
  <2>. QED
    BY <2>1, <2>2 DEF P!Held
<1>5. ASSUME NEW p \in Writers, P!Get(p) \/ P!Snapshot(p) PROVE FALSE
  <2>1. aside' = aside /\ dir' = [dir EXCEPT !.there = TRUE]
    BY <1>5 DEF P!Get, P!Snapshot, P!Opened
  <2>2. dir'.files = dir.files
    BY <2>1 DEF ProfileInv, ProfileTypes
  <2>. QED
    BY <2>1, <2>2 DEF P!Held
<1>6. CASE UNCHANGED <<dir, aside>>
  BY <1>6 DEF P!Held
<1>7. ASSUME NEW p \in Writers,
             \/ P!Start(p) \/ P!Secret(p) \/ P!SecretFails(p) \/ P!Key(p) \/ P!KeyFails(p)
             \/ P!Lock(p) \/ P!LockTimesOut(p) \/ P!ArchiveFails(p)
      PROVE  UNCHANGED <<dir, aside>>
  BY <1>7 DEF P!Start, P!Secret, P!SecretFails, P!Key, P!KeyFails, P!Lock, P!LockTimesOut, P!ArchiveFails
<1>8. P!LockReclaimed => UNCHANGED <<dir, aside>>
  BY DEF P!LockReclaimed
<1>. QED
  BY <1>1, <1>2, <1>3, <1>4, <1>5, <1>6, <1>7, <1>8 DEF P!Next, P!Step

LEMMA ProfilesAlways == ServicesSpec => []ProfileInv
<1>1. ProfileInv /\ [ServicesNext]_services => ProfileInv'
  <2>. SUFFICES ASSUME ProfileInv, [ServicesNext]_services PROVE ProfileInv'
    OBVIOUS
  <2>1. CASE P!Next
    BY <2>1, ProfileStep
  <2>2. CASE UNCHANGED profiles
    BY <2>2 DEF profiles, ProfileInv, ProfileTypes, IsDir, Commanded, Serialized, Snapped, Apart, Uncrossed,
       Credited, Of, Kind, OwnFile, Writing, Credentials, Accounted, Adding, P!Held
  <2>. QED
    BY <2>1, <2>2 DEF ServicesNext, services
<1>. QED
  BY ProfileInit, <1>1, PTL DEF ServicesSpec

\* profile.ts and FileProfileStore: whatever fails, crashes or overlaps, a credential with
\* no command about it has a profile, unless a failure was reported, a file was lost, or one
\* command gave it while another removed the profile.
THEOREM NoCredentialIsOrphaned == ServicesSpec => []NoOrphanedSecret
<1>1. ProfileInv => NoOrphanedSecret
  <2>. SUFFICES ASSUME ProfileInv, NEW i \in Ids, Credentials(i),
                       \A p \in Writers : command[p] # "idle" => Of(p) # i
                PROVE  Accounted(i) \/ i \in crossed
    BY DEF NoOrphanedSecret, P!NoOrphanedSecret, Credentials, Accounted, P!Of, Of
  <2>1. \A p \in Writers : ~Adding(p, i)
    BY DEF Adding, Writing
  <2>. QED
    BY <2>1 DEF ProfileInv, Credited
<1>. QED
  BY ProfilesAlways, <1>1, PTL

\* FileProfileStore.#replaceDirectory: every write replaces the whole directory, and takes
\* along every profile but the one it removes, what it could not read, or a crash's.
THEOREM NoProfileIsForgotten == ServicesSpec => NothingForgotten
<1>1. ProfileInv /\ [ServicesNext]_services =>
        [\A f \in DOMAIN P!Held \ (DOMAIN P!Held)' :
           f \in lost' \/ \E p \in Writers : cmd[p].kind = "remove" /\ MCFileOf[P!Of(p)] = f]_(P!vars)
  <2>. SUFFICES ASSUME ProfileInv, [ServicesNext]_services, ~UNCHANGED P!vars,
                       NEW f \in DOMAIN P!Held \ (DOMAIN P!Held)'
                PROVE  f \in lost' \/ \E p \in Writers : cmd[p].kind = "remove" /\ MCFileOf[P!Of(p)] = f
    OBVIOUS
  <2>1. P!Next
    BY DEF ServicesNext, services, profiles, P!vars, P!history, P!bounds
  <2>. QED
    BY <2>1, OnlySwapForgets DEF P!Of
<1>. QED
  BY ProfilesAlways, <1>1, PTL DEF ServicesSpec, NothingForgotten, P!NothingForgotten

-----------------------------------------------------------------------------
(* The cache of the flows' references *)

LEMMA ProviderCardinality == ASSUME NEW X PROVE S!Cardinality(X) = Cardinality(X)
BY DEF S!Cardinality, Cardinality

\* A cache has one entry for a flow, and what came into it after a flow is in the set
\* of that flow.
Fits(cache, after) ==
  /\ cache \in Seq(Cached \X Nat)
  /\ \A i, j \in DOMAIN cache : cache[i][1] = cache[j][1] => i = j
  /\ \A i, j \in DOMAIN cache : i < j => cache[j][1] \in after[cache[i][1]]

\* A flow that is in no entry; a flow that came in after all others.
Absent(f, cache) == \A i \in DOMAIN cache : cache[i][1] # f
CameIn(f, after, later) == \A g \in Cached : g # f => later[g] = after[g] \cup {f}

\* A flow that was loaded is in the cache, at the version that was loaded, until as many
\* others as the cache holds came after it.
Recent(f) ==
  last[f] # None /\ Cardinality(since[f]) < CacheLimit =>
    \E i \in DOMAIN selves : selves[i] = <<f, last[f]>>

ProviderInv ==
  /\ version \in [Cached -> Nat] /\ DOMAIN since = Cached /\ DOMAIN last = Cached
  /\ \A f \in Cached : IsFiniteSet(since[f])
  /\ Fits(selves, since) /\ Len(selves) <= CacheLimit
  /\ \A f \in Cached : Recent(f)

\* Deleting a flow's entry leaves the others in their order.
LEMMA DeleteFits ==
  ASSUME NEW after, NEW cache, Fits(cache, after), NEW f \in Cached,
         NEW d, d = S!Delete(cache, S!Hits(cache, f))
  PROVE  /\ Fits(d, after) /\ Len(d) <= Len(cache)
         /\ \A i \in DOMAIN d : d[i][1] # f
         /\ \A k \in DOMAIN cache : cache[k][1] # f => \E i \in DOMAIN d : d[i] = cache[k]
<1>1. cache \in Seq(Cached \X Nat) /\ Len(cache) \in Nat /\ DOMAIN cache = 1 .. Len(cache)
  BY DEF Fits
<1>2. CASE S!Hits(cache, f) = {}
  <2>1. d = cache
    BY <1>2 DEF S!Delete
  <2>2. \A i \in DOMAIN cache : cache[i][1] # f
    BY <1>2 DEF S!Hits
  <2>. QED
    BY <1>1, <2>1, <2>2
<1>3. CASE S!Hits(cache, f) # {}
  <2>1. PICK n \in DOMAIN cache : cache[n][1] = f /\ d = S!RemoveAt(cache, n)
    BY <1>3 DEF S!Delete, S!Hits
  <2>2. d = SubSeq(cache, 1, n - 1) \o SubSeq(cache, n + 1, Len(cache))
    BY <2>1 DEF S!RemoveAt
  <2>3. n \in 1 .. Len(cache)
    BY <1>1, <2>1
  <2>4. /\ d \in Seq(Cached \X Nat) /\ Len(d) = Len(cache) - 1 /\ DOMAIN d = 1 .. Len(cache) - 1
        /\ \A i \in DOMAIN d : d[i] = cache[IF i < n THEN i ELSE i + 1]
    <3>. DEFINE front == SubSeq(cache, 1, n - 1)
                back == SubSeq(cache, n + 1, Len(cache))
    <3>1. /\ front \in Seq(Cached \X Nat) /\ Len(front) = n - 1
          /\ \A i \in 1 .. n - 1 : front[i] = cache[1 + i - 1]
      <4>1. 1 \in 1 .. Len(cache) + 1 /\ n - 1 \in 1 - 1 .. Len(cache)
        BY <1>1, <2>3
      <4>. QED
        BY <1>1, <2>3, <4>1, SubSeqProperties
    <3>2. /\ back \in Seq(Cached \X Nat) /\ Len(back) = Len(cache) - n
          /\ \A i \in 1 .. Len(cache) - n : back[i] = cache[n + 1 + i - 1]
      <4>1. \A i \in n + 1 .. Len(cache) : cache[i] \in Cached \X Nat
        BY <1>1, <2>3, ElementOfSeq
      <4>2. n + 1 \in Int /\ Len(cache) \in Int
        BY <1>1, <2>3
      <4>3. /\ back \in Seq(Cached \X Nat)
            /\ Len(back) = IF n + 1 <= Len(cache) THEN Len(cache) - (n + 1) + 1 ELSE 0
            /\ \A i \in 1 .. Len(cache) - (n + 1) + 1 : back[i] = cache[n + 1 + i - 1]
        BY <4>1, <4>2, SubSeqProperties
      <4>4. Len(cache) - (n + 1) + 1 = Len(cache) - n /\ (~(n + 1 <= Len(cache)) => Len(cache) - n = 0)
        BY <1>1, <2>3
      <4>. HIDE DEF back
      <4>. QED
        BY <4>3, <4>4
    <3>. HIDE DEF front, back
    <3>3. /\ front \o back \in Seq(Cached \X Nat) /\ Len(front \o back) = Len(front) + Len(back)
          /\ \A i \in 1 .. Len(front) + Len(back) :
               (front \o back)[i] = IF i <= Len(front) THEN front[i] ELSE back[i - Len(front)]
      BY <3>1, <3>2, ConcatProperties
    <3>4. Len(front) + Len(back) = Len(cache) - 1
      BY <1>1, <2>3, <3>1, <3>2
    <3>5. d = front \o back
      BY <2>2 DEF front, back
    <3>6. DOMAIN d = 1 .. Len(cache) - 1
      BY <3>3, <3>4, <3>5
    <3>7. ASSUME NEW i \in 1 .. Len(cache) - 1
          PROVE  d[i] = cache[IF i < n THEN i ELSE i + 1]
      <4>1. i <= Len(front) <=> i < n
        BY <1>1, <2>3, <3>1, <3>7
      <4>2. CASE i < n
        <5>1. i \in 1 .. n - 1 /\ 1 + i - 1 = i
          BY <1>1, <2>3, <3>7, <4>2
        <5>. QED
          BY <3>1, <3>3, <3>4, <3>5, <4>1, <4>2, <5>1
      <4>3. CASE ~(i < n)
        <5>0. n \in Nat /\ i \in Nat /\ n <= i /\ i <= Len(cache) - 1 /\ Len(cache) \in Nat
          BY <1>1, <2>3, <3>7, <4>3
        <5>1. i - (n - 1) \in 1 .. Len(cache) - n /\ n + 1 + (i - (n - 1)) - 1 = i + 1
          BY <5>0
        <5>2. back[i - (n - 1)] = cache[i + 1]
          BY <3>2, <5>1
        <5>3. (front \o back)[i] = back[i - (n - 1)]
          BY <3>1, <3>3, <3>4, <3>7, <4>1, <4>3
        <5>. QED
          BY <3>5, <4>3, <5>2, <5>3
      <4>. QED
        BY <4>2, <4>3
    <3>. QED
      BY <3>3, <3>4, <3>5, <3>6, <3>7
  <2>. DEFINE from == [i \in DOMAIN d |-> IF i < n THEN i ELSE i + 1]
  <2>5. /\ \A i \in DOMAIN d : from[i] \in DOMAIN cache \ {n} /\ d[i] = cache[from[i]]
        /\ \A i, j \in DOMAIN d : (from[i] = from[j] => i = j) /\ (i < j => from[i] < from[j])
    <3>0. \A i \in 1 .. Len(cache) - 1 : from[i] = IF i < n THEN i ELSE i + 1
      BY <2>4
    <3>. HIDE DEF from
    <3>1. \A i \in DOMAIN d : from[i] \in DOMAIN cache \ {n}
      <4>1. \A i \in 1 .. Len(cache) - 1 : from[i] \in 1 .. Len(cache) /\ from[i] # n
        BY <1>1, <2>3, <3>0
      <4>. QED
        BY <1>1, <2>4, <4>1
    <3>2. \A i, j \in DOMAIN d : (from[i] = from[j] => i = j) /\ (i < j => from[i] < from[j])
      <4>1. ASSUME NEW i \in 1 .. Len(cache) - 1, NEW j \in 1 .. Len(cache) - 1
            PROVE  (from[i] = from[j] => i = j) /\ (i < j => from[i] < from[j])
        <5>1. i \in Int /\ j \in Int /\ n \in Int
          BY <1>1, <2>3
        <5>2. from[i] = (IF i < n THEN i ELSE i + 1) /\ from[j] = IF j < n THEN j ELSE j + 1
          BY <3>0
        <5>. QED
          BY <5>1, <5>2
      <4>. QED
        BY <2>4, <4>1
    <3>3. \A i \in DOMAIN d : d[i] = cache[from[i]]
      BY <2>4, <3>0
    <3>. QED
      BY <3>1, <3>2, <3>3
  <2>. HIDE DEF from
  <2>6. Fits(d, after)
    <3>1. ASSUME NEW i \in DOMAIN d, NEW j \in DOMAIN d, d[i][1] = d[j][1] PROVE i = j
      <4>1. /\ from[i] \in DOMAIN cache /\ from[j] \in DOMAIN cache
            /\ d[i] = cache[from[i]] /\ d[j] = cache[from[j]]
        BY <2>5
      <4>2. from[i] = from[j]
        BY <3>1, <4>1 DEF Fits
      <4>. QED
        BY <2>5, <4>2
    <3>2. ASSUME NEW i \in DOMAIN d, NEW j \in DOMAIN d, i < j PROVE d[j][1] \in after[d[i][1]]
      <4>1. /\ from[i] \in DOMAIN cache /\ from[j] \in DOMAIN cache
            /\ d[i] = cache[from[i]] /\ d[j] = cache[from[j]]
        BY <2>5
      <4>2. from[i] < from[j]
        BY <2>5, <3>2
      <4>. QED
        BY <4>1, <4>2 DEF Fits
    <3>. QED
      BY <2>4, <3>1, <3>2 DEF Fits
  <2>7. ASSUME NEW i \in DOMAIN d PROVE d[i][1] # f
    <3>1. from[i] \in DOMAIN cache /\ from[i] # n /\ d[i] = cache[from[i]]
      BY <2>5
    <3>2. cache[from[i]][1] # cache[n][1]
      BY <2>1, <3>1 DEF Fits
    <3>. QED
      BY <2>1, <3>1, <3>2
  <2>8. ASSUME NEW k \in DOMAIN cache, cache[k][1] # f
        PROVE  \E i \in DOMAIN d : d[i] = cache[k]
    <3>1. k # n
      BY <2>1, <2>8
    <3>2. CASE k < n
      <4>1. k \in DOMAIN d
        BY <1>1, <2>3, <2>4, <3>2
      <4>. QED
        BY <2>4, <3>2, <4>1
    <3>3. CASE k > n
      <4>1. k - 1 \in 1 .. Len(cache) - 1 /\ ~(k - 1 < n) /\ k - 1 + 1 = k
        BY <1>1, <2>3, <2>8, <3>3
      <4>2. k - 1 \in DOMAIN d
        BY <2>4, <4>1
      <4>3. d[k - 1] = cache[k]
        BY <2>4, <4>1, <4>2
      <4>. QED
        BY <4>2, <4>3
    <3>. QED
      BY <1>1, <2>3, <3>1, <3>2, <3>3
  <2>. QED
    BY <1>1, <2>4, <2>6, <2>7, <2>8
<1>. QED
  BY <1>2, <1>3

\* An entry of a flow that has none comes last, and so after every other flow.
LEMMA AppendFits ==
  ASSUME NEW after, NEW later, NEW d, Fits(d, after), NEW f \in Cached, NEW v \in Nat,
         Absent(f, d), CameIn(f, after, later),
         NEW added, added = Append(d, <<f, v>>)
  PROVE  /\ Fits(added, later)
         /\ added[Len(added)] = <<f, v>>
         /\ \A i \in DOMAIN d : i \in DOMAIN added /\ added[i] = d[i]
<1>1. d \in Seq(Cached \X Nat) /\ Len(d) \in Nat /\ DOMAIN d = 1 .. Len(d)
  BY DEF Fits
<1>2. /\ added \in Seq(Cached \X Nat) /\ Len(added) = Len(d) + 1
      /\ DOMAIN added = 1 .. Len(d) + 1 /\ added[Len(d) + 1] = <<f, v>>
      /\ \A i \in 1 .. Len(d) : added[i] = d[i]
  BY <1>1, AppendProperties
<1>3. \A i \in 1 .. Len(d) : d[i][1] \in Cached /\ d[i][1] # f
  <2>1. \A i \in 1 .. Len(d) : d[i] \in Cached \X Nat
    BY <1>1, ElementOfSeq
  <2>. QED
    BY <1>1, <2>1 DEF Absent
<1>4. ASSUME NEW i \in DOMAIN added, NEW j \in DOMAIN added, added[i][1] = added[j][1] PROVE i = j
  BY <1>1, <1>2, <1>3, <1>4 DEF Fits
<1>5. ASSUME NEW i \in DOMAIN added, NEW j \in DOMAIN added, i < j
      PROVE  added[j][1] \in later[added[i][1]]
  <2>1. i \in 1 .. Len(d) /\ added[i] = d[i] /\ later[d[i][1]] = after[d[i][1]] \cup {f}
    BY <1>1, <1>2, <1>3, <1>5 DEF CameIn
  <2>2. CASE j = Len(d) + 1
    BY <1>2, <2>1, <2>2
  <2>3. CASE j # Len(d) + 1
    <3>1. i \in DOMAIN d /\ j \in DOMAIN d /\ added[j] = d[j]
      BY <1>1, <1>2, <2>1, <2>3
    <3>2. d[j][1] \in after[d[i][1]]
      BY <1>5, <3>1 DEF Fits
    <3>. QED
      BY <2>1, <3>1, <3>2
  <2>. QED
    BY <2>2, <2>3
<1>. QED
  BY <1>1, <1>2, <1>4, <1>5 DEF Fits

\* The oldest entry of a cache that is one over its limit has seen as many flows come in.
LEMMA OldestIsOld ==
  ASSUME NEW after, NEW cache, Fits(cache, after), Len(cache) = CacheLimit + 1,
         IsFiniteSet(after[cache[1][1]])
  PROVE  /\ Cardinality(after[cache[1][1]]) \in Nat
         /\ Cardinality(after[cache[1][1]]) >= CacheLimit
<1>1. CacheLimit \in Nat \ {0} /\ DOMAIN cache = 1 .. CacheLimit + 1
  BY ServicesAssumption DEF Fits
<1>. DEFINE came == [i \in 1 .. CacheLimit |-> cache[i + 1][1]]
<1>2. came \in Injection(1 .. CacheLimit, after[cache[1][1]])
  <2>1. \A i \in 1 .. CacheLimit : i + 1 \in DOMAIN cache /\ 1 \in DOMAIN cache /\ 1 < i + 1
    BY <1>1
  <2>2. \A i \in 1 .. CacheLimit : cache[i + 1][1] \in after[cache[1][1]]
    BY <2>1 DEF Fits
  <2>3. \A i, j \in 1 .. CacheLimit : cache[i + 1][1] = cache[j + 1][1] => i + 1 = j + 1
    BY <2>1 DEF Fits
  <2>4. \A i, j \in 1 .. CacheLimit : came[i] = came[j] => i = j
    BY <1>1, <2>3
  <2>5. came \in [1 .. CacheLimit -> after[cache[1][1]]]
    BY <2>2
  <2>. HIDE DEF came
  <2>. QED
    BY <2>4, <2>5 DEF Injection, IsInjective
<1>3. Cardinality(1 .. CacheLimit) <= Cardinality(after[cache[1][1]])
  BY <1>2, FS_Injection
<1>4. Cardinality(1 .. CacheLimit) = CacheLimit
  BY <1>1, FS_Interval
<1>. QED
  BY <1>1, <1>3, <1>4, FS_CardinalityType

\* Without its oldest entry the rest of a cache is as it was.
LEMMA TailFits ==
  ASSUME NEW after, NEW cache, Fits(cache, after), cache # <<>>
  PROVE  /\ Fits(Tail(cache), after) /\ Len(Tail(cache)) = Len(cache) - 1
         /\ \A i \in DOMAIN cache : i # 1 => i - 1 \in DOMAIN Tail(cache) /\ Tail(cache)[i - 1] = cache[i]
<1>1. cache \in Seq(Cached \X Nat) /\ Len(cache) \in Nat \ {0} /\ DOMAIN cache = 1 .. Len(cache)
  BY DEF Fits
<1>. DEFINE rest == Tail(cache)
<1>2. /\ rest \in Seq(Cached \X Nat) /\ Len(rest) = Len(cache) - 1
      /\ DOMAIN rest = 1 .. Len(cache) - 1 /\ \A i \in DOMAIN rest : rest[i] = cache[i + 1]
  BY <1>1
<1>3. \A i \in DOMAIN rest : i + 1 \in DOMAIN cache
  BY <1>1, <1>2
<1>. HIDE DEF rest
<1>4. Fits(rest, after)
  <2>0. DOMAIN rest \subseteq Int
    BY <1>1, <1>2
  <2>1. ASSUME NEW i \in DOMAIN rest, NEW j \in DOMAIN rest, rest[i][1] = rest[j][1] PROVE i = j
    <3>1. /\ i + 1 \in DOMAIN cache /\ j + 1 \in DOMAIN cache
          /\ rest[i] = cache[i + 1] /\ rest[j] = cache[j + 1]
      BY <1>2, <1>3
    <3>2. i + 1 = j + 1
      BY <2>1, <3>1 DEF Fits
    <3>. QED
      BY <2>0, <3>2
  <2>2. ASSUME NEW i \in DOMAIN rest, NEW j \in DOMAIN rest, i < j
        PROVE  rest[j][1] \in after[rest[i][1]]
    <3>1. /\ i + 1 \in DOMAIN cache /\ j + 1 \in DOMAIN cache
          /\ rest[i] = cache[i + 1] /\ rest[j] = cache[j + 1]
      BY <1>2, <1>3
    <3>2. i + 1 < j + 1
      BY <2>0, <2>2
    <3>. QED
      BY <3>1, <3>2 DEF Fits
  <2>. QED
    BY <1>2, <2>1, <2>2 DEF Fits
<1>5. \A i \in DOMAIN cache : i # 1 => i - 1 \in DOMAIN rest /\ i - 1 + 1 = i
  BY <1>1, <1>2, SMTT(40)
<1>6. \A i \in DOMAIN cache : i # 1 => i - 1 \in DOMAIN rest /\ rest[i - 1] = cache[i]
  BY <1>2, <1>5
<1>. QED
  BY <1>2, <1>4, <1>6 DEF rest

\* Putting a flow into the cache puts out only an entry that has seen as many others come
\* in as the cache holds.
LEMMA SetKeeps ==
  ASSUME NEW after, NEW later, NEW cache, Fits(cache, after), Len(cache) <= CacheLimit,
         NEW f \in Cached, NEW v \in Nat,
         CameIn(f, after, later), \A g \in Cached : IsFiniteSet(later[g]),
         NEW new, new = S!Set(cache, f, v)
  PROVE  /\ Fits(new, later) /\ Len(new) <= CacheLimit
         /\ \E i \in DOMAIN new : new[i] = <<f, v>>
         /\ \A k \in DOMAIN cache :
              cache[k][1] # f /\ Cardinality(later[cache[k][1]]) < CacheLimit
                => \E i \in DOMAIN new : new[i] = cache[k]
<1>d. PICK d : d = S!Delete(cache, S!Hits(cache, f))
  OBVIOUS
<1>a. PICK added : added = Append(d, <<f, v>>)
  OBVIOUS
<1>0. Fits(d, after) /\ Absent(f, d)
  BY <1>d, DeleteFits DEF Absent
<1>1. /\ Fits(d, after) /\ Len(d) <= Len(cache) /\ Absent(f, d)
      /\ \A k \in DOMAIN cache : cache[k][1] # f => \E i \in DOMAIN d : d[i] = cache[k]
  BY <1>d, DeleteFits DEF Absent
<1>2. new = IF Len(added) > CacheLimit THEN Tail(added) ELSE added
  BY <1>d, <1>a DEF S!Set, S!Added
<1>3. /\ Fits(added, later)
      /\ added[Len(added)] = <<f, v>>
      /\ \A i \in DOMAIN d : i \in DOMAIN added /\ added[i] = d[i]
  <2>1. Fits(added, later)
    BY <1>0, <1>a, AppendFits
  <2>2. added[Len(added)] = <<f, v>>
    BY <1>0, <1>a, AppendFits
  <2>3. \A i \in DOMAIN d : i \in DOMAIN added /\ added[i] = d[i]
    BY <1>0, <1>a, AppendFits
  <2>. QED
    BY <2>1, <2>2, <2>3
<1>l. Len(added) = Len(d) + 1 /\ Len(d) \in Nat
  BY <1>0, <1>a, AppendProperties DEF Fits
<1>4. CacheLimit \in Nat \ {0} /\ Len(cache) \in Nat /\ added \in Seq(Cached \X Nat)
  BY <1>3, ServicesAssumption DEF Fits
<1>5. DOMAIN added = 1 .. Len(added)
  BY <1>4
<1>6. \A k \in DOMAIN cache : cache[k][1] # f => \E i \in DOMAIN added : added[i] = cache[k]
  BY <1>1, <1>3
<1>7. CASE Len(added) <= CacheLimit
  <2>1. new = added
    BY <1>2, <1>3, <1>4, <1>7
  <2>2. Len(added) \in DOMAIN added
    BY <1>3, <1>5, <1>l
  <2>. QED
    BY <1>3, <1>6, <1>7, <2>1, <2>2
<1>8. CASE ~(Len(added) <= CacheLimit)
  <2>1. Len(added) = CacheLimit + 1 /\ new = Tail(added)
    BY <1>1, <1>2, <1>4, <1>8, <1>l
  <2>2. 1 \in DOMAIN added /\ Len(added) \in DOMAIN added /\ Len(added) # 1
    BY <1>4, <1>5, <2>1
  <2>3. added # <<>>
    BY <1>4, <2>1
  <2>4. /\ Fits(new, later) /\ Len(new) = Len(added) - 1
        /\ \A i \in DOMAIN added : i # 1 => i - 1 \in DOMAIN new /\ new[i - 1] = added[i]
    BY <1>3, <2>1, <2>3, TailFits
  <2>5. Len(new) <= CacheLimit
    BY <1>4, <2>1, <2>4
  <2>6. \E i \in DOMAIN new : new[i] = <<f, v>>
    BY <1>3, <2>2, <2>4
  <2>7. added[1][1] \in Cached
    BY <1>4, <2>2
  <2>8. Cardinality(later[added[1][1]]) \in Nat /\ Cardinality(later[added[1][1]]) >= CacheLimit
    BY <1>3, <2>1, <2>7, OldestIsOld
  <2>9. ASSUME NEW k \in DOMAIN cache, cache[k][1] # f,
               Cardinality(later[cache[k][1]]) < CacheLimit
        PROVE  \E i \in DOMAIN new : new[i] = cache[k]
    <3>1. PICK i \in DOMAIN added : added[i] = cache[k]
      BY <1>6, <2>9
    <3>2. i # 1
      BY <1>4, <2>8, <2>9, <3>1
    <3>. QED
      BY <2>4, <3>1, <3>2
  <2>. QED
    BY <2>4, <2>5, <2>6, <2>9
<1>. QED
  BY <1>7, <1>8

LEMMA ProviderInit == ServicesInit => ProviderInv
<1>. SUFFICES ASSUME ServicesInit PROVE ProviderInv
  OBVIOUS
<1>1. /\ version = [f \in Cached |-> 1] /\ selves = <<>>
      /\ last = [f \in Cached |-> None] /\ since = [f \in Cached |-> {}]
  BY DEF ServicesInit, S!Init
<1>2. \A f \in Cached : IsFiniteSet(since[f])
  BY <1>1, FS_EmptySet
<1>3. Fits(selves, since)
  BY <1>1 DEF Fits
<1>4. Len(selves) <= CacheLimit
  BY <1>1, ServicesAssumption
<1>. QED
  BY <1>1, <1>2, <1>3, <1>4 DEF ProviderInv, Recent

\* What a step that resolves a flow's configuration keeps, whatever version it takes.
LEMMA ConfiguredKeeps ==
  ASSUME ProviderInv, NEW f \in Cached, NEW v \in Nat, S!Configured(f, v),
         DOMAIN since' = Cached, IsFiniteSet(since'[f]),
         \A g \in Cached : g # f => since'[g] = since[g] \cup {f} /\ last'[g] = last[g]
  PROVE  /\ \A g \in Cached : IsFiniteSet(since'[g])
         /\ Fits(selves', since') /\ Len(selves') <= CacheLimit
         /\ \E i \in DOMAIN selves' : selves'[i] = <<f, v>>
         /\ \A g \in Cached : g # f => Recent(g)'
<1>1. ASSUME NEW g \in Cached PROVE IsFiniteSet(since'[g])
  <2>1. IsFiniteSet(since[g] \cup {f})
    BY FS_AddElement DEF ProviderInv
  <2>. QED
    BY <2>1
<1>2. selves' = S!Set(selves, f, v)
  BY DEF S!Configured
<1>3. /\ Fits(selves', since') /\ Len(selves') <= CacheLimit
      /\ \E i \in DOMAIN selves' : selves'[i] = <<f, v>>
      /\ \A k \in DOMAIN selves :
           selves[k][1] # f /\ Cardinality(since'[selves[k][1]]) < CacheLimit
             => \E i \in DOMAIN selves' : selves'[i] = selves[k]
  BY <1>1, <1>2, SetKeeps DEF ProviderInv, CameIn
<1>4. ASSUME NEW g \in Cached, g # f PROVE Recent(g)'
  <2>. SUFFICES ASSUME last'[g] # None, Cardinality(since'[g]) < CacheLimit
                PROVE  \E i \in DOMAIN selves' : selves'[i] = <<g, last'[g]>>
    BY DEF Recent
  <2>1. Cardinality(since[g]) < CacheLimit
    <3>1. since[g] \subseteq since'[g] /\ IsFiniteSet(since'[g])
      BY <1>1, <1>4
    <3>2. /\ Cardinality(since[g]) \in Nat /\ Cardinality(since'[g]) \in Nat
          /\ Cardinality(since[g]) <= Cardinality(since'[g])
      BY <3>1, FS_Subset, FS_CardinalityType
    <3>. QED
      BY <3>2, ServicesAssumption
  <2>2. PICK k \in DOMAIN selves : selves[k] = <<g, last[g]>>
    BY <1>4, <2>1 DEF ProviderInv, Recent
  <2>. QED
    BY <1>3, <1>4, <2>2
<1>. QED
  BY <1>1, <1>3, <1>4

LEMMA ProviderStep == ProviderInv /\ S!Next => ProviderInv'
<1>. SUFFICES ASSUME ProviderInv, S!Next PROVE ProviderInv'
  OBVIOUS
<1>1. CASE \E f \in Cached : S!Published(f)
  BY <1>1 DEF S!Published, ProviderInv, Recent
<1>2. ASSUME NEW f \in Cached, S!Load(f) PROVE ProviderInv'
  <2>1. PICK v \in 1 .. version[f] :
          /\ S!Configured(f, v) /\ last' = [last EXCEPT ![f] = v]
          /\ since' = [S!Since(f) EXCEPT ![f] = {}] /\ version' = version
    BY <1>2 DEF S!Load
  <2>2. v \in Nat
    BY <2>1 DEF ProviderInv
  <2>3. /\ DOMAIN since' = Cached /\ since'[f] = {} /\ DOMAIN last' = Cached /\ last'[f] = v
        /\ \A g \in Cached : g # f => since'[g] = since[g] \cup {f} /\ last'[g] = last[g]
    BY <2>1 DEF S!Since, ProviderInv
  <2>4. /\ \A g \in Cached : IsFiniteSet(since'[g])
        /\ Fits(selves', since') /\ Len(selves') <= CacheLimit
        /\ \E i \in DOMAIN selves' : selves'[i] = <<f, v>>
        /\ \A g \in Cached : g # f => Recent(g)'
    BY <2>1, <2>2, <2>3, FS_EmptySet, ConfiguredKeeps
  <2>5. Recent(f)'
    BY <2>3, <2>4 DEF Recent
  <2>. QED
    BY <2>1, <2>3, <2>4, <2>5 DEF ProviderInv
<1>3. ASSUME NEW f \in Cached, S!ResolveFlow(f) PROVE ProviderInv'
  <2>1. CASE UNCHANGED <<version, selves, since, last>>
    BY <2>1 DEF ProviderInv, Recent
  <2>2. CASE /\ S!Hits(selves, f) = {} /\ S!Configured(f, version[f])
             /\ since' = S!Since(f) /\ UNCHANGED <<version, last>>
    <3>1. version[f] \in Nat
      BY DEF ProviderInv
    <3>2. /\ DOMAIN since' = Cached /\ since'[f] = since[f]
          /\ \A g \in Cached : g # f => since'[g] = since[g] \cup {f} /\ last'[g] = last[g]
      BY <2>2 DEF S!Since, ProviderInv
    <3>3. IsFiniteSet(since'[f])
      BY <3>2 DEF ProviderInv
    <3>4. /\ \A g \in Cached : IsFiniteSet(since'[g])
          /\ Fits(selves', since') /\ Len(selves') <= CacheLimit
          /\ \A g \in Cached : g # f => Recent(g)'
      BY <2>2, <3>1, <3>2, <3>3, ConfiguredKeeps
    <3>5. Recent(f)'
      <4>1. ~ \E i \in DOMAIN selves : selves[i] = <<f, last[f]>>
        BY <2>2 DEF S!Hits
      <4>. QED
        BY <2>2, <3>2, <4>1 DEF ProviderInv, Recent
    <3>. QED
      BY <2>2, <3>2, <3>4, <3>5 DEF ProviderInv
  <2>. QED
    BY <1>3, <2>1, <2>2 DEF S!ResolveFlow
<1>4. CASE S!ResolvePrompt
  BY <1>4 DEF S!ResolvePrompt, ProviderInv, Recent
<1>. QED
  BY <1>1, <1>2, <1>3, <1>4 DEF S!Next

LEMMA ProviderAlways == ServicesSpec => []ProviderInv
<1>1. ProviderInv /\ [ServicesNext]_services => ProviderInv'
  <2>. SUFFICES ASSUME ProviderInv, [ServicesNext]_services PROVE ProviderInv'
    OBVIOUS
  <2>1. CASE S!Next
    BY <2>1, ProviderStep
  <2>2. CASE UNCHANGED provider
    BY <2>2 DEF provider, ProviderInv, Recent
  <2>. QED
    BY <2>1, <2>2 DEF ServicesNext, services
<1>. QED
  BY ProviderInit, <1>1, PTL DEF ServicesSpec

\* As long as fewer other flows than the cache holds were configured since a flow was
\* loaded, #resolveFlowRef answers with the references of the version that was loaded,
\* whatever was published in between and however large the cache and the tenant are.
THEOREM ReferencesAreOfTheLoaded == ServicesSpec => ReferencesOfTheLoaded
<1>1. ProviderInv /\ [ServicesNext]_services =>
        [\A f \in Cached :
           S!ResolveFlow(f) /\ last[f] # None /\ S!Cardinality(since[f]) < CacheLimit
             => answer'.version = last[f]]_(S!vars)
  <2>. SUFFICES ASSUME ProviderInv, NEW f \in Cached, S!ResolveFlow(f), last[f] # None,
                       S!Cardinality(since[f]) < CacheLimit
                PROVE  answer'.version = last[f]
    OBVIOUS
  <2>1. PICK i \in DOMAIN selves : selves[i] = <<f, last[f]>>
    BY ProviderCardinality DEF ProviderInv, Recent
  <2>2. i \in S!Hits(selves, f)
    BY <2>1 DEF S!Hits
  <2>3. PICK j \in S!Hits(selves, f) : answer' = [flow |-> f, version |-> selves[j][2]]
    BY <2>2 DEF S!ResolveFlow
  <2>4. j = i
    BY <2>1, <2>2, <2>3 DEF S!Hits, ProviderInv, Fits
  <2>. QED
    BY <2>1, <2>3, <2>4
<1>. QED
  BY ProviderAlways, <1>1, PTL DEF ServicesSpec, ReferencesOfTheLoaded, S!ReferencesOfTheLoaded

-----------------------------------------------------------------------------
(* The paged reads *)

\* The flows of k pages, and the rows of a table that are captured.
Cut(k) == IF k * PageSize < Len(tenant) THEN k * PageSize ELSE Len(tenant)
Captured == IF table < MaxRows THEN table ELSE MaxRows

\* A service that sends the page it is asked for: what was yielded is as long a part
\* of the list as the pages are, the last page began at its first flow, and a listing
\* that is over has reached the end.
ReadSoFar ==
  /\ listing.yielded = SubSeq(tenant, 1, Cut(listing.pages))
  /\ listing.pages > 0 =>
       /\ (listing.pages - 1) * PageSize < Len(tenant)
       /\ listing.signature[2] = tenant[(listing.pages - 1) * PageSize + 1]
       /\ ~listing.on => Len(tenant) <= listing.pages * PageSize

\* A service that always sends the first page: it was yielded once.
ReadOnce ==
  /\ listing.pages <= 1
  /\ listing.pages = 1 => /\ listing.yielded = L!PageAt(1) /\ listing.yielded # <<>>
                          /\ listing.signature = L!Signature(L!PageAt(1))

ListInv ==
  /\ server \in {"counts", "silent", "stuck", "cycles"}
  /\ tenant \in Seq(Flows) /\ IsInjective(tenant)
  /\ listing \in [on : BOOLEAN, page : Nat, signature : {None} \cup (Nat \X Flows \X Flows),
                  pages : Nat, yielded : Seq(Flows)]
  /\ listing.page = listing.pages + 1
  /\ listing.pages = 0 => listing.signature = None /\ listing.yielded = <<>>
  /\ undisturbed => (L!Honest => ReadSoFar) /\ (server = "stuck" => ReadOnce)
  /\ table \in Nat
  /\ rows # None => rows = Captured

LEMMA Least ==
  ASSUME NEW T, T \subseteq Nat, T # {} PROVE \E x \in T : \A y \in T : x <= y
<1>. DEFINE R == OpToRel(<, Nat)
<1>1. IsWellFoundedOn(R, Nat)
  BY NatLessThanWellFounded
<1>2. \A y, x \in Nat : y < x => <<y, x>> \in R
  BY DEF OpToRel
<1>. HIDE DEF R
<1>3. PICK x \in T : \A y \in T : ~(<<y, x>> \in R)
  BY <1>1, WFMin
<1>4. \A y \in T : ~(y < x)
  BY <1>2, <1>3
<1>5. \A y \in T : x <= y
  BY <1>4
<1>. QED
  BY <1>5

LEMMA OnePage ==
  ASSUME NEW k \in Nat
  PROVE  /\ k * PageSize \in Nat /\ (k + 1) * PageSize = k * PageSize + PageSize
         /\ k <= k * PageSize /\ PageSize \in Nat \ {0}
<1>1. PageSize \in Nat \ {0}
  BY ServicesAssumption
<1>2. \A p \in Nat \ {0} : k * p \in Nat /\ (k + 1) * p = k * p + p
  OBVIOUS
<1>3. \A p \in Nat \ {0} : k <= k * p
  OBVIOUS
<1>. QED
  BY <1>1, <1>2, <1>3

\* A page count that was reached is enough pages for all entities.
LEMMA Divided ==
  ASSUME NEW a \in Nat, NEW p \in Nat \ {0}, NEW n \in Nat, n >= (a + p - 1) \div p
  PROVE  a <= n * p
<1>. DEFINE q == (a + p - 1) \div p
<1>1. q \in Int /\ q * p <= a + p - 1 /\ a + p - 1 < q * p + p
  OBVIOUS
<1>2. a <= q * p
  BY <1>1
<1>3. q * p <= n * p
  BY <1>1
<1>. QED
  BY <1>1, <1>2, <1>3

LEMMA RowsAreCaptured == ASSUME table \in Nat PROVE L!Rows[1] = Captured
<1>. DEFINE Body(f, n) ==
       IF L!Brought(n) >= MaxRows THEN MaxRows
       ELSE IF L!ShortPage(n) \/ (server = "counts" /\ n * PageSize >= table) THEN L!Brought(n)
       ELSE f[n + 1]
<1>. DEFINE F == [n \in Nat |-> Captured]
<1>1. MaxRows \in Nat /\ PageSize \in Nat \ {0} /\ \A n \in Nat : n * PageSize \in Nat
  BY ServicesAssumption, OnePage
<1>2. ASSUME NEW f, NEW n \in Nat, f[n + 1] = Captured PROVE Body(f, n) = Captured
  <2>. DEFINE m == n * PageSize
  <2>1. m \in Nat
    BY <1>1
  <2>2. L!Brought(n) = IF m < table THEN m ELSE table
    BY DEF L!Brought
  <2>3. L!ShortPage(n) <=> m > table
    BY DEF L!ShortPage
  <2>. HIDE DEF m
  <2>4. Body(f, n) = IF L!Brought(n) >= MaxRows THEN MaxRows
                     ELSE IF L!ShortPage(n) \/ (server = "counts" /\ m >= table) THEN L!Brought(n)
                     ELSE Captured
    BY <1>2 DEF m
  <2>. QED
    BY <1>1, <2>1, <2>2, <2>3, <2>4 DEF Captured
<1>3. F = [n \in Nat |-> Body(F, n)]
  <2>1. \A n \in Nat : F[n + 1] = Captured
    OBVIOUS
  <2>2. \A n \in Nat : Body(F, n) = Captured
    <3>. HIDE DEF F, Body
    <3>. QED
      BY <1>2, <2>1
  <2>. HIDE DEF Body
  <2>. QED
    BY <2>2
<1>4. L!Rows = [n \in Nat |-> Body(L!Rows, n)]
  <2>. HIDE DEF F
  <2>1. L!Rows = CHOOSE f : f = [n \in Nat |-> Body(f, n)]
    BY DEF L!Rows
  <2>. HIDE DEF Body
  <2>. QED
    BY <1>3, <2>1
<1>5. ASSUME NEW n \in Nat, L!Rows[n] # Captured
      PROVE  n <= table /\ L!Rows[n + 1] # Captured
  <2>1. L!Rows[n] = Body(L!Rows, n)
    <3>. HIDE DEF Body
    <3>. QED
      BY <1>4
  <2>2. L!Rows[n + 1] # Captured
    <3>. HIDE DEF Body
    <3>. QED
      BY <1>2, <1>5, <2>1
  <2>3. ~(n * PageSize > table)
    <3>. SUFFICES ASSUME n * PageSize > table PROVE FALSE
      OBVIOUS
    <3>. DEFINE m == n * PageSize
    <3>1. L!Brought(n) = IF m < table THEN m ELSE table
      BY DEF L!Brought
    <3>2. m > table /\ m \in Nat /\ L!ShortPage(n)
      BY <1>1 DEF L!ShortPage
    <3>. HIDE DEF m
    <3>3. Body(L!Rows, n) = IF L!Brought(n) >= MaxRows THEN MaxRows ELSE L!Brought(n)
      BY <3>2
    <3>. HIDE DEF Body
    <3>. QED
      BY <1>1, <1>5, <2>1, <3>1, <3>2, <3>3 DEF Captured
  <2>4. n <= n * PageSize /\ n * PageSize \in Nat
    BY OnePage
  <2>. QED
    BY <2>2, <2>3, <2>4
<1>. HIDE DEF F, Body
<1>. DEFINE T == {i \in Nat : \E n \in Nat : n + i = table + 1 /\ L!Rows[n] # Captured}
<1>6. SUFFICES ASSUME L!Rows[1] # Captured PROVE FALSE
  OBVIOUS
<1>7. table \in T
  BY <1>6
<1>8. PICK i \in T : \A j \in T : i <= j
  <2>. T \subseteq Nat /\ T # {}
    BY <1>7
  <2>. HIDE DEF T
  <2>. QED
    BY Least
<1>9. PICK n \in Nat : n + i = table + 1 /\ L!Rows[n] # Captured
  BY <1>8
<1>10. i - 1 \in T
  <2>1. n <= table /\ L!Rows[n + 1] # Captured
    BY <1>5, <1>9
  <2>2. i - 1 \in Nat /\ (n + 1) + (i - 1) = table + 1 /\ n + 1 \in Nat
    BY <1>9, <2>1
  <2>. QED
    BY <2>1, <2>2
<1>. QED
  BY <1>8, <1>10

LEMMA ListingInit == ServicesInit => ListInv
<1>. SUFFICES ASSUME ServicesInit PROVE ListInv
  OBVIOUS
<1>1. L!Init
  BY DEF ServicesInit
<1>2. PICK fs \in SUBSET Flows : tenant = L!SetToSeq(fs)
  BY <1>1 DEF L!Init
<1>3. IsFiniteSet(fs)
  BY ServicesAssumption, FS_Subset
<1>. DEFINE n == Cardinality(fs)
<1>4. L!Cardinality(fs) = n
  BY DEF L!Cardinality, Cardinality
<1>5. \E f \in [1..n -> fs] : IsInjective(f)
  BY <1>3, FS_CardinalityType DEF IsInjective, ExistsBijection, Bijection, Injection
<1>6. \A f : L!IsInjective(f) <=> IsInjective(f)
  BY DEF L!IsInjective, IsInjective
<1>7. n \in Nat
  BY <1>3, FS_CardinalityType
<1>8. tenant = CHOOSE f \in [1..n -> fs] : L!IsInjective(f)
  <2>. HIDE DEF n
  <2>. QED
    BY <1>2, <1>4 DEF L!SetToSeq
<1>. HIDE DEF n
<1>9. \E f \in [1..n -> fs] : L!IsInjective(f)
  BY <1>5, <1>6
<1>10. tenant \in [1..n -> fs] /\ L!IsInjective(tenant)
  BY <1>8, <1>9, Zenon
<1>11. tenant \in Seq(Flows) /\ IsInjective(tenant)
  BY <1>6, <1>7, <1>10
<1>12. table \in Nat
  BY <1>1, ServicesAssumption DEF L!Init
<1>13. ReadSoFar /\ ReadOnce
  <2>1. listing.pages = 0 /\ listing.yielded = <<>>
    BY <1>1 DEF L!Init, L!Idle
  <2>2. Cut(0) = 0
    BY <1>11, ServicesAssumption DEF Cut
  <2>. QED
    BY <2>1, <2>2, <1>11, SubSeqEmpty DEF ReadSoFar, ReadOnce
<1>. QED
  BY <1>1, <1>11, <1>12, <1>13 DEF L!Init, L!Idle, ListInv

LEMMA Distinct ==
  ASSUME NEW s \in Seq(Flows), IsInjective(s), NEW i \in DOMAIN s
  PROVE  L!RemoveAt(s, i) \in Seq(Flows) /\ IsInjective(L!RemoveAt(s, i))
<1>. DEFINE t == L!RemoveAt(s, i)
<1>1. i \in 1..Len(s) /\ Len(s) \in Nat
  OBVIOUS
<1>2. /\ SubSeq(s, 1, i - 1) \in Seq(Flows) /\ Len(SubSeq(s, 1, i - 1)) = i - 1
      /\ \A j \in 1..(i - 1) : SubSeq(s, 1, i - 1)[j] = s[j]
  BY <1>1
<1>3. /\ SubSeq(s, i + 1, Len(s)) \in Seq(Flows) /\ Len(SubSeq(s, i + 1, Len(s))) = Len(s) - i
      /\ \A j \in 1..(Len(s) - i) : SubSeq(s, i + 1, Len(s))[j] = s[j + i]
  BY <1>1
<1>4. t = SubSeq(s, 1, i - 1) \o SubSeq(s, i + 1, Len(s))
  BY DEF L!RemoveAt
<1>. HIDE DEF t
<1>. DEFINE u == SubSeq(s, 1, i - 1)
            v == SubSeq(s, i + 1, Len(s))
<1>. HIDE DEF u, v
<1>5. /\ t \in Seq(Flows) /\ Len(t) = Len(s) - 1
      /\ \A j \in 1..(Len(s) - 1) : t[j] = IF j <= i - 1 THEN u[j] ELSE v[j - (i - 1)]
  <2>1. u \in Seq(Flows) /\ Len(u) = i - 1 /\ v \in Seq(Flows) /\ Len(v) = Len(s) - i
    BY <1>2, <1>3 DEF u, v
  <2>2. t = u \o v
    BY <1>4 DEF u, v
  <2>3. /\ t \in Seq(Flows) /\ Len(t) = Len(u) + Len(v)
        /\ \A j \in 1..(Len(u) + Len(v)) : t[j] = IF j <= Len(u) THEN u[j] ELSE v[j - Len(u)]
    BY <2>1, <2>2, ConcatProperties
  <2>4. Len(u) + Len(v) = Len(s) - 1
    BY <1>1, <2>1
  <2>. QED
    BY <2>1, <2>3, <2>4
<1>6. ASSUME NEW j \in 1..(Len(s) - 1) PROVE t[j] = s[IF j < i THEN j ELSE j + 1]
  <2>1. CASE j < i
    <3>1. j \in 1..(i - 1) /\ j <= i - 1
      BY <1>1, <2>1
    <3>2. t[j] = u[j]
      BY <1>5, <3>1
    <3>3. u[j] = s[j]
      BY <1>2, <3>1 DEF u
    <3>. QED
      BY <2>1, <3>2, <3>3
  <2>2. CASE ~(j < i)
    <3>1. j - (i - 1) \in 1..(Len(s) - i) /\ ~(j <= i - 1)
      BY <1>1, <2>2
    <3>2. t[j] = v[j - (i - 1)]
      BY <1>5, <3>1
    <3>3. v[j - (i - 1)] = s[(j - (i - 1)) + i]
      BY <1>3, <3>1 DEF v
    <3>4. (j - (i - 1)) + i = j + 1
      BY <1>1
    <3>. QED
      BY <2>2, <3>2, <3>3, <3>4
  <2>. QED
    BY <2>1, <2>2
<1>7. DOMAIN t = 1..(Len(s) - 1) /\ DOMAIN s = 1..Len(s)
  BY <1>5
<1>8. ASSUME NEW j \in 1..(Len(s) - 1), NEW k \in 1..(Len(s) - 1), t[j] = t[k] PROVE j = k
  BY <1>1, <1>6, <1>7, <1>8 DEF IsInjective
<1>9. IsInjective(t)
  BY <1>7, <1>8 DEF IsInjective
<1>. QED
  BY <1>5, <1>9 DEF t

LEMMA TenantChanges ==
  ASSUME ListInv, NEW to \in Seq(Flows), IsInjective(to), L!Changed(to) PROVE ListInv'
<1>1. /\ tenant' = to /\ undisturbed' = FALSE
      /\ UNCHANGED <<server, listing, table, rows>>
  BY DEF L!Changed
<1>2. Captured' = Captured
  BY <1>1 DEF Captured
<1>. QED
  BY <1>1, <1>2 DEF ListInv

LEMMA CreatedKeeps == ASSUME ListInv, NEW f \in Flows, L!Created(f) PROVE ListInv'
<1>1. f \notin {tenant[i] : i \in DOMAIN tenant} /\ L!Changed(Append(tenant, f))
  BY DEF L!Created, L!ToSet
<1>2. tenant \in Seq(Flows) /\ IsInjective(tenant)
  BY DEF ListInv
<1>3. Append(tenant, f) \in Seq(Flows) /\ IsInjective(Append(tenant, f))
  BY <1>1, <1>2 DEF IsInjective
<1>. QED
  BY <1>1, <1>3, TenantChanges

LEMMA DeletedKeeps == ASSUME ListInv, NEW i \in DOMAIN tenant, L!Deleted(i) PROVE ListInv'
<1>1. tenant \in Seq(Flows) /\ IsInjective(tenant)
  BY DEF ListInv
<1>. QED
  BY <1>1, Distinct, TenantChanges DEF L!Deleted

LEMMA StartListingKeeps == ASSUME ListInv, L!StartListing PROVE ListInv'
<1>1. /\ listing' = [on |-> TRUE, page |-> 1, signature |-> None, pages |-> 0, yielded |-> <<>>]
      /\ UNCHANGED <<server, tenant, table, rows>>
  BY DEF L!StartListing, L!Idle
<1>2. Captured' = Captured
  BY <1>1 DEF Captured
<1>3. ReadSoFar' /\ ReadOnce'
  <2>1. tenant' \in Seq(Flows) /\ PageSize \in Nat
    BY <1>1, ServicesAssumption DEF ListInv
  <2>2. Cut(0)' = 0
    BY <2>1 DEF Cut
  <2>. QED
    BY <1>1, <2>1, <2>2, SubSeqEmpty DEF ReadSoFar, ReadOnce
<1>4. <<>> \in Seq(Flows)
  OBVIOUS
<1>. QED
  BY <1>1, <1>2, <1>3, <1>4 DEF ListInv

LEMMA ResolveTableKeeps == ASSUME ListInv, L!ResolveTable PROVE ListInv'
<1>1. rows' = Captured /\ UNCHANGED <<server, tenant, listing, undisturbed, table>>
  BY RowsAreCaptured DEF L!ResolveTable, ListInv
<1>2. Captured' = Captured
  BY <1>1 DEF Captured
<1>3. ReadSoFar' = ReadSoFar
  BY <1>1 DEF ReadSoFar, Cut
<1>4. ReadOnce' = ReadOnce
  BY <1>1 DEF ReadOnce, L!PageAt, L!Honest
<1>5. L!Honest' = L!Honest
  BY <1>1 DEF L!Honest
<1>. QED
  BY <1>1, <1>2, <1>3, <1>4, <1>5 DEF ListInv

\* Page k + 1 of a service that sends what it is asked for.
LEMMA HonestPage ==
  ASSUME ListInv, L!Honest, NEW k \in Nat
  PROVE  L!PageAt(k + 1) = SubSeq(tenant, k * PageSize + 1, Cut(k + 1))
<1>1. (k + 1) - 1 = k /\ (k + 1) * PageSize = k * PageSize + PageSize
  BY OnePage
<1>. DEFINE page == CASE L!Honest -> (k + 1) - 1 [] server = "stuck" -> 0
                      [] server = "cycles" -> ((k + 1) - 1) % 2
<1>2. page = k
  BY <1>1 DEF ListInv, L!Honest
<1>3. L!PageAt(k + 1) =
        SubSeq(tenant, page * PageSize + 1,
               IF page * PageSize + PageSize < Len(tenant) THEN page * PageSize + PageSize
               ELSE Len(tenant))
  BY DEF L!PageAt
<1>. QED
  BY <1>1, <1>2, <1>3 DEF Cut

\* What a page of flows is known by.
LEMMA SignatureOf ==
  ASSUME NEW e \in Seq(Flows), e # <<>>
  PROVE  /\ L!Signature(e) \in Nat \X Flows \X Flows /\ L!Signature(e)[2] = e[1]
         /\ L!Signature(e) # None
<1>1. Len(e) \in Nat /\ Len(e) \in DOMAIN e /\ Head(e) = e[1] /\ e[1] \in Flows
  BY EmptySeq
<1>2. e[Len(e)] \in Flows
  BY <1>1
<1>3. L!Signature(e) = <<Len(e), e[1], e[Len(e)]>>
  BY <1>1 DEF L!Signature
<1>4. L!Signature(e) \in Nat \X Flows \X Flows
  BY <1>1, <1>2, <1>3
<1>. QED
  BY <1>3, <1>4, ServicesAssumption

\* Pages of the service's list are of its flows.
LEMMA PageOfTenant ==
  ASSUME ListInv, NEW k \in Nat, L!Honest \/ server = "stuck" \/ server = "cycles"
  PROVE  L!PageAt(k + 1) \in Seq(Flows)
<1>1. PICK from \in Nat : L!PageAt(k + 1) =
        SubSeq(tenant, from + 1, IF from + PageSize < Len(tenant) THEN from + PageSize ELSE Len(tenant))
  <2>. DEFINE page == CASE L!Honest -> (k + 1) - 1 [] server = "stuck" -> 0
                        [] server = "cycles" -> ((k + 1) - 1) % 2
  <2>1. page \in Nat
    BY DEF ListInv, L!Honest
  <2>. HIDE DEF page
  <2>2. page * PageSize \in Nat
    BY <2>1, OnePage
  <2>. QED
    BY <2>2 DEF L!PageAt, page
<1>2. tenant \in Seq(Flows) /\ PageSize \in Nat /\ Len(tenant) \in Nat
  BY ServicesAssumption DEF ListInv
<1>. DEFINE to == IF from + PageSize < Len(tenant) THEN from + PageSize ELSE Len(tenant)
<1>3. to \in Int /\ to <= Len(tenant)
  BY <1>2
<1>. DEFINE first == from + 1
<1>4. first \in Int /\ \A i \in first..to : tenant[i] \in Flows
  BY <1>2, <1>3
<1>5. L!PageAt(k + 1) = SubSeq(tenant, first, to)
  BY <1>1
<1>. HIDE DEF first, to
<1>6. SubSeq(tenant, first, to) \in Seq(Flows)
  BY <1>3, <1>4, SubSeqProperties
<1>. QED
  BY <1>5, <1>6

\* The limit of pages covers the tenant.
LEMMA EnoughPages ==
  ASSUME Cardinality(Flows) <= MaxPages * PageSize, ListInv, NEW k \in Nat, MaxPages <= k
  PROVE  Len(tenant) <= k * PageSize
<1>. DEFINE n == Len(tenant)
<1>1. tenant \in [1..n -> Flows] /\ IsInjective(tenant) /\ n \in Nat
  BY DEF ListInv
<1>2. tenant \in Injection(1..n, Flows)
  BY <1>1 DEF Injection
<1>3. IsFiniteSet(Flows) /\ MaxPages \in Nat /\ PageSize \in Nat
  BY ServicesAssumption
<1>. HIDE DEF n
<1>4. Cardinality(1..n) = n
  BY <1>1, FS_Interval
<1>5. n <= Cardinality(Flows) /\ Cardinality(Flows) \in Nat
  BY <1>1, <1>2, <1>3, <1>4, FS_Injection, FS_CardinalityType
<1>6. \A a, b, p \in Nat : a <= b => a * p <= b * p
  OBVIOUS
<1>7. MaxPages * PageSize <= k * PageSize
  BY <1>3, <1>6
<1>8. MaxPages * PageSize \in Nat /\ k * PageSize \in Nat
  BY <1>3, OnePage
<1>. QED
  BY <1>5, <1>7, <1>8 DEF n

\* The listing is over: an honest service has sent all, another one its first page.
LEMMA PageStops ==
  ASSUME ListInv, NEW e, e = L!PageAt(listing.page), e = <<>> \/ L!Stalled(e),
         listing' = [listing EXCEPT !.on = FALSE], UNCHANGED <<server, tenant, undisturbed, table, rows>>
  PROVE  ListInv'
<1>. DEFINE k == listing.pages
<1>1. listing.page = k + 1 /\ k \in Nat /\ tenant \in Seq(Flows) /\ IsInjective(tenant)
  BY DEF ListInv
<1>2. /\ listing'.on = FALSE /\ listing'.pages = k /\ listing'.page = k + 1
      /\ listing'.signature = listing.signature /\ listing'.yielded = listing.yielded
  BY <1>1 DEF ListInv
<1>. HIDE DEF k
<1>3. Captured' = Captured /\ L!Honest' = L!Honest /\ L!PageAt(1)' = L!PageAt(1)
  BY DEF Captured, L!Honest, L!PageAt
<1>4. \A i \in Nat : Cut(i)' = Cut(i)
  BY DEF Cut
<1>5. ASSUME L!Honest, ReadSoFar, k > 0 PROVE Len(tenant) <= k * PageSize
  <2>. SUFFICES ASSUME ~(Len(tenant) <= k * PageSize) PROVE FALSE
    OBVIOUS
  <2>1. e = SubSeq(tenant, k * PageSize + 1, Cut(k + 1))
    BY <1>1, <1>5, HonestPage
  <2>2. /\ k * PageSize + 1 \in 1..Len(tenant) /\ Cut(k + 1) \in (k * PageSize + 1)..Len(tenant)
        /\ (k - 1) * PageSize \in Nat /\ (k - 1) * PageSize + PageSize = k * PageSize /\ PageSize > 0
    <3>1. k - 1 \in Nat /\ (k - 1) + 1 = k
      BY <1>1, <1>5
    <3>2. /\ k * PageSize \in Nat /\ (k + 1) * PageSize = k * PageSize + PageSize
          /\ PageSize \in Nat \ {0} /\ (k - 1) * PageSize \in Nat
          /\ (k - 1) * PageSize + PageSize = k * PageSize
      BY <1>1, <3>1, OnePage
    <3>. QED
      BY <1>1, <3>2, SMTT(40) DEF Cut
  <2>3. e \in Seq(Flows) /\ e # <<>> /\ e[1] = tenant[k * PageSize + 1]
    <3>1. /\ e \in Seq(Flows) /\ Len(e) = Cut(k + 1) - (k * PageSize + 1) + 1
          /\ \A i \in 1..(Cut(k + 1) - (k * PageSize + 1) + 1) : e[i] = tenant[(k * PageSize + 1) + i - 1]
      <4>1. \A i \in (k * PageSize + 1)..Cut(k + 1) : tenant[i] \in Flows
        BY <1>1, <2>2
      <4>. QED
        BY <2>1, <2>2, <4>1, SubSeqProperties
    <3>. QED
      BY <2>2, <3>1
  <2>4. L!Signature(e) = listing.signature
    BY <2>3 DEF L!Stalled
  <2>5. listing.signature[2] = tenant[(k - 1) * PageSize + 1]
    BY <1>5 DEF ReadSoFar, k
  <2>6. tenant[k * PageSize + 1] = tenant[(k - 1) * PageSize + 1]
    BY <2>3, <2>4, <2>5, SignatureOf
  <2>7. /\ k * PageSize + 1 \in DOMAIN tenant /\ (k - 1) * PageSize + 1 \in DOMAIN tenant
        /\ k * PageSize + 1 # (k - 1) * PageSize + 1
    <3>. DEFINE a == k * PageSize
                b == (k - 1) * PageSize
    <3>1. a + 1 \in 1..Len(tenant) /\ b \in Nat /\ b + PageSize = a /\ PageSize > 0
      BY <2>2
    <3>2. PageSize \in Nat /\ DOMAIN tenant = 1..Len(tenant) /\ Len(tenant) \in Nat
      BY <1>1, ServicesAssumption
    <3>. HIDE DEF a, b
    <3>3. a + 1 \in DOMAIN tenant /\ b + 1 \in DOMAIN tenant /\ a + 1 # b + 1
      BY <3>1, <3>2
    <3>. QED
      BY <3>3 DEF a, b
  <2>. QED
    BY <1>1, <2>6, <2>7 DEF IsInjective
<1>6. L!Honest /\ ReadSoFar => ReadSoFar'
  <2>1. SUFFICES ASSUME L!Honest, ReadSoFar PROVE ReadSoFar'
    OBVIOUS
  <2>2. listing'.pages = listing.pages /\ listing.pages = k
    BY <1>2 DEF k
  <2>3. Cut(listing.pages)' = Cut(listing.pages)
    BY <1>1, <1>4, <2>2
  <2>. QED
    BY <1>2, <1>5, <2>1, <2>2, <2>3 DEF ReadSoFar
<1>7. ReadOnce => ReadOnce'
  BY <1>2, <1>3 DEF ReadOnce, k
<1>8. /\ listing' \in [on : BOOLEAN, page : Nat, signature : {None} \cup (Nat \X Flows \X Flows),
                       pages : Nat, yielded : Seq(Flows)]
      /\ listing'.page = listing'.pages + 1
      /\ listing'.pages = 0 => listing'.signature = None /\ listing'.yielded = <<>>
  BY <1>1, <1>2 DEF ListInv, k
<1>. QED
  BY <1>3, <1>6, <1>7, <1>8 DEF ListInv

\* Another page was sent.
LEMMA PageGoesOn ==
  ASSUME Cardinality(Flows) <= MaxPages * PageSize, ListInv, NEW e, e = L!PageAt(listing.page),
         e # <<>>, ~L!Stalled(e),
         listing' = [listing EXCEPT !.yielded = @ \o e, !.signature = L!Signature(e),
                       !.pages = @ + 1, !.page = @ + 1, !.on = ~L!LastPage /\ ~L!Capped],
         UNCHANGED <<server, tenant, undisturbed, table, rows>>
  PROVE  ListInv'
<1>. DEFINE k == listing.pages
<1>1. /\ listing.page = k + 1 /\ k \in Nat /\ tenant \in Seq(Flows) /\ IsInjective(tenant)
      /\ server \in {"counts", "silent", "stuck", "cycles"}
  BY DEF ListInv
<1>2. /\ listing'.on = (~L!LastPage /\ ~L!Capped) /\ listing'.pages = k + 1
      /\ listing'.page = (k + 1) + 1 /\ listing'.signature = L!Signature(e)
      /\ listing'.yielded = listing.yielded \o e
  BY <1>1 DEF ListInv
<1>3. Captured' = Captured /\ L!Honest' = L!Honest /\ L!PageAt(1)' = L!PageAt(1)
  BY DEF Captured, L!Honest, L!PageAt
<1>4. e \in Seq(Flows)
  BY <1>1, PageOfTenant DEF L!Honest
<1>5. ASSUME L!Honest, ReadSoFar PROVE ReadSoFar'
  <2>. DEFINE from == k * PageSize
              to == Cut(k + 1)
  <2>1. e = SubSeq(tenant, from + 1, to)
    BY <1>1, <1>5, HonestPage
  <2>2. from \in Nat /\ (k + 1) * PageSize = from + PageSize /\ PageSize \in Nat \ {0}
    BY <1>1, OnePage
  <2>3. to = IF from + PageSize < Len(tenant) THEN from + PageSize ELSE Len(tenant)
    BY <2>2 DEF Cut
  <2>4. Cut(k) = IF from < Len(tenant) THEN from ELSE Len(tenant)
    BY DEF Cut
  <2>. HIDE DEF from, to
  <2>5. from < Len(tenant)
    <3>. SUFFICES ASSUME ~(from < Len(tenant)) PROVE FALSE
      OBVIOUS
    <3>1. to < from + 1 /\ to \in Int /\ from + 1 \in Int
      BY <1>1, <2>2, <2>3
    <3>. QED
      BY <2>1, <3>1, SubSeqEmpty
  <2>6. from + 1 \in 1..Len(tenant) /\ to \in (from + 1)..Len(tenant) /\ from \in 0..Len(tenant)
    BY <1>1, <2>2, <2>3, <2>5
  <2>7. listing.yielded = SubSeq(tenant, 1, from)
    BY <1>5, <2>4, <2>5 DEF ReadSoFar, k
  <2>8. listing'.yielded = SubSeq(tenant, 1, to)
    <3>1. 1 \in 1..(Len(tenant) + 1) /\ from \in (1 - 1)..Len(tenant) /\ to \in from..Len(tenant)
      BY <1>1, <2>2, <2>6
    <3>2. SubSeq(tenant, 1, from) \o SubSeq(tenant, from + 1, to) = SubSeq(tenant, 1, to)
      BY <1>1, <3>1, ConcatAdjacentSubSeq
    <3>. QED
      BY <1>2, <2>1, <2>7, <3>2
  <2>9. e[1] = tenant[from + 1]
    <3>1. Head(e) = tenant[from + 1]
      BY <1>1, <2>1, <2>6, HeadTailOfSubSeq
    <3>. QED
      BY <1>4, <3>1
  <2>10. listing'.signature[2] = tenant[from + 1]
    BY <1>2, <1>4, <2>9, SignatureOf
  <2>11. ~listing'.on => Len(tenant) <= (k + 1) * PageSize
    <3>1. CASE L!LastPage
      <4>1. k + 1 >= (Len(tenant) + PageSize - 1) \div PageSize
        BY <1>1, <3>1 DEF L!LastPage, L!PageCount
      <4>2. Len(tenant) \in Nat /\ k + 1 \in Nat /\ PageSize \in Nat \ {0}
        BY <1>1, <2>2
      <4>. QED
        BY <4>1, <4>2, Divided
    <3>2. CASE L!Capped
      <4>1. MaxPages <= k + 1 /\ k + 1 \in Nat
        BY <1>1, <3>2, ServicesAssumption DEF L!Capped
      <4>. QED
        BY <4>1, EnoughPages
    <3>. QED
      BY <1>2, <3>1, <3>2
  <2>12. \A i \in Nat : Cut(i)' = Cut(i)
    BY DEF Cut
  <2>13. (k + 1) - 1 = k /\ k + 1 > 0
    BY <1>1
  <2>14. /\ listing'.pages = k + 1 /\ (listing'.pages - 1) * PageSize = from
         /\ Cut(listing.pages)' = to
    <3>1. Cut(k + 1) = to /\ k + 1 \in Nat
      BY <1>1 DEF to
    <3>2. Cut(listing.pages)' = Cut(k + 1)
      <4>. HIDE DEF k
      <4>. QED
        BY <1>2, <2>12, <3>1
    <3>. QED
      BY <1>2, <2>13, <3>1, <3>2 DEF from
  <2>. HIDE DEF k
  <2>. QED
    BY <2>5, <2>8, <2>10, <2>11, <2>14 DEF ReadSoFar
<1>6. ASSUME server = "stuck", ReadOnce PROVE ReadOnce'
  <2>1. e = L!PageAt(1)
    BY <1>1, <1>6 DEF L!PageAt, L!Honest
  <2>2. k = 0
    BY <1>1, <1>6, <2>1 DEF ReadOnce, L!Stalled
  <2>3. listing'.yielded = e
    BY <1>2, <1>4, <2>2 DEF ListInv
  <2>. QED
    BY <1>2, <1>3, <2>1, <2>2, <2>3 DEF ReadOnce
<1>7. /\ listing' \in [on : BOOLEAN, page : Nat, signature : {None} \cup (Nat \X Flows \X Flows),
                       pages : Nat, yielded : Seq(Flows)]
      /\ listing'.page = listing'.pages + 1 /\ listing'.pages # 0
  <2>1. L!Signature(e) \in Nat \X Flows \X Flows
    BY <1>4, SignatureOf
  <2>2. listing.yielded \o e \in Seq(Flows)
    BY <1>4 DEF ListInv
  <2>. DEFINE b == ~L!LastPage /\ ~L!Capped
  <2>3. b \in BOOLEAN /\ listing'.on = b
    BY <1>2
  <2>4. k + 1 \in Nat /\ (k + 1) + 1 \in Nat /\ k + 1 # 0
    BY <1>1
  <2>5. /\ DOMAIN listing = {"on", "page", "signature", "pages", "yielded"}
        /\ listing' = [listing EXCEPT !.yielded = listing'.yielded, !.signature = listing'.signature,
                         !.pages = listing'.pages, !.page = listing'.page, !.on = listing'.on]
    BY <1>2 DEF ListInv
  <2>. HIDE DEF b, k
  <2>6. listing = [on |-> listing.on, page |-> listing.page, signature |-> listing.signature,
                   pages |-> listing.pages, yielded |-> listing.yielded]
    BY DEF ListInv
  <2>7. listing' = [on |-> b, page |-> (k + 1) + 1, signature |-> L!Signature(e),
                    pages |-> k + 1, yielded |-> listing.yielded \o e]
    BY <1>2, <2>3, <2>5, <2>6
  <2>. QED
    BY <2>1, <2>2, <2>3, <2>4, <2>7, ZenonT(60)
<1>8. /\ undisturbed' => (L!Honest' => ReadSoFar') /\ (server' = "stuck" => ReadOnce')
  BY <1>3, <1>5, <1>6 DEF ListInv
<1>. QED
  BY <1>3, <1>7, <1>8 DEF ListInv

LEMMA PageKeeps ==
  ASSUME Cardinality(Flows) <= MaxPages * PageSize, ListInv, L!Page
  PROVE  ListInv'
<1>1. UNCHANGED <<server, tenant, undisturbed, table, rows>>
  BY DEF L!Page
<1>2. CASE L!PageAt(listing.page) = <<>> \/ L!Stalled(L!PageAt(listing.page))
  <2>1. listing' = [listing EXCEPT !.on = FALSE]
    BY <1>2 DEF L!Page
  <2>. QED
    BY <1>1, <1>2, <2>1, PageStops
<1>3. CASE ~(L!PageAt(listing.page) = <<>> \/ L!Stalled(L!PageAt(listing.page)))
  <2>. DEFINE e == L!PageAt(listing.page)
  <2>1. listing' = [listing EXCEPT !.yielded = @ \o e, !.signature = L!Signature(e),
                      !.pages = @ + 1, !.page = @ + 1, !.on = ~L!LastPage /\ ~L!Capped]
    BY <1>3 DEF L!Page
  <2>2. e # <<>> /\ ~L!Stalled(e)
    BY <1>3
  <2>3. e = L!PageAt(listing.page)
    OBVIOUS
  <2>. HIDE DEF e
  <2>. QED
    BY <1>1, <2>1, <2>2, <2>3, PageGoesOn
<1>. QED
  BY <1>2, <1>3

\* listFlows and fetchDataTableRows (platform-source-provider.ts, resource-readers.ts):
\* for every tenant the limit of pages covers, whatever its size against the pages', a
\* listing nobody disturbed yields it whole and in order, with and without a page count,
\* and a data table of any length is captured up to the limit.
THEOREM PagedReadsYieldAll ==
  ASSUME Cardinality(Flows) <= MaxPages * PageSize
  PROVE  ServicesSpec => []PagedReadsAreExact
<1>1. ListInv /\ [ServicesNext]_services => ListInv'
  <2>. SUFFICES ASSUME ListInv, [ServicesNext]_services PROVE ListInv'
    OBVIOUS
  <2>1. ASSUME NEW f \in Flows, L!Created(f) PROVE ListInv'
    BY <2>1, CreatedKeeps
  <2>2. ASSUME NEW i \in DOMAIN tenant, L!Deleted(i) PROVE ListInv'
    BY <2>2, DeletedKeeps
  <2>3. CASE L!StartListing
    BY <2>3, StartListingKeeps
  <2>4. CASE L!Page
    BY <2>4, PageKeeps
  <2>5. CASE L!ResolveTable
    BY <2>5, ResolveTableKeeps
  <2>6. CASE UNCHANGED lists
    <3>1. UNCHANGED <<server, tenant, listing, undisturbed, table, rows>>
      BY <2>6 DEF lists
    <3>. QED
      BY <3>1 DEF ListInv, ReadSoFar, ReadOnce, Cut, Captured, L!PageAt, L!Honest
  <2>7. L!Next \/ UNCHANGED lists
    BY DEF ServicesNext, services
  <2>. QED
    BY <2>1, <2>2, <2>3, <2>4, <2>5, <2>6, <2>7 DEF L!Next
<1>2. ListInv => PagedReadsAreExact
  <2>. SUFFICES ASSUME ListInv PROVE PagedReadsAreExact
    OBVIOUS
  <2>1. tenant \in Seq(Flows)
    BY DEF ListInv
  <2>2. ASSUME ~listing.on, undisturbed, listing.pages > 0, L!Honest PROVE listing.yielded = tenant
    <3>1. ReadSoFar
      BY <2>2 DEF ListInv
    <3>2. listing.yielded = SubSeq(tenant, 1, Cut(listing.pages)) /\ Len(tenant) <= listing.pages * PageSize
      BY <2>2, <3>1 DEF ReadSoFar
    <3>3. listing.pages * PageSize \in Nat
      BY OnePage DEF ListInv
    <3>4. Cut(listing.pages) = Len(tenant)
      BY <2>1, <3>2, <3>3 DEF Cut
    <3>. QED
      BY <2>1, <3>2, <3>4, SubSeqFull
  <2>3. ASSUME undisturbed, listing.pages > 0, server = "stuck" PROVE listing.yielded = L!PageAt(1)
    BY <2>3 DEF ListInv, ReadOnce
  <2>4. rows # None => rows = IF table < MaxRows THEN table ELSE MaxRows
    BY DEF ListInv, Captured
  <2>. QED
    BY <2>2, <2>3, <2>4 DEF PagedReadsAreExact, L!PagedReadsAreExact
<1>. QED
  BY ListingInit, <1>1, <1>2, PTL DEF ServicesSpec

-----------------------------------------------------------------------------
(* The lock: type correctness *)

\* Inside an iteration the attempt counters are still below their bound.
Bounded ==
  \A p \in Procs :
    /\ pc[p] \in {"mutexLink", "mutexRead", "mutexClear", "decide", "clear", "mutexRelease"}
         => tries[p] < MaxAttempts
    /\ pc[p] \notin {"idle", "held"} => grants[p] < MaxGrants
    /\ pc[p] \in {"mutexRead", "mutexClear"} => mutexTries[p] < MaxAttempts

\* Who clears the lock has read of it that it was gone or stale.
Judged ==
  \A p \in Procs : pc[p] = "clear" => existing[p].file = Vacant \/ existing[p].stale

LockInv == TypeOK /\ Bounded /\ Judged

\* The initial state is well formed.
LEMMA LockInvInit == Init => LockInv
BY LockAssumption DEF Init, LockInv, TypeOK, Bounded, Judged, Files, Steps, Record, Unread

\* Every step keeps the state well formed, and the attempts within their bound.
LEMMA LockInvStep == LockInv /\ [Next]_vars => LockInv'
<1> SUFFICES ASSUME LockInv, [Next]_vars PROVE LockInv'
  OBVIOUS
<1> USE LockAssumption DEF LockInv, TypeOK, Bounded, Judged, Files, Steps, Goto, Retry
<1>1. ASSUME NEW p \in Procs, Acquire(p) PROVE LockInv'
  BY <1>1 DEF Acquire
<1>2. ASSUME NEW p \in Procs, Link(p) PROVE LockInv'
  <2>1. grants[p] + 1 \in 0..MaxGrants
    BY <1>2 DEF Link
  <2>2. CASE lock = Vacant
    <3>1. lock' = p /\ lockStale' = FALSE /\ grants' = [grants EXCEPT ![p] = grants[p] + 1]
          /\ pc' = [pc EXCEPT ![p] = "held"] /\ UNCHANGED <<mutex, mutexStale, tries, mutexTries, outcome, existing, crashes>>
      BY <1>2, <2>2 DEF Link
    <3>2. grants' \in [Procs -> 0..MaxGrants] /\ pc' \in [Procs -> Steps]
      BY <2>1, <3>1
    <3>3. TypeOK'
      BY <3>1, <3>2
    <3>4. Bounded' /\ Judged'
      BY <1>2, <3>1, SMTT(40) DEF Link
    <3>. QED
      BY <3>3, <3>4
  <2>3. CASE lock # Vacant
    BY <1>2, <2>3 DEF Link
  <2>4. QED
    BY <2>2, <2>3
<1>3. ASSUME NEW p \in Procs, GiveUp(p) PROVE LockInv'
  BY <1>3 DEF GiveUp
<1>4. ASSUME NEW p \in Procs, MutexLink(p) PROVE LockInv'
  BY <1>4 DEF MutexLink
<1>5. ASSUME NEW p \in Procs, MutexGiveUp(p) PROVE LockInv'
  BY <1>5 DEF MutexGiveUp
<1>6. ASSUME NEW p \in Procs, MutexRead(p) PROVE LockInv'
  <2>1. CASE mutex = Vacant \/ mutexStale
    BY <1>6, <2>1 DEF MutexRead
  <2>2. CASE ~(mutex = Vacant \/ mutexStale)
    <3>1. tries[p] + 1 \in 0..MaxAttempts
      BY <1>6 DEF MutexRead
    <3>. QED
      BY <1>6, <2>2, <3>1, SMTT(30) DEF MutexRead
  <2>. QED
    BY <2>1, <2>2
<1>7. ASSUME NEW p \in Procs, MutexClear(p) PROVE LockInv'
  <2>1. mutexTries[p] + 1 \in 0..MaxAttempts
    BY <1>7 DEF MutexClear
  <2>2. QED
    BY <1>7, <2>1 DEF MutexClear
<1>8. ASSUME NEW p \in Procs, Decide(p) PROVE LockInv'
  <2>1. Record(lock, lockStale) \in [file : Files, stale : BOOLEAN]
    BY DEF Record
  <2>2. CASE lock = Vacant \/ lockStale
    BY <1>8, <2>1, <2>2, SMTT(60) DEF Decide, Record
  <2>3. CASE ~(lock = Vacant \/ lockStale)
    BY <1>8, <2>3 DEF Decide
  <2>. QED
    BY <2>2, <2>3
<1>9. ASSUME NEW p \in Procs, Clear(p) PROVE LockInv'
  <2>1. Unread \in [file : Files, stale : BOOLEAN]
    BY DEF Unread, Record
  <2>. QED
    BY <1>9, <2>1 DEF Clear
<1>10. ASSUME NEW p \in Procs, MutexRelease(p) PROVE LockInv'
  <2>1. tries[p] + 1 \in 0..MaxAttempts
    BY <1>10 DEF MutexRelease
  <2>2. CASE outcome[p] = "live"
    BY <1>10, <2>2 DEF MutexRelease
  <2>3. CASE outcome[p] = "cleared"
    BY <1>10, <2>1, <2>3, ZenonT(60) DEF MutexRelease
  <2>4. QED
    BY <2>2, <2>3
<1>11. ASSUME NEW p \in Procs, Release(p) PROVE LockInv'
  BY <1>11 DEF Release
<1>12. ASSUME NEW p \in Procs, Crash(p) PROVE LockInv'
  <2>1. Unread \in [file : Files, stale : BOOLEAN]
    BY DEF Unread, Record
  <2>. QED
    BY <1>12, <2>1 DEF Crash
<1>13. CASE LockExpires
  BY <1>13 DEF LockExpires
<1>14. CASE MutexExpires
  BY <1>14 DEF MutexExpires
<1>15. CASE UNCHANGED vars
  BY <1>15 DEF vars
<1>16. QED
  BY <1>1, <1>2, <1>3, <1>4, <1>5, <1>6, <1>7, <1>8, <1>9, <1>10, <1>11, <1>12, <1>13, <1>14, <1>15 DEF Next, CallStep

\* Both retry loops stay within MAX_ATTEMPTS and every variable keeps its type.
THEOREM LockTypeCorrect == Spec => []TypeOK
<1>1. LockInv => TypeOK
  BY DEF LockInv
<1>2. QED
  BY LockInvInit, LockInvStep, <1>1, PTL DEF Spec

-----------------------------------------------------------------------------
(* The lock: how a live lock file can go *)

\* A step that takes a holder's live lock file away is the holder's release, or acts
\* on what somebody knew of the key before.
LEMMA LiveLockGoes ==
  ASSUME LockInv, Next, NEW p \in Procs, pc[p] = "held", lock = p, ~lockStale, lock' # p
  PROVE  pc'[p] = "idle" \/ \E q \in Procs \ {p} : Outdated(q) /\ pc'[q] # pc[q]
<1>. USE DEF Goto
<1>1. p # Vacant /\ lock # Vacant /\ pc \in [Procs -> Steps]
  BY NameAssumption DEF LockInv, TypeOK
<1>2. ASSUME NEW q \in Procs, Clear(q) PROVE q # p /\ Outdated(q) /\ pc'[q] # pc[q]
  <2>1. q # p /\ pc[q] = "clear" /\ pc'[q] # pc[q]
    BY <1>1, <1>2 DEF Clear
  <2>2. existing[q] # Record(p, FALSE)
    BY <1>1, <2>1 DEF LockInv, Judged, Record
  <2>. QED
    BY <2>1, <2>2 DEF Outdated, LockInv, TypeOK
<1>3. ASSUME NEW q \in Procs, Release(q)
      PROVE  pc'[p] = "idle" \/ (q # p /\ Outdated(q) /\ pc'[q] # pc[q])
  BY <1>1, <1>3 DEF Release, Outdated
<1>4. \E q \in Procs : Clear(q) \/ Release(q)
  <2>1. ASSUME NEW q \in Procs, Acquire(q) \/ Link(q) \/ GiveUp(q) \/ MutexLink(q) \/ MutexGiveUp(q)
        PROVE  lock' = lock
    BY <1>1, <2>1 DEF Acquire, Link, GiveUp, MutexLink, MutexGiveUp
  <2>2. ASSUME NEW q \in Procs, MutexRead(q) \/ MutexClear(q) \/ Decide(q) \/ MutexRelease(q) \/ Crash(q)
        PROVE  lock' = lock
    BY <2>2 DEF MutexRead, MutexClear, Decide, MutexRelease, Crash
  <2>3. ASSUME LockExpires \/ MutexExpires PROVE lock' = lock
    BY <2>3 DEF LockExpires, MutexExpires
  <2>. QED
    BY <2>1, <2>2, <2>3 DEF Next, CallStep
<1>. QED
  BY <1>2, <1>3, <1>4

\* acquireLock and release: however many callers race for the key, whatever expires,
\* crashes or was left behind, no contender clears a live lock file it has judged, and
\* nothing but an outdated clear or release takes it from its holder.
THEOREM LiveLocksStay == Spec => LiveLockStays
<1>1. LockInv /\ [Next]_vars =>
        [\A p \in Holders : lock = p /\ ~lockStale /\ lock' # p =>
           \/ pc'[p] = "idle"
           \/ \E q \in Procs \ {p} : Outdated(q) /\ pc'[q] # pc[q]]_vars
  BY LiveLockGoes DEF Holders
<1>2. QED
  BY LockInvInit, LockInvStep, <1>1, PTL DEF Spec, LiveLockStays
=============================================================================
