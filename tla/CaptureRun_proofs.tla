-------------------------- MODULE CaptureRun_proofs --------------------------
(***************************************************************************)
(* Proofs about ResourceWalk and CaptureRun, for every set of runs, of     *)
(* flows and of resources, every shape of their references, all seeds and  *)
(* every budget of a walk, either mode, and every number of faults,        *)
(* crashes and resumes.                                                    *)
(***************************************************************************)
EXTENDS CaptureRun, FiniteSetTheorems, TLAPS

-----------------------------------------------------------------------------
(* The walk of the references: closed, or says that it was truncated *)

\* Where a reference that is not lost may be: resolved, or still to be resolved.
Known == walk.nodes \cup Elems(walk.worklist) \cup Elems(walk.batch)

\* Nothing that was found has been forgotten: the seeds, and what the resolved
\* and readable nodes refer to.
Accounted ==
  /\ Elems(walk.seeds) \subseteq Known
  /\ \A key \in walk.nodes \cap Readable : Elems(Refs[key]) \subseteq Known

\* The inductive strengthening of ClosedUnlessTruncated.
WalkInv ==
  /\ walk \in Walks
  /\ walk.requests <= walk.budget
  /\ walk.last => walk.truncated
  /\ ~walk.truncated => Accounted
  /\ walk.stage = "done" /\ ~walk.truncated => walk.worklist = <<>> /\ walk.batch = <<>>

-----------------------------------------------------------------------------
(* The elements of the sequences the walk builds. *)

\* The empty queue holds nothing.
LEMMA ElemsOfEmpty == Elems(<<>>) = {}
  BY DEF Elems

\* Taking the first entry off a queue leaves the others.
LEMMA ElemsOfTail ==
  ASSUME NEW S, NEW s \in Seq(S), s # <<>>
  PROVE  /\ Head(s) \in S
         /\ Tail(s) \in Seq(S)
         /\ Elems(s) = {Head(s)} \cup Elems(Tail(s))
  <1>1. Head(s) \in S /\ Tail(s) \in Seq(S)
    OBVIOUS
  <1>2. Elems(s) \subseteq {Head(s)} \cup Elems(Tail(s))
    <2> SUFFICES ASSUME NEW i \in DOMAIN s, i # 1 PROVE s[i] \in Elems(Tail(s))
      BY DEF Elems
    <2>1. i - 1 \in DOMAIN Tail(s) /\ Tail(s)[i - 1] = s[i]
      OBVIOUS
    <2> QED BY <2>1 DEF Elems
  <1>3. {Head(s)} \cup Elems(Tail(s)) \subseteq Elems(s)
    <2>1. Head(s) \in Elems(s)
      <3>1. 1 \in DOMAIN s /\ Head(s) = s[1]
        OBVIOUS
      <3> QED BY <3>1 DEF Elems
    <2>2. ASSUME NEW i \in DOMAIN Tail(s) PROVE Tail(s)[i] \in Elems(s)
      <3>1. i + 1 \in DOMAIN s /\ Tail(s)[i] = s[i + 1]
        OBVIOUS
      <3> QED BY <3>1 DEF Elems
    <2> QED BY <2>1, <2>2 DEF Elems
  <1> QED BY <1>1, <1>2, <1>3

\* An entry put at the end of a queue is there, with those that were.
LEMMA ElemsOfAppend ==
  ASSUME NEW S, NEW s \in Seq(S), NEW x \in S
  PROVE  /\ Append(s, x) \in Seq(S)
         /\ Elems(s) \cup {x} \subseteq Elems(Append(s, x))
  <1>1. Append(s, x) \in Seq(S)
    OBVIOUS
  <1>2. ASSUME NEW i \in DOMAIN s PROVE s[i] \in Elems(Append(s, x))
    <2>1. i \in DOMAIN Append(s, x) /\ Append(s, x)[i] = s[i]
      OBVIOUS
    <2> QED BY <2>1 DEF Elems
  <1>3. x \in Elems(Append(s, x))
    <2>1. Len(s) + 1 \in DOMAIN Append(s, x) /\ Append(s, x)[Len(s) + 1] = x
      OBVIOUS
    <2> QED BY <2>1 DEF Elems
  <1> QED BY <1>1, <1>2, <1>3 DEF Elems

\* Two queues put together hold what both held.
LEMMA ElemsOfConcat ==
  ASSUME NEW S, NEW s \in Seq(S), NEW t \in Seq(S)
  PROVE  /\ s \o t \in Seq(S)
         /\ Elems(s) \cup Elems(t) \subseteq Elems(s \o t)
  <1>1. s \o t \in Seq(S)
    OBVIOUS
  <1>2. ASSUME NEW i \in DOMAIN s PROVE s[i] \in Elems(s \o t)
    <2>1. i \in DOMAIN (s \o t) /\ (s \o t)[i] = s[i]
      OBVIOUS
    <2> QED BY <2>1 DEF Elems
  <1>3. ASSUME NEW i \in DOMAIN t PROVE t[i] \in Elems(s \o t)
    <2>1. i + Len(s) \in DOMAIN (s \o t) /\ (s \o t)[i + Len(s)] = t[i]
      OBVIOUS
    <2> QED BY <2>1 DEF Elems
  <1> QED BY <1>1, <1>2, <1>3 DEF Elems

-----------------------------------------------------------------------------
(* The walk from any seeds and with any budget. *)

\* Whatever the seeds, each is accounted for at the start.
LEMMA WalkStarts == WalkInit => WalkInv
  <1> SUFFICES ASSUME NEW seeds \in Seq(Keys), NEW budget \in Nat,
                      walk = WalkFrom(seeds, budget)
               PROVE  WalkInv
    BY DEF WalkInit
  <1>1. walk \in Walks
    BY DEF WalkFrom, Walks
  <1>2. Accounted
    BY DEF Accounted, Known, WalkFrom
  <1> QED BY <1>1, <1>2 DEF WalkInv, WalkFrom

\* A reference that was met before is skipped, and every other waits in the batch.
LEMMA FilterKeeps == WalkInv /\ Filter => WalkInv'
  <1> SUFFICES ASSUME WalkInv, Filter PROVE WalkInv'
    OBVIOUS
  <1> DEFINE key == Head(walk.worklist)
             batch == IF key \in walk.nodes THEN walk.batch ELSE Append(walk.batch, key)
  <1>1. /\ walk \in Walks /\ walk.worklist \in Seq(Keys) /\ walk.batch \in Seq(Keys)
        /\ walk.worklist # <<>> /\ walk.stage = "filter"
    BY DEF WalkInv, Filter, Walks
  <1>2. /\ key \in Keys /\ Tail(walk.worklist) \in Seq(Keys)
        /\ Elems(walk.worklist) = {key} \cup Elems(Tail(walk.worklist))
    BY <1>1, ElemsOfTail
  <1>3. batch \in Seq(Keys) /\ Elems(walk.batch) \subseteq Elems(batch)
        /\ (key \in walk.nodes \/ key \in Elems(batch))
    BY <1>1, <1>2, ElemsOfAppend
  <1>4. walk' = [walk EXCEPT !.worklist = Tail(@), !.batch = batch]
    BY DEF Filter
  <1> HIDE DEF key, batch
  <1>5. walk' \in Walks /\ walk'.stage = "filter" /\ walk'.requests = walk.requests
        /\ walk'.budget = walk.budget /\ walk'.last = walk.last /\ walk'.truncated = walk.truncated
        /\ walk'.seeds = walk.seeds /\ walk'.nodes = walk.nodes
        /\ walk'.worklist = Tail(walk.worklist) /\ walk'.batch = batch
    BY <1>1, <1>2, <1>3, <1>4 DEF Walks
  <1>6. Known \subseteq Known'
    BY <1>2, <1>3, <1>5 DEF Known, Elems
  <1>7. Accounted => Accounted'
    BY <1>5, <1>6 DEF Accounted, Elems
  <1> QED BY <1>5, <1>7 DEF WalkInv

\* A frontier the budget cuts short is recorded as such.
LEMMA CutKeeps == WalkInv /\ Cut => WalkInv'
  <1> SUFFICES ASSUME WalkInv, Cut PROVE WalkInv'
    OBVIOUS
  <1> DEFINE left == walk.budget - walk.requests
             over == Len(walk.batch) > left
             batch == IF over THEN SubSeq(walk.batch, 1, left) ELSE walk.batch
  <1>1. /\ walk \in Walks /\ walk.batch \in Seq(Keys) /\ walk.worklist = <<>>
        /\ walk.requests \in Nat /\ walk.budget \in Nat /\ walk.requests <= walk.budget
    BY DEF WalkInv, Cut, Walks
  <1>2. /\ left \in Nat /\ batch \in Seq(Keys) /\ Len(batch) \in Nat /\ Len(batch) <= left
        /\ over \in BOOLEAN /\ (~over => batch = walk.batch)
    <2>1. left \in Nat
      BY <1>1
    <2>2. CASE over
      <3>1. SubSeq(walk.batch, 1, left) \in Seq(Keys) /\ Len(SubSeq(walk.batch, 1, left)) = left
        BY <1>1, <2>1, <2>2
      <3> QED BY <2>1, <2>2, <3>1
    <2>3. CASE ~over
      BY <1>1, <2>1, <2>3
    <2> QED BY <2>1, <2>2, <2>3
  <1>3. walk' = [walk EXCEPT !.stage = IF batch = <<>> THEN "done" ELSE "resolve",
                             !.batch = batch, !.requests = @ + Len(batch),
                             !.last = over, !.truncated = @ \/ over]
    BY DEF Cut
  <1>4. /\ walk'.stage = (IF batch = <<>> THEN "done" ELSE "resolve")
        /\ walk'.requests = walk.requests + Len(batch)
        /\ walk'.budget = walk.budget /\ walk'.last = over /\ walk'.truncated = (walk.truncated \/ over)
        /\ walk'.seeds = walk.seeds /\ walk'.nodes = walk.nodes /\ walk'.edges = walk.edges
        /\ walk'.worklist = <<>> /\ walk'.batch = batch
    BY <1>1, <1>3 DEF Walks
  <1>5. left = walk.budget - walk.requests
    OBVIOUS
  <1> HIDE DEF left, over, batch
  <1>6. walk' \in Walks
    <2>1. walk.requests + Len(batch) \in Nat /\ (walk.truncated \/ over) \in BOOLEAN
      BY <1>1, <1>2 DEF Walks
    <2>2. (IF batch = <<>> THEN "done" ELSE "resolve") \in {"filter", "resolve", "done"}
      OBVIOUS
    <2> QED BY <1>1, <1>2, <1>3, <2>1, <2>2, Zenon DEF Walks
  <1>7. walk'.requests <= walk'.budget
    BY <1>1, <1>2, <1>4, <1>5
  <1>8. ~walk'.truncated => Accounted'
    <2> SUFFICES ASSUME ~walk'.truncated PROVE Accounted'
      OBVIOUS
    <2>1. Accounted /\ batch = walk.batch
      BY <1>2, <1>4 DEF WalkInv
    <2>2. Known' = Known
      BY <1>1, <1>4, <2>1 DEF Known
    <2> QED BY <1>4, <2>1, <2>2 DEF Accounted
  <1> QED BY <1>2, <1>4, <1>6, <1>7, <1>8 DEF WalkInv

\* A lookup that succeeds makes a node and queues what it refers to; one that
\* fails is noted as unresolved.
LEMMA ResolveKeeps == WalkInv /\ Resolve => WalkInv'
  <1> SUFFICES ASSUME WalkInv, Resolve PROVE WalkInv'
    OBVIOUS
  <1> DEFINE key == Head(walk.batch)
             outward == IF key \in Readable THEN Refs[key] ELSE <<>>
  <1>1. /\ walk \in Walks /\ walk.worklist \in Seq(Keys) /\ walk.batch \in Seq(Keys)
        /\ walk.batch # <<>> /\ walk.stage = "resolve"
    BY DEF WalkInv, Resolve, Walks
  <1>2. /\ key \in Keys /\ Tail(walk.batch) \in Seq(Keys)
        /\ Elems(walk.batch) = {key} \cup Elems(Tail(walk.batch))
    BY <1>1, ElemsOfTail
  <1>3. outward \in Seq(Keys) /\ (key \in Readable => outward = Refs[key])
    BY <1>2, WalkAssumption
  <1>4. walk' = [walk EXCEPT !.batch = Tail(@), !.nodes = @ \cup {key},
                             !.edges = @ \cup ({key} \X Elems(outward)),
                             !.worklist = @ \o outward]
    BY DEF Resolve
  <1> HIDE DEF key, outward
  <1>5. walk.worklist \o outward \in Seq(Keys)
        /\ Elems(walk.worklist) \cup Elems(outward) \subseteq Elems(walk.worklist \o outward)
    BY <1>1, <1>3, ElemsOfConcat
  <1>6. {key} \X Elems(outward) \subseteq Keys \X Keys
    BY <1>2, <1>3 DEF Elems
  <1>7. /\ walk'.stage = "resolve" /\ walk'.requests = walk.requests
        /\ walk'.budget = walk.budget /\ walk'.last = walk.last /\ walk'.truncated = walk.truncated
        /\ walk'.seeds = walk.seeds /\ walk'.nodes = walk.nodes \cup {key}
        /\ walk'.worklist = walk.worklist \o outward /\ walk'.batch = Tail(walk.batch)
    BY <1>1, <1>4 DEF Walks
  <1>8. walk' \in Walks
    BY <1>1, <1>2, <1>4, <1>5, <1>6 DEF Walks
  <1>9. Known \subseteq Known' /\ Elems(outward) \subseteq Known'
    BY <1>2, <1>5, <1>7 DEF Known
  <1>10. Accounted => Accounted'
    BY <1>3, <1>7, <1>9 DEF Accounted
  <1> QED BY <1>7, <1>8, <1>10 DEF WalkInv

\* The next level holds what the last one found.
LEMMA TurnKeeps == WalkInv /\ Turn => WalkInv'
  <1> SUFFICES ASSUME WalkInv, Turn PROVE WalkInv'
    OBVIOUS
  <1>1. walk \in Walks /\ walk.batch = <<>>
    BY DEF WalkInv, Turn
  <1>2. walk' = [walk EXCEPT !.stage = IF walk.last \/ walk.worklist = <<>> THEN "done" ELSE "filter"]
    BY DEF Turn
  <1>3. walk' \in Walks
    BY <1>1, <1>2 DEF Walks
  <1>4. /\ walk'.stage = "done" => walk.last \/ walk.worklist = <<>>
        /\ walk'.requests = walk.requests /\ walk'.budget = walk.budget
        /\ walk'.last = walk.last /\ walk'.truncated = walk.truncated /\ walk'.seeds = walk.seeds
        /\ walk'.nodes = walk.nodes /\ walk'.worklist = walk.worklist /\ walk'.batch = walk.batch
    BY <1>1, <1>2 DEF Walks
  <1>5. Accounted => Accounted'
    BY <1>4 DEF Accounted, Known
  <1> QED BY <1>1, <1>3, <1>4, <1>5 DEF WalkInv

\* Every step of the walk preserves the invariant.
LEMMA WalkInvariant == WalkSpec => []WalkInv
  <1>1. WalkInv /\ [WalkNext]_walk => WalkInv'
    <2> SUFFICES ASSUME WalkInv, [WalkNext]_walk PROVE WalkInv'
      OBVIOUS
    <2>1. CASE UNCHANGED walk
      BY <2>1 DEF WalkInv, Accounted, Known
    <2> QED BY <2>1, FilterKeeps, CutKeeps, ResolveKeeps, TurnKeeps DEF WalkNext
  <1> QED BY <1>1, WalkStarts, PTL DEF WalkSpec

\* The state of the walk of buildResourceGraph stays well formed, whatever the
\* organization holds.
THEOREM WalkTypeCorrect == WalkSpec => [](walk \in Walks)
  <1>1. WalkInv => walk \in Walks
    BY DEF WalkInv
  <1> QED BY <1>1, WalkInvariant, PTL

\* buildResourceGraph keeps its promise of closure: a walk that ends without
\* `truncated` has resolved its seeds and everything the readable nodes refer to,
\* and no walk makes more requests than its budget, for every organization,
\* cyclic references and unreadable resources included.
THEOREM WalkIsClosed == WalkSpec => []ClosedUnlessTruncated
  <1>1. WalkInv => ClosedUnlessTruncated
    <2> SUFFICES ASSUME WalkInv PROVE ClosedUnlessTruncated
      OBVIOUS
    <2>1. walk.stage = "done" /\ ~walk.truncated => Known = walk.nodes
      BY ElemsOfEmpty DEF WalkInv, Known
    <2> QED BY <2>1 DEF WalkInv, Accounted, ClosedUnlessTruncated
  <1> QED BY <1>1, WalkInvariant, PTL

-----------------------------------------------------------------------------
(* The run *)

\* The phases a manifest may show, and how the turn of a flow may end.
Phases == {"none", "torn", "queued", "discovering", "fetching_definitions", "walking_resources",
           "downloading_assets", "sealing", "completed", "completed_with_warnings", "failed"}
Statuses == {"completed", "skipped", "failed"}

Memories ==
  [total : Int, queued : Int, completed : Int, skipped : Int, failed : Int,
   results : SUBSET (Flows \X Statuses), todo : SUBSET Flows, carried : SUBSET Flows,
   written : SUBSET Flows, seeds : SUBSET Keys, resources : SUBSET Keys,
   degraded : BOOLEAN, leftover : BOOLEAN]
Manifests ==
  [state : Phases, total : Int, queued : Int, completed : Int, skipped : Int, failed : Int,
   results : SUBSET (Flows \X Statuses)]
Bundles ==
  [files : SUBSET Flows, sealed : SUBSET Flows, resources : SUBSET Keys,
   statuses : SUBSET Statuses, leftover : BOOLEAN, ready : BOOLEAN, truncated : BOOLEAN]

MemOK(m) == m \in Memories /\ IsFiniteSet(m.seeds)

TypeOK ==
  /\ walk \in Walks
  /\ pc \in [Runs -> Steps]
  /\ mem \in [Runs -> Memories] /\ \A r \in Runs : IsFiniteSet(mem[r].seeds)
  /\ manifest \in [Runs -> Manifests]
  /\ staging \in [Runs -> SUBSET Flows]
  /\ bundle \in Bundles
  /\ lock \subseteq Runs
  /\ faults \in Nat /\ crashes \in Nat /\ resumes \in Nat

-----------------------------------------------------------------------------
(* The memory of a run and what it is turned into *)

\* A run starts out remembering nothing.
LEMMA FreshOK == MemOK(Fresh)
BY FS_EmptySet DEF MemOK, Fresh, Memories

\* The turn of a flow leaves the memory well formed and what was written, read
\* and found in the staging directory as it was.
LEMMA CountedOK ==
  ASSUME NEW m, MemOK(m), NEW f \in Flows, NEW status \in Statuses
  PROVE  LET n == Counted(m, f, status)
         IN  /\ MemOK(n)
             /\ n.results = m.results \cup {<<f, status>>}
             /\ n.written = m.written /\ n.seeds = m.seeds /\ n.leftover = m.leftover
<1> DEFINE n == Counted(m, f, status)
<1>1. m \in Memories
  BY DEF MemOK
<1>2. n \in Memories
  <2>1. /\ m.queued - 1 \in Int /\ m.todo \ {f} \in SUBSET Flows
        /\ m.results \cup {<<f, status>>} \in SUBSET (Flows \X Statuses)
    BY <1>1 DEF Memories
  <2>2. /\ (IF status = "completed" THEN m.completed + 1 ELSE m.completed) \in Int
        /\ (IF status = "skipped" THEN m.skipped + 1 ELSE m.skipped) \in Int
        /\ (IF status = "failed" THEN m.failed + 1 ELSE m.failed) \in Int
    BY <1>1 DEF Memories
  <2>3. (m.degraded \/ status = "failed") \in BOOLEAN
    OBVIOUS
  <2>4. QED
    BY <1>1, <2>1, <2>2, <2>3, ZenonT(60) DEF Counted, Memories
<1>3. n.results = m.results \cup {<<f, status>>} /\ n.written = m.written /\ n.seeds = m.seeds
      /\ n.leftover = m.leftover
  BY <1>1 DEF Counted, Memories
<1>4. QED
  BY <1>2, <1>3 DEF MemOK

\* A flow that was written is added to what the run will seal.
LEMMA WrittenOK ==
  ASSUME NEW m, MemOK(m), NEW f \in Flows
  PROVE  LET n == [m EXCEPT !.written = @ \cup {f}]
         IN  /\ MemOK(n) /\ n.written = m.written \cup {f}
             /\ n.results = m.results /\ n.seeds = m.seeds /\ n.leftover = m.leftover
BY DEF MemOK, Memories

\* What a manifest shows of a memory.
LEMMA ViewOK == ASSUME NEW m, MemOK(m), NEW phase \in Phases PROVE View(m, phase) \in Manifests
BY DEF MemOK, Memories, View, Manifests

\* The elements of a sequence are finitely many and of the sequence's set.
LEMMA ElemsFinite ==
  ASSUME NEW S, NEW s \in Seq(S) PROVE IsFiniteSet(Elems(s)) /\ Elems(s) \subseteq S
<1>1. Len(s) \in Nat /\ s \in [1..Len(s) -> S] /\ DOMAIN s = 1..Len(s)
  OBVIOUS
<1>2. s \in Surjection(1..Len(s), Elems(s))
  BY <1>1 DEF Surjection, Elems
<1>3. ExistsSurjection(1..Len(s), Elems(s))
  BY <1>2 DEF ExistsSurjection
<1>4. QED
  BY <1>1, <1>3, FS_NatSurjection DEF Elems

\* The references of a flow are finitely many resources.
LEMMA LoadedOK ==
  ASSUME NEW m, MemOK(m), NEW f \in Flows
  PROVE  LET n == [m EXCEPT !.written = @ \cup {f}, !.seeds = @ \cup Elems(Refs[f])]
         IN  /\ MemOK(n) /\ n.written = m.written \cup {f} /\ n.seeds = m.seeds \cup Elems(Refs[f])
             /\ n.results = m.results /\ n.leftover = m.leftover
<1>1. Refs[f] \in Seq(Keys)
  BY CaptureAssumption, WalkAssumption
<1>2. IsFiniteSet(Elems(Refs[f])) /\ Elems(Refs[f]) \subseteq Keys
  BY <1>1, ElemsFinite
<1>3. IsFiniteSet(m.seeds \cup Elems(Refs[f]))
  BY <1>2, FS_Union DEF MemOK
<1>4. QED
  BY <1>2, <1>3 DEF MemOK, Memories

\* The walk starts from the resources in some order, each of them and no other.
LEMMA SeedsInOrder ==
  ASSUME NEW S, IsFiniteSet(S) PROVE SetToSeq(S) \in Seq(S) /\ Elems(SetToSeq(S)) = S
<1> DEFINE s == SetToSeq(S)
           n == Cardinality(S)
<1>1. \E f \in [1..n -> S] : IsInjective(f)
  BY FS_CardinalityType DEF IsInjective, ExistsBijection, Bijection, Injection
<1>2. n \in Nat
  BY FS_CardinalityType
<1>3. s \in [1..n -> S] /\ IsInjective(s)
  BY <1>1 DEF SetToSeq
<1> HIDE DEF s, n
<1>4. s \in Injection(1..n, S)
  BY <1>3 DEF Injection
<1>5. Cardinality(1..n) = n
  BY <1>2, FS_Interval
<1>6. s \in Surjection(1..n, S)
  BY <1>4, <1>5, FS_Injection DEF n
<1>7. Elems(s) = S
  BY <1>3, <1>6 DEF Surjection, Elems
<1>8. QED
  BY <1>2, <1>3, <1>7 DEF s

-----------------------------------------------------------------------------
(* Type correctness *)

AllLoaded(m) == m.results \subseteq Flows \X {"completed"}

\* A run that could load all it tried walks from all their references; the walk
\* of a migration is over and closed when its resources are written.
WalkedRun(r) ==
  /\ pc[r] \in {"fetch", "walk", "assets", "seal"} /\ AllLoaded(mem[r]) =>
       \A f \in mem[r].written : Elems(Refs[f]) \subseteq mem[r].seeds
  /\ pc[r] = "walk" => WalkInv
  /\ Mode = "migration" /\ pc[r] \in {"walk", "assets", "seal"} => Elems(walk.seeds) = mem[r].seeds
  /\ Mode = "migration" /\ pc[r] \in {"assets", "seal"} => WalkInv /\ walk.stage = "done"
  /\ Mode = "migration" /\ pc[r] = "seal" => mem[r].resources = walk.nodes \cap Readable
Walked == \A r \in Runs : WalkedRun(r)

\* The memory a run takes over is its own and nobody else's.
LEMMA Remembers ==
  ASSUME TypeOK, NEW r \in Runs, NEW m, MemOK(m), Remember(r, m)
  PROVE  /\ mem' \in [Runs -> Memories] /\ \A q \in Runs : IsFiniteSet(mem'[q].seeds)
         /\ mem'[r] = m /\ \A q \in Runs \ {r} : mem'[q] = mem[q]
<1>1. mem \in [Runs -> Memories] /\ \A q \in Runs : IsFiniteSet(mem[q].seeds)
  BY DEF TypeOK
<1>2. mem' = [mem EXCEPT ![r] = m] /\ m \in Memories /\ IsFiniteSet(m.seeds)
  BY DEF Remember, MemOK
<1>3. QED
  BY <1>1, <1>2

\* A save of the manifest keeps the manifests well formed.
LEMMA Persists ==
  ASSUME TypeOK, NEW r \in Runs, MemOK(mem[r])', NEW phase \in Phases, Persist(r, phase)
  PROVE  manifest' \in [Runs -> Manifests]
<1>1. View(mem'[r], phase) \in Manifests
  BY ViewOK
<1>2. QED
  BY <1>1 DEF TypeOK, Persist

\* No walk is a walk that is over.
LEMMA NoWalkOK == NoWalk \in Walks
<1>1. <<>> \in Seq(Keys)
  OBVIOUS
<1>2. WalkFrom(<<>>, 0) \in Walks
  BY <1>1 DEF WalkFrom, Walks
<1>3. QED
  BY <1>2 DEF NoWalk, Walks

\* A run that ends leaves nothing of itself but what it has written.
LEMMA Ends ==
  ASSUME TypeOK, NEW r \in Runs, NEW how \in Steps, End(r, how)
  PROVE  /\ walk' \in Walks /\ pc' \in [Runs -> Steps] /\ lock' \subseteq Runs
         /\ mem' \in [Runs -> Memories] /\ \A q \in Runs : IsFiniteSet(mem'[q].seeds)
         /\ mem'[r] = Fresh /\ \A q \in Runs \ {r} : mem'[q] = mem[q]
<1>1. Remember(r, Fresh)
  BY DEF End
<1>2. QED
  BY <1>1, FreshOK, Remembers, NoWalkOK DEF TypeOK, End, Goto, Release

\* So does one that records its end.
LEMMA EndsAs ==
  ASSUME TypeOK, NEW r \in Runs, NEW state \in Phases \cap Steps, EndAs(r, state)
  PROVE  manifest' \in [Runs -> Manifests]
<1>1. View(mem[r], state) \in Manifests
  BY ViewOK DEF TypeOK, MemOK
<1>2. QED
  BY <1>1 DEF TypeOK, EndAs

\* The manifest of a process that died may be cut short.
LEMMA TornOK == Torn \in Manifests /\ NoManifest \in Manifests
BY FreshOK, ViewOK DEF Torn, NoManifest, Phases

\* The turn of a flow keeps the state well formed.
LEMMA FetchTyped ==
  ASSUME TypeOK, NEW r \in Runs, Fetch(r)
  PROVE  /\ \E m : MemOK(m) /\ Remember(r, m)
         /\ staging' \in [Runs -> SUBSET Flows] /\ Persist(r, "fetching_definitions")
         /\ UNCHANGED <<walk, pc, bundle, lock, crashes, resumes>> /\ faults' \in Nat
<1>1. PICK f \in Flows : \/ CarryFlow(r, f) \/ LoadFlow(r, f) \/ LoadFails(r, f)
                         \/ ReferencesFail(r, f) \/ WriteFails(r, f)
  BY DEF Fetch
<1>2. MemOK(mem[r]) /\ staging \in [Runs -> SUBSET Flows] /\ faults \in Nat
  BY DEF TypeOK, MemOK
<1>3. {"completed", "skipped", "failed"} \subseteq Statuses
  BY DEF Statuses
<1>4. \A status \in Statuses : MemOK(Counted(mem[r], f, status))
  BY <1>2, CountedOK
<1>5. \E m : MemOK(m) /\ Remember(r, m)
  <2>1. CASE CarryFlow(r, f)
    BY <1>3, <1>4, <2>1, WrittenOK DEF CarryFlow
  <2>2. CASE LoadFlow(r, f)
    BY <1>3, <1>4, <2>2, LoadedOK DEF LoadFlow
  <2>3. CASE LoadFails(r, f)
    BY <1>3, <1>4, <2>3 DEF LoadFails
  <2>4. CASE ReferencesFail(r, f)
    <3>1. MemOK(Counted(Counted(mem[r], f, "completed"), f, "failed"))
      BY <1>3, <1>4, CountedOK
    <3>2. QED
      BY <2>4, <3>1, WrittenOK DEF ReferencesFail
  <2>5. CASE WriteFails(r, f)
    BY <1>3, <1>4, <2>5, WrittenOK DEF WriteFails
  <2>6. QED
    BY <1>1, <2>1, <2>2, <2>3, <2>4, <2>5
<1>6. QED
  BY <1>1, <1>2, <1>5 DEF CarryFlow, LoadFlow, LoadFails, ReferencesFail, WriteFails, WriteFlow, Fault, bounds

\* A walk starts accounting for its seeds, which in a migration are the references
\* of the flows the run has loaded.
LEMMA BeginWalkOK ==
  ASSUME TypeOK, NEW r \in Runs, BeginWalk(r)
  PROVE  /\ WalkInv' /\ walk' \in Walks
         /\ Mode = "migration" => Elems(walk'.seeds) = mem[r].seeds
<1> DEFINE seeds == SetToSeq(mem[r].seeds)
<1>1. mem[r] \in Memories /\ IsFiniteSet(mem[r].seeds)
  BY DEF TypeOK
<1>2. seeds \in Seq(Keys) /\ Elems(seeds) = mem[r].seeds
  <2>1. seeds \in Seq(mem[r].seeds) /\ Elems(seeds) = mem[r].seeds
    BY <1>1, SeedsInOrder
  <2>2. mem[r].seeds \subseteq Keys
    BY <1>1 DEF Memories
  <2>3. QED
    BY <2>1, <2>2
<1>3. walk' = IF Mode = "migration" THEN WalkFrom(seeds, MaxRequests)
              ELSE IF seeds = <<>> THEN NoWalk ELSE WalkFrom(seeds, Len(seeds))
  BY DEF BeginWalk
<1> HIDE DEF seeds
<1>4. MaxRequests \in Nat /\ Len(seeds) \in Nat
  BY <1>2, CaptureAssumption
<1>5. ASSUME NEW budget \in Nat, walk' = WalkFrom(seeds, budget)
      PROVE  WalkInv' /\ walk' \in Walks /\ walk'.seeds = seeds
  BY <1>2, <1>5 DEF WalkFrom, WalkInv, Walks, Accounted, Known
<1>6. walk' = NoWalk => WalkInv' /\ walk' \in Walks
  BY NoWalkOK, ElemsOfEmpty DEF NoWalk, WalkFrom, WalkInv, Accounted, Known
<1>7. QED
  BY <1>2, <1>3, <1>4, <1>5, <1>6

\* Every step of a capture keeps the state well formed.
LEMMA TypeStep == TypeOK /\ Walked /\ [Next]_vars => TypeOK'
<1> SUFFICES ASSUME TypeOK, Walked, [Next]_vars PROVE TypeOK'
  OBVIOUS
<1>t. /\ walk \in Walks /\ pc \in [Runs -> Steps] /\ manifest \in [Runs -> Manifests]
      /\ mem \in [Runs -> Memories] /\ \A r \in Runs : IsFiniteSet(mem[r].seeds)
      /\ staging \in [Runs -> SUBSET Flows] /\ bundle \in Bundles /\ lock \subseteq Runs
      /\ faults \in Nat /\ crashes \in Nat /\ resumes \in Nat
  BY DEF TypeOK
<1>m. \A r \in Runs : MemOK(mem[r])
  BY <1>t DEF MemOK
<1>g. ASSUME NEW r \in Runs, NEW step \in Steps, Goto(r, step) PROVE pc' \in [Runs -> Steps]
  BY <1>t, <1>g DEF Goto
<1>p. ASSUME NEW r \in Runs, NEW phase \in Phases, Persist(r, phase),
             mem' = mem \/ \E m : MemOK(m) /\ Remember(r, m)
      PROVE  /\ manifest' \in [Runs -> Manifests] /\ mem' \in [Runs -> Memories]
             /\ \A q \in Runs : IsFiniteSet(mem'[q].seeds)
  <2>1. mem' \in [Runs -> Memories] /\ \A q \in Runs : IsFiniteSet(mem'[q].seeds)
    BY <1>t, <1>p, Remembers
  <2>2. MemOK(mem[r])'
    BY <2>1 DEF MemOK
  <2>3. QED
    BY <1>p, <2>1, <2>2, Persists
<1>e. ASSUME NEW r \in Runs, NEW state \in Phases \cap Steps, EndAs(r, state)
      PROVE  /\ walk' \in Walks /\ pc' \in [Runs -> Steps] /\ lock' \subseteq Runs
             /\ mem' \in [Runs -> Memories] /\ \A q \in Runs : IsFiniteSet(mem'[q].seeds)
             /\ manifest' \in [Runs -> Manifests]
  BY <1>e, Ends, EndsAs DEF EndAs
<1>s. Ended \cup InTry \cup {"begin", "catch"} = Steps
  BY DEF Steps
<1> USE DEF bounds
<1>1. ASSUME NEW r \in Runs, RunCapture(r) PROVE TypeOK'
  BY <1>1, <1>t, <1>g, <1>s DEF RunCapture, TypeOK
<1>2. ASSUME NEW r \in Runs, ResumeCapture(r) PROVE TypeOK'
  <2>1. Promoted \subseteq Flows
    BY <1>t DEF Promoted, Bundles
  <2>2. MemOK([Fresh EXCEPT !.carried = Promoted])
    BY <2>1, FreshOK DEF MemOK, Memories
  <2>3. mem' = mem \/ \E m : MemOK(m) /\ Remember(r, m)
    BY <1>2, <2>2 DEF ResumeCapture
  <2>4. mem' \in [Runs -> Memories] /\ \A q \in Runs : IsFiniteSet(mem'[q].seeds)
    BY <1>t, <2>3, Remembers
  <2>5. pc' \in [Runs -> Steps]
    <3>1. \E step \in {"refused", "completed", "completed_with_warnings", "begin"} : Goto(r, step)
      BY <1>2 DEF ResumeCapture
    <3>2. QED
      BY <1>g, <3>1 DEF Steps, Ended
  <2>6. QED
    BY <1>2, <1>t, <2>4, <2>5 DEF ResumeCapture, TypeOK
<1>3. ASSUME NEW r \in Runs, Begin(r) PROVE TypeOK'
  <2>1. \E step \in {"connect", "failed"}, phase \in {"queued", "failed"} : Goto(r, step) /\ Persist(r, phase)
    BY <1>3 DEF Begin
  <2>2. mem' = mem /\ lock' \subseteq Runs
    BY <1>3, <1>t DEF Begin
  <2>3. pc' \in [Runs -> Steps] /\ manifest' \in [Runs -> Manifests]
    BY <1>g, <1>p, <2>1, <2>2 DEF Steps, Ended, InTry, Phases
  <2>4. QED
    BY <1>3, <1>t, <2>2, <2>3 DEF Begin, TypeOK
<1>4. ASSUME NEW r \in Runs, Connect(r) PROVE TypeOK'
  <2>1. CASE EndAs(r, "failed")
    BY <1>4, <1>t, <1>e, <2>1 DEF Connect, TypeOK, Phases, Steps, Ended
  <2>2. CASE UNCHANGED <<mem, lock, walk>> /\ Persist(r, "discovering") /\ Goto(r, "discover")
    <3>1. manifest' \in [Runs -> Manifests] /\ pc' \in [Runs -> Steps]
      BY <1>g, <1>p, <2>2 DEF Phases, Steps, InTry
    <3>2. QED
      BY <1>4, <1>t, <2>2, <3>1 DEF Connect, TypeOK
  <2>3. QED
    BY <1>4, <2>1, <2>2 DEF Connect
<1>5. ASSUME NEW r \in Runs, Discover(r) PROVE TypeOK'
  <2>1. CASE EndAs(r, "failed")
    BY <1>5, <1>t, <1>e, <2>1 DEF Discover, TypeOK, Phases, Steps, Ended
  <2>2. CASE ~EndAs(r, "failed")
    <3>1. PICK found \in SUBSET Flows :
            Remember(r, [mem[r] EXCEPT !.todo = found, !.total = Cardinality(found),
                                       !.queued = Cardinality(found)])
      BY <1>5, <2>2 DEF Discover
    <3>2. Cardinality(found) \in Int
      BY CaptureAssumption, FS_Subset, FS_CardinalityType
    <3>3. MemOK([mem[r] EXCEPT !.todo = found, !.total = Cardinality(found), !.queued = Cardinality(found)])
      BY <1>m, <3>2 DEF MemOK, Memories
    <3>4. Persist(r, "discovering") /\ Goto(r, "stage") /\ UNCHANGED <<lock, walk>>
      BY <1>5, <2>2 DEF Discover
    <3>5. /\ manifest' \in [Runs -> Manifests] /\ pc' \in [Runs -> Steps]
          /\ mem' \in [Runs -> Memories] /\ \A q \in Runs : IsFiniteSet(mem'[q].seeds)
      BY <1>g, <1>p, <3>1, <3>3, <3>4 DEF Phases, Steps, InTry
    <3>6. QED
      BY <1>5, <1>t, <3>4, <3>5 DEF Discover, TypeOK
  <2>3. QED
    BY <2>1, <2>2
<1>6. ASSUME NEW r \in Runs, CreateStaging(r) PROVE TypeOK'
  <2>1. MemOK([mem[r] EXCEPT !.leftover = staging[r] # {}])
    <3>1. (staging[r] # {}) \in BOOLEAN
      OBVIOUS
    <3>2. QED
      BY <1>m, <3>1, Zenon DEF MemOK, Memories
  <2>2. Remember(r, [mem[r] EXCEPT !.leftover = staging[r] # {}])
    BY <1>6 DEF CreateStaging
  <2>3. /\ manifest' \in [Runs -> Manifests] /\ pc' \in [Runs -> Steps]
        /\ mem' \in [Runs -> Memories] /\ \A q \in Runs : IsFiniteSet(mem'[q].seeds)
    BY <1>6, <1>g, <1>p, <2>1, <2>2 DEF CreateStaging, Phases, Steps, InTry
  <2>4. QED
    BY <1>6, <1>t, <2>3 DEF CreateStaging, TypeOK
<1>7. ASSUME NEW r \in Runs, Fetch(r) PROVE TypeOK'
  <2>1. /\ \E m : MemOK(m) /\ Remember(r, m)
        /\ staging' \in [Runs -> SUBSET Flows] /\ Persist(r, "fetching_definitions")
        /\ UNCHANGED <<walk, pc, bundle, lock, crashes, resumes>> /\ faults' \in Nat
    BY <1>7, FetchTyped
  <2>2. /\ manifest' \in [Runs -> Manifests]
        /\ mem' \in [Runs -> Memories] /\ \A q \in Runs : IsFiniteSet(mem'[q].seeds)
    BY <1>p, <2>1 DEF Phases
  <2>3. QED
    BY <1>t, <2>1, <2>2 DEF TypeOK
<1>8. ASSUME NEW r \in Runs, BeginWalk(r) PROVE TypeOK'
  <2>1. walk' \in Walks
    BY <1>8, BeginWalkOK
  <2>2. manifest' \in [Runs -> Manifests] /\ pc' \in [Runs -> Steps]
    BY <1>8, <1>g, <1>p DEF BeginWalk, Phases, Steps, InTry
  <2>3. QED
    BY <1>8, <1>t, <2>1, <2>2 DEF BeginWalk, TypeOK
<1>9. ASSUME NEW r \in Runs, Walk(r) PROVE TypeOK'
  <2>1. WalkInv'
    BY <1>9, FilterKeeps, CutKeeps, ResolveKeeps, TurnKeeps DEF Walk, At, Walked, WalkedRun, WalkNext
  <2>2. QED
    BY <1>9, <1>t, <2>1 DEF Walk, TypeOK, WalkInv
<1>10. ASSUME NEW r \in Runs, EndWalk(r) PROVE TypeOK'
  <2>1. CASE Mode = "migration"
    <3>1. (mem[r].degraded \/ walk.truncated) \in BOOLEAN
      OBVIOUS
    <3>2. MemOK([mem[r] EXCEPT !.degraded = @ \/ walk.truncated])
      BY <1>m, <3>1, Zenon DEF MemOK, Memories
    <3>3. /\ Remember(r, [mem[r] EXCEPT !.degraded = @ \/ walk.truncated])
          /\ Persist(r, "downloading_assets") /\ Goto(r, "assets") /\ UNCHANGED walk
      BY <1>10, <2>1 DEF EndWalk
    <3>4. /\ manifest' \in [Runs -> Manifests] /\ pc' \in [Runs -> Steps]
          /\ mem' \in [Runs -> Memories] /\ \A q \in Runs : IsFiniteSet(mem'[q].seeds)
      BY <1>g, <1>p, <3>2, <3>3 DEF Phases, Steps, InTry
    <3>5. QED
      BY <1>10, <1>t, <3>3, <3>4 DEF EndWalk, TypeOK
  <2>2. CASE Mode # "migration"
    <3>1. /\ walk' = [walk EXCEPT !.truncated = FALSE] /\ UNCHANGED mem
          /\ Persist(r, "sealing") /\ Goto(r, "seal")
      BY <1>10, <2>2 DEF EndWalk
    <3>2. walk' \in Walks
      BY <1>t, <3>1 DEF Walks
    <3>3. manifest' \in [Runs -> Manifests] /\ pc' \in [Runs -> Steps]
      BY <1>g, <1>p, <3>1 DEF Phases, Steps, InTry
    <3>4. QED
      BY <1>10, <1>t, <3>1, <3>2, <3>3 DEF EndWalk, TypeOK
  <2>3. QED
    BY <2>1, <2>2
<1>11. ASSUME NEW r \in Runs, WriteResources(r) PROVE TypeOK'
  <2>0. walk.nodes \cap Readable \in SUBSET Keys
    BY <1>t DEF Walks
  <2>1. MemOK([mem[r] EXCEPT !.resources = walk.nodes \cap Readable])
    BY <1>m, <2>0 DEF MemOK, Memories
  <2>2. /\ manifest' \in [Runs -> Manifests] /\ pc' \in [Runs -> Steps]
        /\ mem' \in [Runs -> Memories] /\ \A q \in Runs : IsFiniteSet(mem'[q].seeds)
    BY <1>11, <1>g, <1>p, <2>1 DEF WriteResources, Phases, Steps, InTry
  <2>3. QED
    BY <1>11, <1>t, <2>2 DEF WriteResources, TypeOK
<1>12. ASSUME NEW r \in Runs, Promote(r) PROVE TypeOK'
  <2>1. mem[r] \in Memories
    BY <1>t
  <2>2. {res[2] : res \in mem[r].results} \in SUBSET Statuses
    BY <2>1 DEF Memories
  <2>3. Ready(mem[r]) \in BOOLEAN
    BY DEF Ready
  <2>4. bundle' \in Bundles
    BY <1>12, <1>t, <2>1, <2>2, <2>3, Zenon DEF Promote, Bundles, Memories, Walks
  <2>5. pc' \in [Runs -> Steps] /\ staging' \in [Runs -> SUBSET Flows]
    BY <1>12, <1>t, <1>g DEF Promote, Steps, InTry
  <2>6. QED
    BY <1>12, <1>t, <2>4, <2>5 DEF Promote, TypeOK
<1>13. ASSUME NEW r \in Runs, Finish(r) PROVE TypeOK'
  <2>1. \E state \in {"completed_with_warnings", "completed"} : EndAs(r, state)
    BY <1>13 DEF Finish
  <2>2. QED
    BY <1>13, <1>t, <1>e, <2>1 DEF Finish, TypeOK, Phases, Steps, Ended
<1>14. ASSUME NEW r \in Runs, Catch(r) PROVE TypeOK'
  <2>1. staging' \in [Runs -> SUBSET Flows]
    BY <1>14, <1>t DEF Catch
  <2>2. QED
    BY <1>14, <1>t, <1>e, <2>1 DEF Catch, TypeOK, Phases, Steps, Ended
<1>15. ASSUME NEW r \in Runs, Throw(r) PROVE TypeOK'
  BY <1>15, <1>t, <1>g, <1>s DEF Throw, Fault, TypeOK
<1>16. ASSUME NEW r \in Runs, CatchThrows(r) PROVE TypeOK'
  <2>1. staging' \in [Runs -> SUBSET Flows] /\ faults' \in Nat
    BY <1>16, <1>t DEF CatchThrows, Fault
  <2>2. /\ walk' \in Walks /\ pc' \in [Runs -> Steps] /\ lock' \subseteq Runs
        /\ mem' \in [Runs -> Memories] /\ \A q \in Runs : IsFiniteSet(mem'[q].seeds)
    BY <1>16, Ends DEF CatchThrows, Steps, Ended
  <2>3. QED
    BY <1>16, <1>t, <2>1, <2>2 DEF CatchThrows, TypeOK
<1>17. ASSUME NEW r \in Runs, Crash(r) PROVE TypeOK'
  <2>1. mem' \in [Runs -> Memories] /\ \A q \in Runs : IsFiniteSet(mem'[q].seeds)
    BY <1>17, FreshOK, Remembers DEF Crash
  <2>2. manifest' \in [Runs -> Manifests]
    BY <1>17, <1>t, TornOK DEF Crash
  <2>3. pc' \in [Runs -> Steps] /\ crashes' \in Nat /\ walk' \in Walks
    BY <1>17, <1>t, <1>g, NoWalkOK DEF Crash, Steps, Ended
  <2>4. QED
    BY <1>17, <1>t, <2>1, <2>2, <2>3 DEF Crash, TypeOK
<1>18. ASSUME NEW r \in Runs, LockReclaimed(r) PROVE TypeOK'
  BY <1>18, <1>t DEF LockReclaimed, Release, TypeOK
<1>19. CASE UNCHANGED vars
  BY <1>19, <1>t DEF vars, TypeOK
<1>20. QED
  BY <1>1, <1>2, <1>3, <1>4, <1>5, <1>6, <1>7, <1>8, <1>9, <1>10, <1>11, <1>12, <1>13, <1>14, <1>15,
     <1>16, <1>17, <1>18, <1>19 DEF Next, Step

-----------------------------------------------------------------------------
(* What a step of one run does to the others, and to what it knows *)

Running == InTry \cup {"catch"}

\* A run that is under way holds the lock, and nobody else does.
Exclusive == \A r \in Runs : pc[r] \in Running => lock = {r}

\* So no two runs are under way, and only the steps of one that is change the walk.
LEMMA ExclusiveStep == TypeOK /\ Exclusive /\ [Next]_vars => Exclusive'
<1> SUFFICES ASSUME TypeOK, Exclusive, [Next]_vars PROVE Exclusive'
  OBVIOUS
<1>t. pc \in [Runs -> Steps] /\ lock \subseteq Runs
  BY DEF TypeOK
<1> USE DEF Exclusive, Running, InTry, Ended, At, Goto, bounds
<1>1. ASSUME NEW r \in Runs, RunCapture(r) PROVE Exclusive'
  BY <1>1, <1>t DEF RunCapture
<1>2. ASSUME NEW r \in Runs, ResumeCapture(r) PROVE Exclusive'
  BY <1>2, <1>t DEF ResumeCapture
<1>3. ASSUME NEW r \in Runs, Begin(r) PROVE Exclusive'
  BY <1>3, <1>t DEF Begin
<1>4. ASSUME NEW r \in Runs, Connect(r) PROVE Exclusive'
  BY <1>4, <1>t DEF Connect, Release, EndAs, End
<1>5. ASSUME NEW r \in Runs, Discover(r) PROVE Exclusive'
  BY <1>5, <1>t DEF Discover, Release, EndAs, End
<1>6. ASSUME NEW r \in Runs, CreateStaging(r) PROVE Exclusive'
  BY <1>6, <1>t DEF CreateStaging
<1>7. ASSUME NEW r \in Runs, Fetch(r) PROVE Exclusive'
  BY <1>7, <1>t DEF Fetch, CarryFlow, LoadFlow, LoadFails, ReferencesFail, WriteFails, Loadable
<1>8. ASSUME NEW r \in Runs, BeginWalk(r) PROVE Exclusive'
  BY <1>8, <1>t DEF BeginWalk
<1>9. ASSUME NEW r \in Runs, Walk(r) PROVE Exclusive'
  BY <1>9, <1>t DEF Walk
<1>10. ASSUME NEW r \in Runs, EndWalk(r) PROVE Exclusive'
  BY <1>10, <1>t DEF EndWalk
<1>11. ASSUME NEW r \in Runs, WriteResources(r) PROVE Exclusive'
  BY <1>11, <1>t DEF WriteResources
<1>12. ASSUME NEW r \in Runs, Promote(r) PROVE Exclusive'
  BY <1>12, <1>t DEF Promote
<1>13. ASSUME NEW r \in Runs, Finish(r) PROVE Exclusive'
  BY <1>13, <1>t DEF Finish, Release, EndAs, End
<1>14. ASSUME NEW r \in Runs, Catch(r) PROVE Exclusive'
  BY <1>14, <1>t DEF Catch, Release, EndAs, End
<1>15. ASSUME NEW r \in Runs, Throw(r) PROVE Exclusive'
  BY <1>15, <1>t DEF Throw
<1>16. ASSUME NEW r \in Runs, CatchThrows(r) PROVE Exclusive'
  BY <1>16, <1>t DEF CatchThrows, Release, End
<1>17. ASSUME NEW r \in Runs, Crash(r) PROVE Exclusive'
  BY <1>17, <1>t DEF Crash
<1>18. ASSUME NEW r \in Runs, LockReclaimed(r) PROVE Exclusive'
  BY <1>18, <1>t DEF LockReclaimed, Release
<1>19. CASE UNCHANGED vars
  BY <1>19, <1>t DEF vars
<1>20. QED
  BY <1>1, <1>2, <1>3, <1>4, <1>5, <1>6, <1>7, <1>8, <1>9, <1>10, <1>11, <1>12, <1>13, <1>14, <1>15,
     <1>16, <1>17, <1>18, <1>19 DEF Next, Step

Act(r) == \/ RunCapture(r) \/ ResumeCapture(r) \/ Step(r)
          \/ Throw(r) \/ CatchThrows(r) \/ Crash(r) \/ LockReclaimed(r)

\* A step of one run leaves the place, the memory and the staged files of every
\* other alone, and their walk as well.
LEMMA OthersUntouched ==
  ASSUME TypeOK, Exclusive, NEW r \in Runs, Act(r), NEW q \in Runs \ {r}
  PROVE  /\ pc'[q] = pc[q] /\ mem'[q] = mem[q] /\ staging'[q] = staging[q]
         /\ pc[q] \in Running => walk' = walk
<1>t. /\ pc \in [Runs -> Steps] /\ mem \in [Runs -> Memories] /\ staging \in [Runs -> SUBSET Flows]
      /\ pc[q] \in Running => pc[r] \notin Running
  BY DEF TypeOK, Exclusive
<1> USE DEF Goto, At, Remember, End, EndAs, WriteFlow, bounds
<1>1. pc'[q] = pc[q]
  BY <1>t DEF Act, Step, RunCapture, ResumeCapture, Begin, Connect, Discover, CreateStaging, Fetch, BeginWalk, Walk, EndWalk, WriteResources, Promote, Finish, Catch, Throw, CatchThrows, Crash, LockReclaimed, CarryFlow, LoadFlow, LoadFails, ReferencesFail, WriteFails, Loadable
<1>2. mem'[q] = mem[q]
  BY <1>t DEF Act, Step, RunCapture, ResumeCapture, Begin, Connect, Discover, CreateStaging, Fetch, BeginWalk, Walk, EndWalk, WriteResources, Promote, Finish, Catch, Throw, CatchThrows, Crash, LockReclaimed, CarryFlow, LoadFlow, LoadFails, ReferencesFail, WriteFails, Loadable
<1>3. staging'[q] = staging[q]
  BY <1>t DEF Act, Step, RunCapture, ResumeCapture, Begin, Connect, Discover, CreateStaging, Fetch, BeginWalk, Walk, EndWalk, WriteResources, Promote, Finish, Catch, Throw, CatchThrows, Crash, LockReclaimed, CarryFlow, LoadFlow, LoadFails, ReferencesFail, WriteFails, Loadable
<1>4. pc[q] \in Running => walk' = walk
  BY <1>t DEF Running, InTry, Act, Step, RunCapture, ResumeCapture, Begin, Connect, Discover, CreateStaging, Fetch, BeginWalk, Walk, EndWalk, WriteResources, Promote, Finish, Catch, Throw, CatchThrows, Crash, LockReclaimed, CarryFlow, LoadFlow, LoadFails, ReferencesFail, WriteFails, Loadable
<1>5. QED
  BY <1>1, <1>2, <1>3, <1>4

\* What a turn of the fetch loop adds for its flow.
LEMMA FetchAdds ==
  ASSUME TypeOK, NEW r \in Runs, Fetch(r)
  PROVE  \E f \in Flows :
           LET m == mem[r]
               n == mem'[r]
               both == n.written = m.written \cup {f} /\ staging'[r] = staging[r] \cup {f}
           IN  /\ n.leftover = m.leftover
               /\ \/ both /\ n.seeds = m.seeds \cup Elems(Refs[f]) /\ n.results = m.results \cup {<<f, "completed">>}
                  \/ both /\ n.seeds = m.seeds /\ n.results = m.results \cup {<<f, "skipped">>}
                  \/ n.seeds = m.seeds /\ <<f, "failed">> \in n.results
<1> DEFINE m == mem[r]
<1>1. PICK f \in Flows : \/ CarryFlow(r, f) \/ LoadFlow(r, f) \/ LoadFails(r, f)
                         \/ ReferencesFail(r, f) \/ WriteFails(r, f)
  BY DEF Fetch
<1>2. MemOK(m) /\ staging \in [Runs -> SUBSET Flows] /\ mem \in [Runs -> Memories]
  BY DEF TypeOK, MemOK
<1>3. ASSUME NEW n, Remember(r, n) PROVE mem'[r] = n
  BY <1>2, <1>3 DEF Remember
<1>4. {"completed", "skipped", "failed"} = Statuses
  BY DEF Statuses
<1>5. ASSUME NEW status \in Statuses
      PROVE  LET n == Counted(m, f, status)
             IN  /\ MemOK(n) /\ n.results = m.results \cup {<<f, status>>}
                 /\ n.written = m.written /\ n.seeds = m.seeds /\ n.leftover = m.leftover
  BY <1>2, CountedOK
<1>6. WriteFlow(r, f) => staging'[r] = staging[r] \cup {f}
  BY <1>2 DEF WriteFlow
<1>7. CASE CarryFlow(r, f)
  <2> DEFINE k == Counted(m, f, "skipped")
             n == [k EXCEPT !.written = @ \cup {f}]
  <2>1. mem'[r] = n /\ staging'[r] = staging[r] \cup {f}
    BY <1>3, <1>6, <1>7 DEF CarryFlow
  <2>2. /\ n.written = k.written \cup {f} /\ n.results = k.results
        /\ n.seeds = k.seeds /\ n.leftover = k.leftover
    BY <1>4, <1>5, WrittenOK
  <2>3. QED
    BY <1>4, <1>5, <2>1, <2>2
<1>8. CASE LoadFlow(r, f)
  <2> DEFINE k == Counted(m, f, "completed")
             n == [k EXCEPT !.written = @ \cup {f}, !.seeds = @ \cup Elems(Refs[f])]
  <2>1. mem'[r] = n /\ staging'[r] = staging[r] \cup {f}
    BY <1>3, <1>6, <1>8 DEF LoadFlow
  <2>0. MemOK(k)
    BY <1>4, <1>5
  <2>2. /\ n.written = k.written \cup {f} /\ n.results = k.results
        /\ n.seeds = k.seeds \cup Elems(Refs[f]) /\ n.leftover = k.leftover
    BY <2>0, LoadedOK
  <2>3. QED
    BY <1>4, <1>5, <2>1, <2>2
<1>9. CASE LoadFails(r, f)
  BY <1>3, <1>4, <1>5, <1>9 DEF LoadFails
<1>10. CASE ReferencesFail(r, f)
  <2> DEFINE k == Counted(m, f, "completed")
             l == Counted(k, f, "failed")
             n == [l EXCEPT !.written = @ \cup {f}]
  <2>1. mem'[r] = n
    BY <1>3, <1>10 DEF ReferencesFail
  <2>2. MemOK(k) /\ k.seeds = m.seeds /\ k.leftover = m.leftover
    BY <1>4, <1>5
  <2>3. MemOK(l) /\ l.results = k.results \cup {<<f, "failed">>} /\ l.seeds = k.seeds /\ l.leftover = k.leftover
    BY <1>4, <2>2, CountedOK
  <2>4. n.results = l.results /\ n.seeds = l.seeds /\ n.leftover = l.leftover
    BY <2>3, WrittenOK
  <2>5. QED
    BY <2>1, <2>2, <2>3, <2>4
<1>11. CASE WriteFails(r, f)
  <2> DEFINE k == Counted(m, f, "failed")
             n == [k EXCEPT !.written = @ \cup {f}]
  <2>1. mem'[r] = n
    BY <1>3, <1>11 DEF WriteFails
  <2>2. n.results = k.results /\ n.seeds = k.seeds /\ n.leftover = k.leftover
    BY <1>4, <1>5, WrittenOK
  <2>3. QED
    BY <1>4, <1>5, <2>1, <2>2
<1>12. QED
  BY <1>1, <1>7, <1>8, <1>9, <1>10, <1>11

\* The counters of faults and crashes only grow.
LEMMA CountersGrow ==
  ASSUME TypeOK, NEW r \in Runs, Act(r)
  PROVE  faults' \in Nat /\ crashes' \in Nat /\ faults' >= faults /\ crashes' >= crashes
<1>1. faults \in Nat /\ crashes \in Nat
  BY DEF TypeOK
<1> DEFINE Grow == (faults' = faults \/ faults' = faults + 1) /\ (crashes' = crashes \/ crashes' = crashes + 1)
<1>2. RunCapture(r) \/ ResumeCapture(r) \/ Throw(r) \/ CatchThrows(r) \/ Crash(r) \/ LockReclaimed(r) => Grow
  BY DEF RunCapture, ResumeCapture, Throw, CatchThrows, Crash, LockReclaimed, Fault, bounds
<1>3. Begin(r) \/ Connect(r) \/ Discover(r) \/ CreateStaging(r) \/ BeginWalk(r) => Grow
  BY DEF Begin, Connect, Discover, CreateStaging, BeginWalk, bounds
<1>4. Walk(r) \/ EndWalk(r) \/ WriteResources(r) \/ Promote(r) \/ Finish(r) \/ Catch(r) => Grow
  BY DEF Walk, EndWalk, WriteResources, Promote, Finish, Catch, bounds
<1>5. Fetch(r) => Grow
  BY DEF Fetch, CarryFlow, LoadFlow, LoadFails, ReferencesFail, WriteFails, Fault, bounds
<1>6. Grow
  BY <1>2, <1>3, <1>4, <1>5 DEF Act, Step
<1>7. QED
  BY <1>1, <1>6

SameFlows(r) ==
  /\ mem'[r].written = mem[r].written /\ mem'[r].seeds = mem[r].seeds /\ mem'[r].results = mem[r].results

\* The steps before and after the fetch loop leave what a run knows of its flows
\* alone, and a run that ends forgets it.
LEMMA MemoryEffects ==
  ASSUME TypeOK, NEW r \in Runs
  PROVE  /\ Discover(r) => EndAs(r, "failed") \/ (SameFlows(r) /\ mem'[r].leftover = mem[r].leftover)
         /\ CreateStaging(r) => SameFlows(r) /\ mem'[r].leftover = (staging[r] # {})
         /\ EndWalk(r) => SameFlows(r) /\ mem'[r].leftover = mem[r].leftover
         /\ WriteResources(r) =>
              /\ SameFlows(r) /\ mem'[r].leftover = mem[r].leftover
              /\ mem'[r].resources = walk.nodes \cap Readable
         /\ \A how : End(r, how) => mem'[r] = Fresh
         /\ ResumeCapture(r) /\ mem' # mem => mem'[r] = [Fresh EXCEPT !.carried = Promoted]
<1>1. mem \in [Runs -> Memories]
  BY DEF TypeOK
<1>2. ASSUME NEW n, Remember(r, n) PROVE mem'[r] = n
  BY <1>1, <1>2 DEF Remember
<1>3. mem[r] \in Memories
  BY <1>1
<1>4. ASSUME Discover(r), ~EndAs(r, "failed")
      PROVE  SameFlows(r) /\ mem'[r].leftover = mem[r].leftover
  <2>1. PICK found \in SUBSET Flows :
          mem'[r] = [mem[r] EXCEPT !.todo = found, !.total = Cardinality(found), !.queued = Cardinality(found)]
    BY <1>2, <1>4 DEF Discover
  <2>2. QED
    BY <1>3, <2>1 DEF SameFlows, Memories
<1>5. CreateStaging(r) => SameFlows(r) /\ mem'[r].leftover = (staging[r] # {})
  <2> SUFFICES ASSUME CreateStaging(r) PROVE SameFlows(r) /\ mem'[r].leftover = (staging[r] # {})
    OBVIOUS
  <2>1. mem'[r] = [mem[r] EXCEPT !.leftover = (staging[r] # {})]
    BY <1>2 DEF CreateStaging
  <2>2. QED
    BY <1>3, <2>1 DEF SameFlows, Memories
<1>6. EndWalk(r) => SameFlows(r) /\ mem'[r].leftover = mem[r].leftover
  <2> SUFFICES ASSUME EndWalk(r) PROVE SameFlows(r) /\ mem'[r].leftover = mem[r].leftover
    OBVIOUS
  <2>1. mem' = mem \/ mem'[r] = [mem[r] EXCEPT !.degraded = @ \/ walk.truncated]
    BY <1>2 DEF EndWalk
  <2>2. QED
    BY <1>3, <2>1 DEF SameFlows, Memories
<1>7. WriteResources(r) =>
        /\ SameFlows(r) /\ mem'[r].leftover = mem[r].leftover
        /\ mem'[r].resources = walk.nodes \cap Readable
  BY <1>2, <1>3 DEF WriteResources, SameFlows, Memories
<1>8. QED
  BY <1>2, <1>4, <1>5, <1>6, <1>7 DEF End, ResumeCapture

-----------------------------------------------------------------------------
(* What attempts leave behind *)

Dirty == crashes > 0 \/ faults > 1

\* Files are left in a staging directory only by a process that died, or that
\* failed once more while it cleaned up after a failure.
SweptRun(r) ==
  /\ pc[r] = "catch" => faults > 0
  /\ staging[r] # {} => pc[r] \in {"fetch", "walk", "assets", "seal", "catch"} \/ Dirty
  /\ mem[r].leftover => Dirty
Swept == (\A r \in Runs : SweptRun(r)) /\ (bundle.leftover => Dirty)

\* No step but a crash and a second failure leaves files behind.
LEMMA SweptStep == TypeOK /\ Exclusive /\ Swept /\ [Next]_vars => Swept'
<1> SUFFICES ASSUME TypeOK, Exclusive, Swept, [Next]_vars PROVE Swept'
  OBVIOUS
<1>t. /\ pc \in [Runs -> Steps] /\ mem \in [Runs -> Memories] /\ staging \in [Runs -> SUBSET Flows]
      /\ faults \in Nat /\ crashes \in Nat
  BY DEF TypeOK
<1>s. ASSUME NEW r \in Runs, Act(r), SweptRun(r)', bundle'.leftover => Dirty' PROVE Swept'
  <2>1. Dirty => Dirty'
    BY <1>s, <1>t, CountersGrow DEF Dirty
  <2>2. faults > 0 => faults' > 0
    BY <1>s, <1>t, CountersGrow
  <2>3. ASSUME NEW q \in Runs \ {r} PROVE SweptRun(q)'
    <3>1. pc'[q] = pc[q] /\ mem'[q] = mem[q] /\ staging'[q] = staging[q]
      BY <1>s, OthersUntouched
    <3>2. QED
      BY <2>1, <2>2, <3>1 DEF Swept, SweptRun
  <2>4. QED
    BY <1>s, <2>3 DEF Swept
<1>f. ~Fresh.leftover /\ ~[Fresh EXCEPT !.carried = Promoted].leftover
  BY DEF Fresh
<1> DEFINE Goal(r) == SweptRun(r)' /\ (bundle'.leftover => Dirty')
<1>p. \A r \in Runs : SweptRun(r) /\ (bundle.leftover => Dirty)
  BY DEF Swept
<1> USE DEF SweptRun, Dirty, Goto, At, Fault, Ended, InTry, bounds
<1>1. ASSUME NEW r \in Runs, RunCapture(r) PROVE Goal(r)
  BY <1>1, <1>t, <1>f, <1>p DEF RunCapture
<1>2. ASSUME NEW r \in Runs, ResumeCapture(r) PROVE Goal(r)
  <2>1. mem'[r].leftover => mem[r].leftover
    BY <1>2, <1>f, MemoryEffects
  <2>2. /\ pc[r] \in Ended \ {"idle"} /\ pc'[r] # "catch" /\ staging' = staging
        /\ bundle' = bundle /\ faults' = faults /\ crashes' = crashes
    BY <1>2, <1>t DEF ResumeCapture
  <2>3. QED
    BY <1>p, <2>1, <2>2
<1>3. ASSUME NEW r \in Runs, Begin(r) PROVE Goal(r)
  BY <1>3, <1>t, <1>f, <1>p DEF Begin
<1>4. ASSUME NEW r \in Runs, Connect(r) PROVE Goal(r)
  BY <1>4, <1>t, <1>f, <1>p, MemoryEffects DEF Connect, EndAs, End
<1>5. ASSUME NEW r \in Runs, Discover(r) PROVE Goal(r)
  BY <1>5, <1>t, <1>f, <1>p, MemoryEffects DEF Discover, EndAs, End
<1>6. ASSUME NEW r \in Runs, CreateStaging(r) PROVE Goal(r)
  BY <1>6, <1>t, <1>f, <1>p, MemoryEffects DEF CreateStaging
<1>7. ASSUME NEW r \in Runs, Fetch(r) PROVE Goal(r)
  <2>1. mem'[r].leftover = mem[r].leftover
    BY <1>7, FetchAdds
  <2>2. pc[r] = "fetch" /\ pc' = pc /\ bundle' = bundle
    BY <1>7 DEF Fetch, CarryFlow, LoadFlow, LoadFails, ReferencesFail, WriteFails, Loadable
  <2>3. Dirty => Dirty'
    BY <1>7, <1>t, CountersGrow DEF Act, Step
  <2>4. QED
    BY <1>p, <2>1, <2>2, <2>3
<1>8. ASSUME NEW r \in Runs, BeginWalk(r) PROVE Goal(r)
  BY <1>8, <1>t, <1>f, <1>p DEF BeginWalk
<1>9. ASSUME NEW r \in Runs, Walk(r) PROVE Goal(r)
  BY <1>9, <1>t, <1>f, <1>p DEF Walk
<1>10. ASSUME NEW r \in Runs, EndWalk(r) PROVE Goal(r)
  BY <1>10, <1>t, <1>f, <1>p, MemoryEffects DEF EndWalk
<1>11. ASSUME NEW r \in Runs, WriteResources(r) PROVE Goal(r)
  BY <1>11, <1>t, <1>f, <1>p, MemoryEffects DEF WriteResources
<1>12. ASSUME NEW r \in Runs, Promote(r) PROVE Goal(r)
  BY <1>12, <1>t, <1>f, <1>p DEF Promote
<1>13. ASSUME NEW r \in Runs, Finish(r) PROVE Goal(r)
  BY <1>13, <1>t, <1>f, <1>p, MemoryEffects DEF Finish, EndAs, End
<1>14. ASSUME NEW r \in Runs, Catch(r) PROVE Goal(r)
  BY <1>14, <1>t, <1>f, <1>p, MemoryEffects DEF Catch, EndAs, End
<1>15. ASSUME NEW r \in Runs, Throw(r) PROVE Goal(r)
  BY <1>15, <1>t, <1>f, <1>p DEF Throw
<1>16. ASSUME NEW r \in Runs, CatchThrows(r) PROVE Goal(r)
  BY <1>16, <1>t, <1>f, <1>p, MemoryEffects DEF CatchThrows, End
<1>17. ASSUME NEW r \in Runs, Crash(r) PROVE Goal(r)
  BY <1>17, <1>t, <1>f, <1>p, MemoryEffects DEF Crash, Remember
<1>18. ASSUME NEW r \in Runs, LockReclaimed(r) PROVE Goal(r)
  BY <1>18, <1>t, <1>f, <1>p DEF LockReclaimed
<1>19. CASE UNCHANGED vars
  BY <1>19, <1>t, <1>f, <1>p DEF vars, Swept
<1>20. ASSUME NEW r \in Runs, Act(r) PROVE Goal(r)
  BY <1>20, <1>1, <1>2, <1>3, <1>4, <1>5, <1>6, <1>7, <1>8, <1>9, <1>10, <1>11, <1>12, <1>13, <1>14, <1>15,
     <1>16, <1>17, <1>18 DEF Act, Step
<1>21. QED
  BY <1>s, <1>19, <1>20 DEF Next, Act

-----------------------------------------------------------------------------
(* A bundle is what its seal says *)

Reported(m) == \E f \in Flows : <<f, "failed">> \in m.results

\* Before the fetch loop a run has written nothing, and after it what is staged is
\* what the seal will cover, unless something was found there or a flow failed.
StagedRun(r) ==
  /\ pc[r] \in Ended \cup {"begin", "connect", "discover", "stage"} =>
       mem[r].written = {} /\ mem[r].seeds = {} /\ mem[r].results = {}
  /\ pc[r] \in {"fetch", "walk", "assets", "seal"} =>
       staging[r] = mem[r].written \/ mem[r].leftover \/ Reported(mem[r])
Sealed == bundle.files # bundle.sealed => bundle.leftover \/ "failed" \in bundle.statuses
Staged == (\A r \in Runs : StagedRun(r)) /\ Sealed

\* What is staged and what will be sealed change together.
LEMMA StagedStep == TypeOK /\ Exclusive /\ Staged /\ [Next]_vars => Staged'
<1> SUFFICES ASSUME TypeOK, Exclusive, Staged, [Next]_vars PROVE Staged'
  OBVIOUS
<1>t. /\ pc \in [Runs -> Steps] /\ mem \in [Runs -> Memories] /\ staging \in [Runs -> SUBSET Flows]
  BY DEF TypeOK
<1>s. ASSUME NEW r \in Runs, Act(r), StagedRun(r)', Sealed' PROVE Staged'
  <2>1. ASSUME NEW q \in Runs \ {r} PROVE StagedRun(q)'
    <3>1. pc'[q] = pc[q] /\ mem'[q] = mem[q] /\ staging'[q] = staging[q]
      BY <1>s, OthersUntouched
    <3>2. QED
      BY <3>1 DEF Staged, StagedRun, Reported
  <2>2. QED
    BY <1>s, <2>1 DEF Staged
<1>f. /\ Fresh.written = {} /\ Fresh.seeds = {} /\ Fresh.results = {}
      /\ LET m == [Fresh EXCEPT !.carried = Promoted]
         IN  m.written = {} /\ m.seeds = {} /\ m.results = {}
  BY DEF Fresh
<1> DEFINE Goal(r) == StagedRun(r)' /\ Sealed'
<1>p. \A r \in Runs : StagedRun(r) /\ Sealed
  BY DEF Staged
<1> USE DEF StagedRun, Sealed, Goto, At, Ended, InTry, bounds
<1>1. ASSUME NEW r \in Runs, RunCapture(r) PROVE Goal(r)
  BY <1>1, <1>t, <1>f, <1>p DEF RunCapture
<1>2. ASSUME NEW r \in Runs, ResumeCapture(r) PROVE Goal(r)
  BY <1>2, <1>t, <1>f, <1>p, MemoryEffects DEF ResumeCapture
<1>3. ASSUME NEW r \in Runs, Begin(r) PROVE Goal(r)
  BY <1>3, <1>t, <1>f, <1>p DEF Begin
<1>4. ASSUME NEW r \in Runs, Connect(r) PROVE Goal(r)
  BY <1>4, <1>t, <1>f, <1>p, MemoryEffects DEF Connect, EndAs, End
<1>5. ASSUME NEW r \in Runs, Discover(r) PROVE Goal(r)
  BY <1>5, <1>t, <1>f, <1>p, MemoryEffects, ZenonT(60) DEF Discover, SameFlows, EndAs, End
<1>6. ASSUME NEW r \in Runs, CreateStaging(r) PROVE Goal(r)
  BY <1>6, <1>t, <1>f, <1>p, MemoryEffects DEF CreateStaging, SameFlows
<1>7. ASSUME NEW r \in Runs, Fetch(r) PROVE Goal(r)
  <2>1. pc[r] = "fetch" /\ pc' = pc /\ bundle' = bundle
    BY <1>7 DEF Fetch, CarryFlow, LoadFlow, LoadFails, ReferencesFail, WriteFails, Loadable
  <2>2. \/ staging'[r] = mem'[r].written \/ mem'[r].leftover
        \/ \E f \in Flows : <<f, "failed">> \in mem'[r].results
    <3>1. staging[r] = mem[r].written \/ mem[r].leftover \/ Reported(mem[r])
      BY <1>p, <2>1
    <3>2. QED
      BY <1>7, <3>1, FetchAdds DEF Reported
  <2>3. StagedRun(r)'
    BY <2>1, <2>2 DEF Reported
  <2>4. QED
    BY <1>p, <2>1, <2>3
<1>8. ASSUME NEW r \in Runs, BeginWalk(r) PROVE Goal(r)
  BY <1>8, <1>t, <1>f, <1>p DEF BeginWalk
<1>9. ASSUME NEW r \in Runs, Walk(r) PROVE Goal(r)
  BY <1>9, <1>t, <1>f, <1>p DEF Walk
<1>10. ASSUME NEW r \in Runs, EndWalk(r) PROVE Goal(r)
  <2>1. SameFlows(r) /\ mem'[r].leftover = mem[r].leftover
    BY <1>10, MemoryEffects
  <2>2. pc[r] \in {"walk", "assets"} /\ pc'[r] \in {"assets", "seal"} /\ staging' = staging /\ bundle' = bundle
    BY <1>10, <1>t DEF EndWalk
  <2>3. QED
    BY <1>p, <2>1, <2>2 DEF SameFlows, Reported
<1>11. ASSUME NEW r \in Runs, WriteResources(r) PROVE Goal(r)
  <2>1. SameFlows(r) /\ mem'[r].leftover = mem[r].leftover
    BY <1>11, MemoryEffects
  <2>2. pc[r] \in {"walk", "assets"} /\ pc'[r] \in {"assets", "seal"} /\ staging' = staging /\ bundle' = bundle
    BY <1>11, <1>t DEF WriteResources
  <2>3. QED
    BY <1>p, <2>1, <2>2 DEF SameFlows, Reported
<1>12. ASSUME NEW r \in Runs, Promote(r) PROVE Goal(r)
  <2>1. /\ bundle'.files = staging[r] /\ bundle'.sealed = mem[r].written
        /\ bundle'.leftover = mem[r].leftover /\ bundle'.statuses = {res[2] : res \in mem[r].results}
    BY <1>12 DEF Promote
  <2>2. Reported(mem[r]) => "failed" \in bundle'.statuses
    BY <2>1 DEF Reported
  <2>3. pc[r] = "seal" /\ pc'[r] = "final"
    BY <1>12, <1>t DEF Promote
  <2>4. QED
    BY <1>p, <2>1, <2>2, <2>3
<1>13. ASSUME NEW r \in Runs, Finish(r) PROVE Goal(r)
  BY <1>13, <1>t, <1>f, <1>p, MemoryEffects DEF Finish, EndAs, End
<1>14. ASSUME NEW r \in Runs, Catch(r) PROVE Goal(r)
  BY <1>14, <1>t, <1>f, <1>p, MemoryEffects DEF Catch, EndAs, End
<1>15. ASSUME NEW r \in Runs, Throw(r) PROVE Goal(r)
  BY <1>15, <1>t, <1>f, <1>p DEF Throw
<1>16. ASSUME NEW r \in Runs, CatchThrows(r) PROVE Goal(r)
  BY <1>16, <1>t, <1>f, <1>p, MemoryEffects DEF CatchThrows, End
<1>17. ASSUME NEW r \in Runs, Crash(r) PROVE Goal(r)
  BY <1>17, <1>t, <1>f, <1>p, MemoryEffects DEF Crash, Remember
<1>18. ASSUME NEW r \in Runs, LockReclaimed(r) PROVE Goal(r)
  BY <1>18, <1>t, <1>f, <1>p DEF LockReclaimed
<1>19. CASE UNCHANGED vars
  BY <1>19, <1>t, <1>f, <1>p DEF vars, Staged, Reported
<1>20. ASSUME NEW r \in Runs, Act(r) PROVE Goal(r)
  BY <1>20, <1>1, <1>2, <1>3, <1>4, <1>5, <1>6, <1>7, <1>8, <1>9, <1>10, <1>11, <1>12, <1>13, <1>14, <1>15,
     <1>16, <1>17, <1>18 DEF Act, Step
<1>21. QED
  BY <1>s, <1>19, <1>20 DEF Next, Act


-----------------------------------------------------------------------------
(* The walk of a migration starts from the flows it has loaded *)

\* A turn of the walk keeps it accountable and does not touch what it started from.
LEMMA WalkTurn ==
  ASSUME WalkInv, WalkNext
  PROVE  WalkInv' /\ walk'.seeds = walk.seeds
<1>1. walk \in Walks
  BY DEF WalkInv
<1>2. walk'.seeds = walk.seeds
  BY <1>1 DEF WalkNext, Filter, Cut, Resolve, Turn, Walks
<1>3. QED
  BY <1>2, FilterKeeps, CutKeeps, ResolveKeeps, TurnKeeps DEF WalkNext

\* Every flow a run has loaded has its references among the seeds of its walk.
LEMMA WalkedStep == TypeOK /\ Exclusive /\ Staged /\ Walked /\ [Next]_vars => Walked'
<1> SUFFICES ASSUME TypeOK, Exclusive, Staged, Walked, [Next]_vars PROVE Walked'
  OBVIOUS
<1>t. pc \in [Runs -> Steps] /\ mem \in [Runs -> Memories] /\ walk \in Walks
  BY DEF TypeOK
<1>u. walk' = walk => (WalkInv => WalkInv')
  BY DEF WalkInv, Accounted, Known
<1>s. ASSUME NEW r \in Runs, Act(r), WalkedRun(r)' PROVE Walked'
  <2>1. ASSUME NEW q \in Runs \ {r} PROVE WalkedRun(q)'
    <3>1. pc'[q] = pc[q] /\ mem'[q] = mem[q] /\ (pc[q] \in Running => walk' = walk)
      BY <1>s, OthersUntouched
    <3>2. WalkedRun(q)
      BY DEF Walked
    <3>3. QED
      BY <1>u, <3>1, <3>2 DEF WalkedRun, AllLoaded, Running, InTry
  <2>2. QED
    BY <1>s, <2>1 DEF Walked
<1> DEFINE Goal(r) == WalkedRun(r)'
<1>p. \A r \in Runs : WalkedRun(r)
  BY DEF Walked
<1>v. \A r \in Runs : pc'[r] \notin {"fetch", "walk", "assets", "seal"} => WalkedRun(r)'
  BY DEF WalkedRun
<1> USE DEF Goto, At, bounds
<1>1. ASSUME NEW r \in Runs, RunCapture(r) PROVE Goal(r)
  <2>1. pc'[r] \notin {"fetch", "walk", "assets", "seal"}
    BY <1>1, <1>t DEF RunCapture
  <2>2. QED
    BY <1>v, <2>1
<1>2. ASSUME NEW r \in Runs, ResumeCapture(r) PROVE Goal(r)
  <2>1. pc'[r] \notin {"fetch", "walk", "assets", "seal"}
    BY <1>2, <1>t DEF ResumeCapture, Ended
  <2>2. QED
    BY <1>v, <2>1
<1>3. ASSUME NEW r \in Runs, Begin(r) PROVE Goal(r)
  <2>1. pc'[r] \notin {"fetch", "walk", "assets", "seal"}
    BY <1>3, <1>t DEF Begin
  <2>2. QED
    BY <1>v, <2>1
<1>4. ASSUME NEW r \in Runs, Connect(r) PROVE Goal(r)
  <2>1. pc'[r] \notin {"fetch", "walk", "assets", "seal"}
    BY <1>4, <1>t DEF Connect, EndAs, End
  <2>2. QED
    BY <1>v, <2>1
<1>5. ASSUME NEW r \in Runs, Discover(r) PROVE Goal(r)
  <2>1. pc'[r] \notin {"fetch", "walk", "assets", "seal"}
    BY <1>5, <1>t DEF Discover, EndAs, End
  <2>2. QED
    BY <1>v, <2>1
<1>6. ASSUME NEW r \in Runs, CreateStaging(r) PROVE Goal(r)
  <2>1. mem[r].written = {} /\ SameFlows(r)
    BY <1>6, MemoryEffects DEF CreateStaging, Staged, StagedRun
  <2>2. pc'[r] = "fetch"
    BY <1>6, <1>t DEF CreateStaging
  <2>3. QED
    BY <2>1, <2>2 DEF WalkedRun, SameFlows
<1>7. ASSUME NEW r \in Runs, Fetch(r) PROVE Goal(r)
  <2>1. pc[r] = "fetch" /\ pc' = pc
    BY <1>7 DEF Fetch, CarryFlow, LoadFlow, LoadFails, ReferencesFail, WriteFails, Loadable
  <2>2. AllLoaded(mem[r]) => \A f \in mem[r].written : Elems(Refs[f]) \subseteq mem[r].seeds
    BY <1>p, <2>1 DEF WalkedRun
  <2>3. AllLoaded(mem'[r]) => \A f \in mem'[r].written : Elems(Refs[f]) \subseteq mem'[r].seeds
    <3> DEFINE m == mem[r]
               n == mem'[r]
    <3>1. PICK f \in Flows :
            \/ /\ n.written = m.written \cup {f} /\ n.seeds = m.seeds \cup Elems(Refs[f])
               /\ n.results = m.results \cup {<<f, "completed">>}
            \/ <<f, "skipped">> \in n.results \/ <<f, "failed">> \in n.results
      BY <1>7, FetchAdds
    <3> HIDE DEF m, n
    <3>2. AllLoaded(n) => <<f, "skipped">> \notin n.results /\ <<f, "failed">> \notin n.results
      BY DEF AllLoaded
    <3>3. AllLoaded(n) => AllLoaded(m) /\ n.written = m.written \cup {f} /\ n.seeds = m.seeds \cup Elems(Refs[f])
      BY <3>1, <3>2 DEF AllLoaded
    <3>4. AllLoaded(m) => \A g \in m.written : Elems(Refs[g]) \subseteq m.seeds
      BY <2>2 DEF m
    <3>5. AllLoaded(n) => \A g \in n.written : Elems(Refs[g]) \subseteq n.seeds
      BY <3>3, <3>4
    <3>6. QED
      BY <3>5 DEF n
  <2>4. QED
    BY <2>1, <2>3 DEF WalkedRun, AllLoaded
<1>8. ASSUME NEW r \in Runs, BeginWalk(r) PROVE Goal(r)
  <2>1. pc[r] = "fetch" /\ pc'[r] = "walk" /\ mem' = mem
    BY <1>8, <1>t DEF BeginWalk
  <2>2. WalkInv' /\ (Mode = "migration" => Elems(walk'.seeds) = mem[r].seeds)
    BY <1>8, BeginWalkOK
  <2>3. QED
    BY <1>p, <2>1, <2>2 DEF WalkedRun, AllLoaded
<1>9. ASSUME NEW r \in Runs, Walk(r) PROVE Goal(r)
  <2>1. pc[r] = "walk" /\ pc' = pc /\ mem' = mem /\ WalkNext
    BY <1>9 DEF Walk
  <2>2. WalkInv' /\ walk'.seeds = walk.seeds
    BY <1>p, <2>1, WalkTurn DEF WalkedRun
  <2>3. QED
    BY <1>p, <2>1, <2>2 DEF WalkedRun, AllLoaded
<1>10. ASSUME NEW r \in Runs, EndWalk(r) PROVE Goal(r)
  <2>1. SameFlows(r) /\ pc[r] = "walk" /\ walk.stage = "done"
    BY <1>10, MemoryEffects DEF EndWalk
  <2>2. CASE Mode = "migration"
    <3>1. pc'[r] = "assets" /\ walk' = walk
      BY <1>10, <1>t, <2>2 DEF EndWalk
    <3>2. QED
      BY <1>p, <1>u, <2>1, <2>2, <3>1 DEF WalkedRun, AllLoaded, SameFlows
  <2>3. CASE Mode # "migration"
    <3>1. pc'[r] = "seal"
      BY <1>10, <1>t, <2>3 DEF EndWalk
    <3>2. QED
      BY <1>p, <2>1, <2>3, <3>1 DEF WalkedRun, AllLoaded, SameFlows
  <2>4. QED
    BY <2>2, <2>3
<1>11. ASSUME NEW r \in Runs, WriteResources(r) PROVE Goal(r)
  <2>1. SameFlows(r) /\ mem'[r].resources = walk.nodes \cap Readable
    BY <1>11, MemoryEffects
  <2>2. pc[r] = "assets" /\ pc'[r] = "seal" /\ walk' = walk
    BY <1>11, <1>t DEF WriteResources
  <2>3. QED
    BY <1>p, <1>u, <2>1, <2>2 DEF WalkedRun, AllLoaded, SameFlows
<1>12. ASSUME NEW r \in Runs, Promote(r) PROVE Goal(r)
  <2>1. pc'[r] \notin {"fetch", "walk", "assets", "seal"}
    BY <1>12, <1>t DEF Promote
  <2>2. QED
    BY <1>v, <2>1
<1>13. ASSUME NEW r \in Runs, Finish(r) PROVE Goal(r)
  <2>1. pc'[r] \notin {"fetch", "walk", "assets", "seal"}
    BY <1>13, <1>t DEF Finish, EndAs, End
  <2>2. QED
    BY <1>v, <2>1
<1>14. ASSUME NEW r \in Runs, Catch(r) PROVE Goal(r)
  <2>1. pc'[r] \notin {"fetch", "walk", "assets", "seal"}
    BY <1>14, <1>t DEF Catch, EndAs, End
  <2>2. QED
    BY <1>v, <2>1
<1>15. ASSUME NEW r \in Runs, Throw(r) PROVE Goal(r)
  <2>1. pc'[r] \notin {"fetch", "walk", "assets", "seal"}
    BY <1>15, <1>t DEF Throw, InTry
  <2>2. QED
    BY <1>v, <2>1
<1>16. ASSUME NEW r \in Runs, CatchThrows(r) PROVE Goal(r)
  <2>1. pc'[r] \notin {"fetch", "walk", "assets", "seal"}
    BY <1>16, <1>t DEF CatchThrows, End
  <2>2. QED
    BY <1>v, <2>1
<1>17. ASSUME NEW r \in Runs, Crash(r) PROVE Goal(r)
  <2>1. pc'[r] \notin {"fetch", "walk", "assets", "seal"}
    BY <1>17, <1>t DEF Crash
  <2>2. QED
    BY <1>v, <2>1
<1>18. ASSUME NEW r \in Runs, LockReclaimed(r) PROVE Goal(r)
  <2>1. pc' = pc /\ mem' = mem /\ walk' = walk
    BY <1>18 DEF LockReclaimed
  <2>2. QED
    BY <1>p, <1>u, <2>1 DEF WalkedRun, AllLoaded
<1>19. CASE UNCHANGED vars
  BY <1>19, <1>t, <1>u, <1>p DEF vars, Walked, WalkedRun, AllLoaded
<1>20. ASSUME NEW r \in Runs, Act(r) PROVE Goal(r)
  BY <1>20, <1>1, <1>2, <1>3, <1>4, <1>5, <1>6, <1>7, <1>8, <1>9, <1>10, <1>11, <1>12, <1>13, <1>14, <1>15,
     <1>16, <1>17, <1>18 DEF Act, Step
<1>21. QED
  BY <1>s, <1>19, <1>20 DEF Next, Act

-----------------------------------------------------------------------------
(* The theorems *)

\* A migration that loaded its flows and read what their walk led to is closed.
LEMMA ClosedStep == TypeOK /\ Walked /\ ReadyIsClosed /\ [Next]_vars => ReadyIsClosed'
<1> SUFFICES ASSUME TypeOK, Walked, ReadyIsClosed, [Next]_vars PROVE ReadyIsClosed'
  OBVIOUS
<1>1. ASSUME bundle' = bundle PROVE ReadyIsClosed'
  BY <1>1 DEF ReadyIsClosed, ReadFor
<1>2. ASSUME NEW r \in Runs, Promote(r) PROVE ReadyIsClosed'
  <2> SUFFICES ASSUME bundle'.ready, ~bundle'.truncated, bundle'.statuses \subseteq {"completed"},
                      NEW f \in bundle'.sealed
               PROVE  /\ Elems(Refs[f]) \subseteq bundle'.resources
                      /\ \A key \in bundle'.resources : Elems(Refs[key]) \subseteq bundle'.resources
    BY DEF ReadyIsClosed, ReadFor
  <2>1. /\ bundle'.sealed = mem[r].written /\ bundle'.resources = mem[r].resources
        /\ bundle'.statuses = {res[2] : res \in mem[r].results}
        /\ bundle'.ready = Ready(mem[r]) /\ bundle'.truncated = walk.truncated /\ pc[r] = "seal"
    BY <1>2 DEF Promote, At
  <2>2. mem[r].results \subseteq Flows \X Statuses /\ mem[r].written \subseteq Flows
    BY DEF TypeOK, Memories
  <2>3. AllLoaded(mem[r])
    BY <2>1, <2>2 DEF AllLoaded
  <2>4. Mode = "migration" /\ walk.nodes \subseteq Readable
    BY <2>1 DEF Ready
  <2>5. /\ Elems(Refs[f]) \subseteq Elems(walk.seeds) /\ WalkInv /\ walk.stage = "done"
        /\ mem[r].resources = walk.nodes
    <3>1. /\ \A g \in mem[r].written : Elems(Refs[g]) \subseteq mem[r].seeds
          /\ Elems(walk.seeds) = mem[r].seeds /\ WalkInv /\ walk.stage = "done"
          /\ mem[r].resources = walk.nodes \cap Readable
      BY <2>1, <2>3, <2>4 DEF Walked, WalkedRun
    <3>2. walk.nodes \cap Readable = walk.nodes
      BY <2>4
    <3>3. QED
      BY <2>1, <3>1, <3>2
  <2>6. /\ Elems(walk.seeds) \subseteq walk.nodes
        /\ \A key \in walk.nodes \cap Readable : Elems(Refs[key]) \subseteq walk.nodes
    <3>1. Known = walk.nodes /\ Accounted
      BY <2>1, <2>5, ElemsOfEmpty DEF WalkInv, Known
    <3>2. QED
      BY <3>1 DEF Accounted
  <2>7. QED
    BY <2>1, <2>4, <2>5, <2>6
<1>3. bundle' = bundle \/ \E r \in Runs : Promote(r)
  <2>1. ASSUME NEW r \in Runs, Act(r), ~Promote(r) PROVE bundle' = bundle
    <3>1. RunCapture(r) \/ ResumeCapture(r) \/ Throw(r) \/ CatchThrows(r) \/ Crash(r) \/ LockReclaimed(r)
            => bundle' = bundle
      BY DEF RunCapture, ResumeCapture, Throw, CatchThrows, Crash, LockReclaimed
    <3>2. Begin(r) \/ Connect(r) \/ Discover(r) \/ CreateStaging(r) \/ BeginWalk(r) => bundle' = bundle
      BY DEF Begin, Connect, Discover, CreateStaging, BeginWalk
    <3>3. Walk(r) \/ EndWalk(r) \/ WriteResources(r) \/ Finish(r) \/ Catch(r) => bundle' = bundle
      BY DEF Walk, EndWalk, WriteResources, Finish, Catch
    <3>4. Fetch(r) => bundle' = bundle
      BY DEF Fetch, CarryFlow, LoadFlow, LoadFails, ReferencesFail, WriteFails
    <3>5. QED
      BY <2>1, <3>1, <3>2, <3>3, <3>4 DEF Act, Step
  <2>2. QED
    BY <2>1 DEF Next, Act, vars
<1>4. QED
  BY <1>1, <1>2, <1>3

CaptureInv == TypeOK /\ Exclusive /\ Swept /\ Staged /\ Walked

\* Before anything is captured there is nothing to account for.
LEMMA CaptureInit == Init => CaptureInv /\ ReadyIsClosed
<1> SUFFICES ASSUME Init PROVE CaptureInv /\ ReadyIsClosed
  OBVIOUS
<1>1. Fresh \in Memories /\ IsFiniteSet(Fresh.seeds)
  BY FreshOK DEF MemOK
<1>2. NoBundle \in Bundles
  BY DEF NoBundle, Bundles
<1>3. TypeOK
  BY <1>1, <1>2, NoWalkOK, TornOK DEF Init, TypeOK, Steps, Ended
<1>4. \A r \in Runs : pc[r] = "idle" /\ mem[r] = Fresh /\ staging[r] = {}
  BY DEF Init
<1>5. /\ bundle.leftover = FALSE /\ bundle.files = bundle.sealed /\ bundle.ready = FALSE
      /\ Fresh.leftover = FALSE /\ Fresh.written = {} /\ Fresh.seeds = {} /\ Fresh.results = {}
  BY DEF Init, NoBundle, Fresh
<1>6. Exclusive
  BY <1>4 DEF Exclusive, Running, InTry
<1>7. Swept
  BY <1>4, <1>5 DEF Swept, SweptRun
<1>8. Staged
  BY <1>4, <1>5 DEF Staged, StagedRun, Sealed
<1>9. Walked
  BY <1>4 DEF Walked, WalkedRun
<1>10. QED
  BY <1>3, <1>5, <1>6, <1>7, <1>8, <1>9 DEF CaptureInv, ReadyIsClosed

\* Every step of a capture keeps all of it.
LEMMA CaptureStep == CaptureInv /\ [Next]_vars => CaptureInv'
BY TypeStep, ExclusiveStep, SweptStep, StagedStep, WalkedStep DEF CaptureInv

\* The state of a capture stays well formed: what its manifests, its staging
\* directories and its bundle may hold.
THEOREM CaptureTypeCorrect == Spec => []TypeOK
<1>1. CaptureInv => TypeOK
  BY DEF CaptureInv
<1>2. QED
  BY CaptureInit, CaptureStep, <1>1, PTL DEF Spec

\* capture-run.ts, acquireLock: no two captures are under way at once, also when
\* the lock of a dead one is cleared away.
THEOREM OneCaptureAtATime ==
  Spec => [](\A r, q \in Runs : pc[r] \in Running /\ pc[q] \in Running => r = q)
<1>1. CaptureInv => \A r, q \in Runs : pc[r] \in Running /\ pc[q] \in Running => r = q
  BY DEF CaptureInv, Exclusive
<1>2. QED
  BY CaptureInit, CaptureStep, <1>1, PTL DEF Spec

\* bundle-verifier.ts: the bundle is what its seal was computed from, unless the
\* run reported a flow that failed or found the files of an earlier attempt, and
\* those are only left by a crash or by a second failure.
THEOREM SealIsVerified == Spec => []SealedVerifies
<1>1. CaptureInv => SealedVerifies
  BY DEF CaptureInv, Swept, Staged, Sealed, Dirty, SealedVerifies
<1>2. QED
  BY CaptureInit, CaptureStep, <1>1, PTL DEF Spec

\* capture-run.ts, archyImportableYaml: a bundle that calls itself importable and
\* not truncated holds everything its flows refer to, if the run loaded them.
THEOREM ImportableIsClosed == Spec => []ReadyIsClosed
<1>1. CaptureInv /\ ReadyIsClosed /\ [Next]_vars => ReadyIsClosed'
  BY ClosedStep DEF CaptureInv
<1>2. QED
  BY CaptureInit, CaptureStep, <1>1, PTL DEF Spec
=============================================================================
