------------------------ MODULE IncrementalUpdate_proofs ------------------------
(***************************************************************************)
(* Proofs about IncrementalUpdate, for every set of incremental runs and   *)
(* of flows, every scope, and every number of edits, full captures and     *)
(* faults.                                                                 *)
(***************************************************************************)
EXTENDS IncrementalUpdate, TLAPS

Listed == [latest : Nat, published : Nat, division : Divisions]
\* Only the definition of a draft may be another than the version it is filed under.
Recorded ==
  {e \in [version : Nat, content : Nat, draft : BOOLEAN, published : Nat, division : Divisions] :
     e.draft \/ e.content = e.version}
Listings == UNION {[S -> Listed] : S \in SUBSET Flows}
Definitions == UNION {[S -> Recorded] : S \in SUBSET Flows}
Nodes == Flows \X Nat

Bundles ==
  [mode : {"none", "context", "migration"}, flows : Definitions, nodes : SUBSET Nodes,
   gap : BOOLEAN, turn : Nat]
Memories ==
  [scope : SUBSET Flows, turn : Nat, hasPrevious : BOOLEAN, capture : SUBSET Flows,
   found : Listings, previous : Definitions, flows : Definitions, nodes : SUBSET Nodes,
   draft : {<<>>} \cup (Flows \X Nat), unread : SUBSET Flows, completed : SUBSET Flows,
   skipped : SUBSET Flows, failed : SUBSET Flows, gap : BOOLEAN]

TypeOK ==
  /\ org \in [Flows -> Listed] /\ \A f \in Flows : org[f].published <= org[f].latest
  /\ bundle \in Bundles
  /\ pc \in [Runs -> Ended \cup InTry \cup {"lock"}]
  /\ mem \in [Runs -> Memories]
  /\ full # Unset => full \in Listings

\* A run inside its try block is the one that holds the lock, and so is a full
\* capture that is running: nobody else replaces the bundle meanwhile.
Held ==
  /\ \A r \in Runs : pc[r] \in InTry => lock = {r}
  /\ full # Unset => lock = {"full"}

\* The versions of a flow grow while it exists, so that what a listing and a
\* bundle know of it is never ahead of the organization.  A full capture may pair
\* a definition with the listing of an older version; it is never a newer one.
Behind ==
  /\ full # Unset => \A f \in DOMAIN full : Exists(f) => full[f].published <= org[f].published
  /\ \A f \in DOMAIN bundle.flows :
       LET e == bundle.flows[f]
       IN  e.published # 0 => /\ e.published <= e.version
                              /\ Exists(f) => e.version <= org[f].published

\* Whoever looked at the bundle that is there knows of it, or could see none of its flows.
Looked(r) ==
  pc[r] \in InTry \cup {"lock"} =>
    /\ mem[r].turn <= bundle.turn
    /\ mem[r].turn = bundle.turn => mem[r].hasPrevious \/ DOMAIN bundle.flows \subseteq mem[r].unread

\* The flows a run has read of the bundle: as they are there, and all but the unread.
FromBundle(m) ==
  /\ \A f \in DOMAIN m.previous :
       m.hasPrevious /\ f \in DOMAIN bundle.flows /\ m.previous[f] = bundle.flows[f]
  /\ m.hasPrevious => DOMAIN bundle.flows \ m.unread \subseteq DOMAIN m.previous

Same(e, d) == e.version = d.version /\ e.content = d.content

\* What the run plans from is the bundle, which nobody replaces until it does.
Planned(r) ==
  /\ pc[r] \in {"carry", "fetch", "promote"} => FromBundle(mem[r])
  /\ pc[r] \in {"carry", "fetch", "promote", "save"} =>
       \A f \in DOMAIN mem[r].found \ mem[r].capture :
         f \in DOMAIN mem[r].previous /\ mem[r].previous[f].version = mem[r].found[f].published
  /\ pc[r] \in {"lock", "connect", "plan", "carry"} => mem[r].completed = {} /\ mem[r].failed = {}

\* What was carried forward is as it was, and whatever else was written is
\* covered by the walk of this run, unless that could not read references.
Carried(r) ==
  /\ pc[r] \in {"fetch", "promote", "save"} =>
       \A f \in DOMAIN mem[r].previous \ mem[r].capture :
         f \in DOMAIN mem[r].flows /\ Same(mem[r].flows[f], mem[r].previous[f])
  /\ pc[r] \in {"fetch", "promote"} =>
       \A f \in DOMAIN mem[r].flows :
         /\ mem[r].flows[f].published = 0
         /\ \/ f \in DOMAIN mem[r].previous \ mem[r].capture
            \/ mem[r].gap \/ <<f, mem[r].flows[f].content>> \in mem[r].nodes
  /\ pc[r] = "promote" =>
       /\ mem[r].capture \subseteq mem[r].completed \cup mem[r].failed
       /\ ~mem[r].gap => \A f \in DOMAIN mem[r].flows : <<f, mem[r].flows[f].content>> \in mem[r].nodes

RunInv(r) == Looked(r) /\ Planned(r) /\ Carried(r)
NoneIsEmpty == bundle.mode = "none" => DOMAIN bundle.flows = {}
UpdateInv == TypeOK /\ Held /\ Behind /\ NoneIsEmpty /\ GraphCovers /\ (\A r \in Runs : RunInv(r))

-----------------------------------------------------------------------------
(* What a listing and a set of definitions are *)

LEMMA Empty == <<>> \in Definitions /\ <<>> \in Listings /\ DOMAIN <<>> = {}
<1>1. DOMAIN <<>> = {}
  OBVIOUS
<1>2. <<>> \in [{} -> Recorded] /\ <<>> \in [{} -> Listed]
  OBVIOUS
<1>3. {} \in SUBSET Flows
  OBVIOUS
<1>4. QED
  BY <1>1, <1>2, <1>3 DEF Definitions, Listings

LEMMA DefinitionsAre ==
  ASSUME NEW F \in Definitions
  PROVE  DOMAIN F \subseteq Flows /\ \A f \in DOMAIN F : F[f] \in Recorded
BY DEF Definitions

LEMMA ListingsAre ==
  ASSUME NEW F \in Listings
  PROVE  DOMAIN F \subseteq Flows /\ \A f \in DOMAIN F : F[f] \in Listed
BY DEF Listings

LEMMA MakeDefinitions ==
  ASSUME NEW S, S \subseteq Flows, NEW F \in [S -> Recorded]
  PROVE  F \in Definitions
BY DEF Definitions

LEMMA MakeListing ==
  ASSUME NEW S, S \subseteq Flows, NEW F \in [S -> Listed]
  PROVE  F \in Listings
BY DEF Listings

LEMMA FreshIs ==
  /\ Fresh \in Memories
  /\ NoBundle \in Bundles /\ NoBundle.mode = "none" /\ DOMAIN NoBundle.flows = {} /\ NoBundle.turn = 0
BY Empty DEF Fresh, Memories, NoBundle, Bundles

LEMMA LoadedIs ==
  ASSUME TypeOK, NEW m \in Memories, NEW f \in Flows
  PROVE  /\ Loaded(m, f) \in Recorded /\ Loaded(m, f).published = 0
         /\ <<f, Loaded(m, f).content>> \in Nodes
<1>1. org[f].published \in Nat /\ org[f].latest \in Nat
  BY DEF TypeOK, Listed
<1>2. ASSUME NEW c \in Nat
      PROVE  /\ OfDraft(f, c) \in Recorded /\ OfDraft(f, c).published = 0
             /\ <<f, OfDraft(f, c).content>> \in Nodes
  BY <1>1, <1>2 DEF OfDraft, Recorded, Divisions, Nodes
<1>3. /\ OfPublished(f) \in Recorded /\ OfPublished(f).published = 0
      /\ <<f, OfPublished(f).content>> \in Nodes
  BY <1>1 DEF OfPublished, Recorded, Divisions, Nodes
<1>4. m.draft # <<>> => m.draft[2] \in Nat
  BY DEF Memories
<1>5. QED
  BY <1>2, <1>3, <1>4 DEF Loaded

\* What writing a flow into the staging directory changes of a memory.
LEMMA WrittenIs ==
  ASSUME TypeOK, NEW m \in Memories, NEW f \in Flows
  PROVE  /\ Written(m, f) \in Memories
         /\ Written(m, f).flows[f] = Loaded(m, f)
         /\ DOMAIN Written(m, f).flows = DOMAIN m.flows \cup {f}
         /\ \A g \in DOMAIN m.flows \ {f} : Written(m, f).flows[g] = m.flows[g]
         /\ Written(m, f) = [m EXCEPT !.draft = <<>>, !.flows = Written(m, f).flows]
<1> DEFINE new == Loaded(m, f)
           F == [g \in DOMAIN m.flows \cup {f} |-> IF g = f THEN new ELSE m.flows[g]]
<1>1. new \in Recorded
  BY LoadedIs
<1>2. m.flows \in Definitions
  BY DEF Memories
<1>3. DOMAIN m.flows \subseteq Flows /\ \A g \in DOMAIN m.flows : m.flows[g] \in Recorded
  BY <1>2, DefinitionsAre
<1> HIDE DEF new
<1>4. F \in [DOMAIN m.flows \cup {f} -> Recorded]
  BY <1>1, <1>3
<1>5. F \in Definitions
  BY <1>3, <1>4, MakeDefinitions
<1>6. Written(m, f) = [m EXCEPT !.draft = <<>>, !.flows = F]
  BY DEF Written, new
<1>7. /\ F[f] = new /\ DOMAIN F = DOMAIN m.flows \cup {f}
      /\ \A g \in DOMAIN m.flows \ {f} : F[g] = m.flows[g]
  OBVIOUS
<1> HIDE DEF F
<1>8. Written(m, f) \in Memories /\ Written(m, f).flows = F
  BY <1>5, <1>6 DEF Memories
<1>9. QED
  BY <1>6, <1>7, <1>8 DEF new

-----------------------------------------------------------------------------
(* What a step leaves alone *)

\* A step of one run that leaves the bundle leaves the other runs in order.
LEMMA OthersKept ==
  ASSUME NEW r, UNCHANGED bundle, \A s \in Runs \ {r} : pc'[s] = pc[s] /\ mem'[s] = mem[s],
         \A s \in Runs : RunInv(s), RunInv(r)'
  PROVE  (\A s \in Runs : RunInv(s))'
<1>1. ASSUME NEW s \in Runs, s # r PROVE RunInv(s)'
  <2>1. pc'[s] = pc[s] /\ mem'[s] = mem[s] /\ RunInv(s)
    BY <1>1
  <2>2. Looked(s)'
    BY <2>1 DEF RunInv, Looked
  <2>3. Planned(s)'
    BY <2>1 DEF RunInv, Planned, FromBundle
  <2>4. Carried(s)'
    BY <2>1 DEF RunInv, Carried
  <2>5. QED
    BY <2>2, <2>3, <2>4 DEF RunInv
<1>2. QED
  BY <1>1

\* A new bundle disturbs no run that is not inside its try block.
LEMMA BundleReplaced ==
  ASSUME NEW s \in Runs, TypeOK, RunInv(s), pc[s] \notin InTry, pc'[s] = pc[s], mem'[s] = mem[s],
         bundle'.turn = bundle.turn + 1
  PROVE  RunInv(s)'
<1>1. mem[s].turn \in Nat /\ bundle.turn \in Nat
  BY DEF TypeOK, Memories, Bundles
<1>2. Looked(s)'
  BY <1>1 DEF RunInv, Looked
<1>3. Planned(s)' /\ Carried(s)'
  BY DEF RunInv, Planned, Carried, InTry
<1>4. QED
  BY <1>2, <1>3 DEF RunInv

\* A run that has ended remembers nothing.
LEMMA EndedInv ==
  ASSUME NEW r, pc'[r] \in Ended
  PROVE  RunInv(r)'
BY DEF RunInv, Looked, Planned, Carried, Ended, InTry

\* What is common to the steps of a run that leave organization and bundle.
Quiet == UNCHANGED <<org, bundle, full>>

LEMMA QuietKeeps ==
  ASSUME UpdateInv, Quiet, NEW r \in Runs, NEW step \in Ended \cup InTry \cup {"lock"}, NEW m \in Memories,
         pc' = [pc EXCEPT ![r] = step], mem' = [mem EXCEPT ![r] = m],
         \/ UNCHANGED lock /\ (step \in InTry => lock = {r})
         \/ lock' = lock \ {r} /\ step \in Ended
         \/ lock = {} /\ lock' = {r},
         RunInv(r)'
  PROVE  UpdateInv'
<1>1. TypeOK /\ Held /\ Behind /\ NoneIsEmpty /\ GraphCovers
  BY DEF UpdateInv
<1>2. UNCHANGED <<org, bundle, full>>
  BY DEF Quiet
<1>3. TypeOK'
  BY <1>1, <1>2 DEF TypeOK
<1>4. pc'[r] = step /\ mem'[r] = m /\ \A s \in Runs \ {r} : pc'[s] = pc[s] /\ mem'[s] = mem[s]
  BY <1>1 DEF TypeOK
<1>5. Held'
  <2>1. r # "full" /\ \A s \in Runs : s # "full"
    BY IncrementalAssumption
  <2>2. CASE UNCHANGED lock /\ (step \in InTry => lock = {r})
    BY <1>1, <1>2, <1>4, <2>2 DEF Held
  <2>3. CASE lock' = lock \ {r} /\ step \in Ended
    <3>1. step \notin InTry
      BY <2>3 DEF Ended, InTry
    <3>2. \A s \in Runs \ {r} : lock = {s} => lock' = {s}
      BY <2>3
    <3>3. lock = {"full"} => lock' = {"full"}
      BY <2>1, <2>3
    <3>4. QED
      BY <1>1, <1>2, <1>4, <3>1, <3>2, <3>3 DEF Held
  <2>4. CASE lock = {} /\ lock' = {r}
    <3>1. (\A s \in Runs : pc[s] \notin InTry) /\ full = Unset
      BY <1>1, <2>4 DEF Held
    <3>2. QED
      BY <1>2, <1>4, <2>4, <3>1 DEF Held
  <2>5. QED
    BY <2>2, <2>3, <2>4
<1>6. Behind' /\ NoneIsEmpty' /\ GraphCovers'
  BY <1>1, <1>2 DEF Behind, NoneIsEmpty, GraphCovers, Exists
<1>7. (\A s \in Runs : RunInv(s))'
  BY <1>2, <1>4, OthersKept DEF UpdateInv
<1>8. QED
  BY <1>3, <1>5, <1>6, <1>7 DEF UpdateInv

\* Every way a call ends.
LEMMA EndKeeps ==
  ASSUME UpdateInv, Quiet, NEW r \in Runs, NEW how \in Ended, End(r, how)
  PROVE  UpdateInv'
<1>1. /\ pc' = [pc EXCEPT ![r] = how] /\ mem' = [mem EXCEPT ![r] = Fresh] /\ lock' = lock \ {r}
  BY DEF End, Goto, Remember
<1>2. pc'[r] = how
  BY <1>1 DEF UpdateInv, TypeOK
<1>3. RunInv(r)'
  BY <1>2, EndedInv
<1>4. QED
  BY <1>1, <1>3, FreshIs, QuietKeeps

\* A run inside its try block whose memory alone changes, or which goes on.
LEMMA InTryKeeps ==
  ASSUME UpdateInv, Quiet, UNCHANGED lock, NEW r \in Runs, pc[r] \in InTry, NEW step \in InTry,
         NEW m \in Memories, pc' = [pc EXCEPT ![r] = step], mem' = [mem EXCEPT ![r] = m],
         m.turn = mem[r].turn, m.hasPrevious = mem[r].hasPrevious, mem[r].unread \subseteq m.unread,
         pc'[r] = step /\ mem'[r] = m => Planned(r)' /\ Carried(r)'
  PROVE  UpdateInv'
<1>1. pc'[r] = step /\ mem'[r] = m /\ lock = {r}
  BY DEF UpdateInv, TypeOK, Held
<1>2. Looked(r)
  BY DEF UpdateInv, RunInv
<1>3. UNCHANGED bundle
  BY DEF Quiet
<1>4. Looked(r)'
  BY <1>1, <1>2, <1>3 DEF Looked
<1>5. RunInv(r)'
  BY <1>1, <1>4 DEF RunInv
<1>6. QED
  BY <1>1, <1>5, QuietKeeps

-----------------------------------------------------------------------------
(* The organization, and full captures *)

\* An edit never takes a version back.
LEMMA EditKeeps ==
  ASSUME UpdateInv, NEW f \in Flows, Edit(f)
  PROVE  UpdateInv'
<1> DEFINE o == org[f]
<1>1. TypeOK /\ Held /\ Behind /\ NoneIsEmpty /\ GraphCovers
  BY DEF UpdateInv
<1>2. /\ UNCHANGED <<bundle, lock, pc, mem, full>> /\ o.latest # 0
      /\ \/ org' = [org EXCEPT ![f].latest = @ + 1]
         \/ org' = [org EXCEPT ![f].published = o.latest]
         \/ org' = [org EXCEPT ![f].division = "none"]
         \/ org' = [org EXCEPT ![f] = Absent]
  BY DEF Edit
<1>3. /\ org'[f] \in Listed /\ org'[f].published <= org'[f].latest
      /\ org'[f].latest # 0 => o.published <= org'[f].published
      /\ org' = [org EXCEPT ![f] = org'[f]]
  <2>1. o \in Listed /\ o.published <= o.latest
    BY <1>1 DEF TypeOK
  <2>2. org \in [Flows -> Listed]
    BY <1>1 DEF TypeOK
  <2>3. CASE org' = [org EXCEPT ![f].latest = @ + 1]
    BY <2>1, <2>2, <2>3 DEF Listed
  <2>4. CASE org' = [org EXCEPT ![f].published = o.latest]
    BY <2>1, <2>2, <2>4 DEF Listed
  <2>5. CASE org' = [org EXCEPT ![f].division = "none"]
    BY <2>1, <2>2, <2>5 DEF Listed, Divisions
  <2>6. CASE org' = [org EXCEPT ![f] = Absent]
    BY <2>1, <2>2, <2>6 DEF Listed, Divisions, Absent
  <2>7. QED
    BY <1>2, <2>3, <2>4, <2>5, <2>6
<1>4. \A g \in Flows : /\ Exists(g)' => Exists(g) /\ org[g].published <= org'[g].published
                       /\ org'[g] \in Listed /\ org'[g].published <= org'[g].latest
  BY <1>1, <1>2, <1>3 DEF TypeOK, Exists, Listed
<1>5. TypeOK'
  <2>1. org' \in [Flows -> Listed]
    BY <1>1, <1>3, <1>4 DEF TypeOK
  <2>2. QED
    BY <1>1, <1>2, <1>4, <2>1 DEF TypeOK
<1>6. Behind'
  <2>1. full # Unset => \A g \in DOMAIN full : Exists(g)' => full[g].published <= org'[g].published
    <3>1. SUFFICES ASSUME full # Unset, NEW g \in DOMAIN full, Exists(g)'
                   PROVE  full[g].published <= org'[g].published
      OBVIOUS
    <3>2. g \in Flows /\ full[g] \in Listed
      BY <1>1, <3>1, ListingsAre DEF TypeOK
    <3>3. full[g].published <= org[g].published /\ org[g].published <= org'[g].published
      BY <1>1, <1>4, <3>1, <3>2 DEF Behind
    <3>4. org[g] \in Listed /\ org'[g] \in Listed
      BY <1>1, <1>4, <3>2 DEF TypeOK
    <3>5. QED
      BY <3>2, <3>3, <3>4 DEF Listed
  <2>2. \A g \in DOMAIN bundle.flows :
          LET e == bundle.flows[g]
          IN  e.published # 0 => e.published <= e.version /\ (Exists(g)' => e.version <= org'[g].published)
    <3>1. SUFFICES ASSUME NEW g \in DOMAIN bundle.flows, bundle.flows[g].published # 0
                   PROVE  /\ bundle.flows[g].published <= bundle.flows[g].version
                          /\ Exists(g)' => bundle.flows[g].version <= org'[g].published
      OBVIOUS
    <3>2. g \in Flows /\ bundle.flows[g] \in Recorded
      BY <1>1, <3>1, DefinitionsAre DEF TypeOK, Bundles
    <3>3. org[g] \in Listed /\ org'[g] \in Listed
      BY <1>1, <1>4, <3>2 DEF TypeOK
    <3>4. /\ bundle.flows[g].published <= bundle.flows[g].version
          /\ Exists(g)' => bundle.flows[g].version <= org[g].published /\ org[g].published <= org'[g].published
      BY <1>1, <1>4, <3>1, <3>2 DEF Behind
    <3>5. QED
      BY <3>2, <3>3, <3>4 DEF Listed, Recorded
  <2>3. QED
    BY <1>2, <2>1, <2>2 DEF Behind
<1>7. Held' /\ NoneIsEmpty' /\ GraphCovers'
  BY <1>1, <1>2 DEF Held, NoneIsEmpty, GraphCovers
<1>8. (\A s \in Runs : RunInv(s))'
  BY <1>2 DEF UpdateInv, RunInv, Looked, Planned, Carried, FromBundle
<1>9. QED
  BY <1>5, <1>6, <1>7, <1>8 DEF UpdateInv

LEMMA FullBeginKeeps ==
  ASSUME UpdateInv, FullBegin
  PROVE  UpdateInv'
<1>1. TypeOK /\ Held /\ Behind /\ NoneIsEmpty /\ GraphCovers
  BY DEF UpdateInv
<1>2. /\ lock = {} /\ lock' = {"full"} /\ UNCHANGED <<org, bundle, pc, mem>>
      /\ full' = [f \in {g \in Flows : Exists(g)} |-> org[f]]
  BY DEF FullBegin
<1>3. full' \in Listings
  <2>1. full' \in [{g \in Flows : Exists(g)} -> Listed]
    BY <1>1, <1>2 DEF TypeOK
  <2>2. QED
    BY <2>1, MakeListing
<1>4. TypeOK'
  BY <1>1, <1>2, <1>3 DEF TypeOK
<1>5. Held'
  BY <1>1, <1>2 DEF Held
<1>6. Behind'
  <2>1. \A f \in DOMAIN full' : full'[f].published <= org'[f].published
    BY <1>1, <1>2 DEF TypeOK, Listed
  <2>2. QED
    BY <1>1, <1>2, <2>1 DEF Behind, Exists
<1>7. NoneIsEmpty' /\ GraphCovers'
  BY <1>1, <1>2 DEF NoneIsEmpty, GraphCovers
<1>8. (\A s \in Runs : RunInv(s))'
  BY <1>2 DEF UpdateInv, RunInv, Looked, Planned, Carried, FromBundle
<1>9. QED
  BY <1>4, <1>5, <1>6, <1>7, <1>8 DEF UpdateInv

\* The definitions a full capture writes are those the organization has by then.
LEMMA FullPromoteKeeps ==
  ASSUME UpdateInv, FullPromote
  PROVE  UpdateInv'
<1> DEFINE got == {f \in DOMAIN full : Exists(f)}
<1>1. TypeOK /\ Held /\ Behind /\ NoneIsEmpty /\ full # Unset /\ UNCHANGED <<org, pc, mem>>
  BY DEF UpdateInv, FullPromote
<1>2. PICK mode \in {"context", "migration"}, source \in [got -> UNION {Returned(f) : f \in got}] :
        /\ \A f \in got : source[f] \in Returned(f)
        /\ bundle' = [mode |-> mode,
                      flows |-> [f \in got |-> [source[f] EXCEPT !.published = full[f].published,
                                                                !.division = full[f].division]],
                      nodes |-> {<<f, source[f].content>> : f \in got},
                      gap |-> FALSE, turn |-> bundle.turn + 1]
  BY DEF FullPromote
<1> DEFINE flows == [f \in got |-> [source[f] EXCEPT !.published = full[f].published,
                                                    !.division = full[f].division]]
           nodes == {<<f, source[f].content>> : f \in got}
<1>3. full' = Unset /\ lock = {"full"} /\ lock' = {}
  BY <1>1 DEF FullPromote, Held
<1>4. full \in Listings /\ DOMAIN full \subseteq Flows /\ \A f \in DOMAIN full : full[f] \in Listed
  BY <1>1, ListingsAre DEF TypeOK
<1>5. ASSUME NEW f \in got
      PROVE  /\ f \in Flows /\ source[f] \in Recorded /\ source[f].content \in Nat
             /\ full[f].published # 0 => org[f].published # 0 /\ source[f].version = org[f].published
  <2>1. /\ f \in Flows /\ full[f] \in Listed /\ org[f].published \in Nat /\ org[f].latest \in Nat
        /\ full[f].published <= org[f].published
    BY <1>1, <1>4 DEF TypeOK, Listed, Behind
  <2>2. CASE org[f].published # 0 /\ source[f] = OfPublished(f)
    BY <2>1, <2>2 DEF OfPublished, Recorded, Divisions
  <2>3. ASSUME full[f].published = 0, NEW content \in full[f].latest..org[f].latest,
               source[f] = OfDraft(f, content)
        PROVE  source[f] \in Recorded /\ source[f].content \in Nat
    <3>1. content \in Nat
      BY <2>1 DEF Listed
    <3>2. QED
      BY <2>1, <2>3, <3>1 DEF OfDraft, Recorded, Divisions
  <2>4. \/ org[f].published # 0 /\ source[f] = OfPublished(f)
        \/ full[f].published = 0
             /\ \E content \in full[f].latest..org[f].latest : source[f] = OfDraft(f, content)
    BY <1>2 DEF Returned
  <2>5. source[f] \in Recorded /\ source[f].content \in Nat
    BY <2>2, <2>3, <2>4 DEF Recorded
  <2>6. full[f].published # 0 => org[f].published # 0 /\ source[f].version = org[f].published
    BY <2>4 DEF OfPublished
  <2>7. QED
    BY <2>1, <2>5, <2>6
<1>6. flows \in Definitions /\ nodes \subseteq Nodes
  <2>1. ASSUME NEW f \in got PROVE flows[f] \in Recorded
    <3>1. full[f].published \in Nat /\ full[f].division \in Divisions /\ source[f] \in Recorded
      BY <1>4, <1>5 DEF Listed
    <3>2. flows[f] = [source[f] EXCEPT !.published = full[f].published, !.division = full[f].division]
      OBVIOUS
    <3>3. QED
      BY <3>1, <3>2 DEF Recorded
  <2>2. flows \in [got -> Recorded]
    <3>1. flows = [f \in got |-> flows[f]]
      OBVIOUS
    <3>2. QED
      BY <2>1, <3>1
  <2>3. nodes \subseteq Nodes
    BY <1>5 DEF Nodes
  <2> HIDE DEF flows, nodes
  <2>4. QED
    BY <1>4, <2>2, <2>3, MakeDefinitions
<1>7. /\ bundle'.flows = flows /\ bundle'.nodes = nodes /\ bundle'.turn = bundle.turn + 1
      /\ bundle'.mode # "none" /\ bundle' \in Bundles
  <2>1. bundle' = [mode |-> mode, flows |-> flows, nodes |-> nodes, gap |-> FALSE, turn |-> bundle.turn + 1]
    BY <1>2
  <2> HIDE DEF flows, nodes
  <2>2. bundle.turn + 1 \in Nat
    BY <1>1 DEF TypeOK, Bundles
  <2>3. QED
    BY <1>6, <2>1, <2>2 DEF Bundles
<1>8. TypeOK'
  BY <1>1, <1>3, <1>7 DEF TypeOK
<1>9. \A s \in Runs : pc[s] \notin InTry
  <2>1. \A s \in Runs : s # "full"
    BY IncrementalAssumption
  <2>2. QED
    BY <1>1, <1>3, <2>1 DEF Held
<1>10. Held'
  BY <1>1, <1>3, <1>9 DEF Held
<1>11. Behind'
  <2>1. ASSUME NEW f \in got, flows[f].published # 0
        PROVE  flows[f].published <= flows[f].version /\ flows[f].version <= org[f].published
    <3>1. /\ flows[f].published = full[f].published /\ flows[f].version = source[f].version
          /\ full[f].published <= org[f].published
      BY <1>1, <1>5 DEF Behind, Recorded
    <3>2. full[f].published \in Nat /\ org[f].published \in Nat
      BY <1>1, <1>4 DEF TypeOK, Listed
    <3>3. source[f].version = org[f].published
      BY <1>5, <2>1, <3>1
    <3>4. QED
      BY <3>1, <3>2, <3>3
  <2>2. DOMAIN flows = got
    OBVIOUS
  <2> HIDE DEF flows, got
  <2>3. QED
    BY <1>1, <1>3, <1>7, <2>1, <2>2 DEF Behind, Exists
<1>12. NoneIsEmpty'
  BY <1>7 DEF NoneIsEmpty
<1>13. GraphCovers'
  <2>1. \A f \in DOMAIN flows : <<f, flows[f].content>> \in nodes
    BY <1>5 DEF Recorded
  <2> HIDE DEF flows, nodes
  <2>2. QED
    BY <1>7, <2>1 DEF GraphCovers
<1>14. (\A s \in Runs : RunInv(s))'
  BY <1>1, <1>7, <1>9, BundleReplaced DEF UpdateInv
<1>15. QED
  BY <1>8, <1>10, <1>11, <1>12, <1>13, <1>14 DEF UpdateInv

-----------------------------------------------------------------------------
(* An incremental run up to its plan *)

LEMMA LookKeeps ==
  ASSUME UpdateInv, NEW r \in Runs, Look(r)
  PROVE  UpdateInv'
<1>1. /\ TypeOK /\ Held /\ pc[r] = "idle" /\ Quiet /\ UNCHANGED lock
      /\ mem[r] \in Memories /\ mem = [mem EXCEPT ![r] = mem[r]]
  BY DEF UpdateInv, Look, At, Quiet, TypeOK
<1>2. CASE Goto(r, "failed") /\ UNCHANGED mem
  <2>1. pc' = [pc EXCEPT ![r] = "failed"] /\ pc'[r] = "failed" /\ mem' = [mem EXCEPT ![r] = mem[r]]
    BY <1>1, <1>2 DEF Goto, TypeOK
  <2>2. "failed" \in Ended /\ "failed" \notin InTry
    BY DEF Ended, InTry
  <2>3. RunInv(r)'
    BY <2>1, <2>2, EndedInv
  <2>4. QED
    BY <1>1, <2>1, <2>2, <2>3, QuietKeeps
<1>3. ASSUME NEW has \in BOOLEAN, NEW unread \in SUBSET Flows, Saw(r, has, unread),
             has \/ DOMAIN bundle.flows \subseteq unread
      PROVE  UpdateInv'
  <2>s. PICK s \in Scopes : Remember(r, [Fresh EXCEPT !.scope = s, !.turn = bundle.turn,
                                                    !.hasPrevious = has, !.unread = unread])
    BY <1>3 DEF Saw
  <2> DEFINE m == [Fresh EXCEPT !.scope = s, !.turn = bundle.turn, !.hasPrevious = has, !.unread = unread]
  <2>1. /\ m \in Memories /\ m.turn = bundle.turn /\ m.hasPrevious = has /\ m.unread = unread
        /\ m.completed = {} /\ m.failed = {}
    <3>1. s \in SUBSET Flows /\ bundle.turn \in Nat /\ Fresh \in Memories
      BY <1>1, IncrementalAssumption, FreshIs DEF TypeOK, Bundles
    <3>2. QED
      BY <3>1, Zenon DEF Memories, Fresh
  <2> HIDE DEF m
  <2>2. pc' = [pc EXCEPT ![r] = "lock"] /\ mem' = [mem EXCEPT ![r] = m]
    BY <1>3, <2>s DEF Saw, Goto, Remember, m
  <2>3. pc'[r] = "lock" /\ mem'[r] = m
    BY <1>1, <2>2 DEF TypeOK
  <2>4. RunInv(r)'
    <3>1. Looked(r)'
      BY <1>1, <1>3, <2>1, <2>3 DEF Looked, Quiet, TypeOK, Bundles
    <3>2. Planned(r)' /\ Carried(r)'
      BY <2>1, <2>3 DEF Planned, Carried
    <3>3. QED
      BY <3>1, <3>2 DEF RunInv
  <2>5. "lock" \notin InTry
    BY DEF InTry
  <2>6. QED
    BY <1>1, <2>1, <2>2, <2>4, <2>5, QuietKeeps
<1>4. DOMAIN bundle.flows \subseteq Flows /\ (bundle.mode = "none" => DOMAIN bundle.flows = {})
  BY <1>1, DefinitionsAre DEF TypeOK, Bundles, UpdateInv, NoneIsEmpty
<1>5. CASE Saw(r, bundle.mode # "none", {})
  <2>1. (bundle.mode # "none") \in BOOLEAN
    OBVIOUS
  <2>2. QED
    BY <1>3, <1>4, <1>5, <2>1
<1>6. CASE Saw(r, TRUE, {})
  BY <1>3, <1>6
<1>7. CASE Saw(r, FALSE, DOMAIN bundle.flows)
  BY <1>3, <1>4, <1>7
<1>8. QED
  BY <1>2, <1>5, <1>6, <1>7 DEF Look

LEMMA LockKeeps ==
  ASSUME UpdateInv, NEW r \in Runs, Lock(r)
  PROVE  UpdateInv'
<1>1. /\ TypeOK /\ pc[r] = "lock" /\ Quiet /\ mem[r] \in Memories /\ mem = [mem EXCEPT ![r] = mem[r]]
      /\ RunInv(r)
  BY DEF UpdateInv, Lock, At, Quiet, TypeOK
<1>2. CASE lock = {} /\ lock' = {r} /\ Goto(r, "connect") /\ UNCHANGED mem
  <2>1. pc' = [pc EXCEPT ![r] = "connect"] /\ pc'[r] = "connect" /\ mem' = [mem EXCEPT ![r] = mem[r]]
    BY <1>1, <1>2 DEF Goto, TypeOK
  <2>2. \A s \in Runs : s # r => pc'[s] = pc[s]
    BY <2>1 DEF UpdateInv, TypeOK
  <2>3. RunInv(r)'
    <3>1. Looked(r)'
      BY <1>1, <1>2, <2>1 DEF RunInv, Looked, Quiet, InTry
    <3>2. Planned(r)' /\ Carried(r)'
      BY <1>1, <1>2, <2>1 DEF RunInv, Planned, Carried
    <3>3. QED
      BY <3>1, <3>2 DEF RunInv
  <2>4. QED
    BY <1>1, <1>2, <2>1, <2>3, QuietKeeps DEF InTry
<1>3. CASE End(r, "failed")
  BY <1>1, <1>3, EndKeeps DEF Ended
<1>4. QED
  BY <1>2, <1>3 DEF Lock

LEMMA ConnectKeeps ==
  ASSUME UpdateInv, NEW r \in Runs, Connect(r)
  PROVE  UpdateInv'
<1>1. /\ TypeOK /\ pc[r] = "connect" /\ Quiet /\ mem[r] \in Memories /\ mem = [mem EXCEPT ![r] = mem[r]]
      /\ RunInv(r)
  BY DEF UpdateInv, Connect, At, Quiet, TypeOK
<1>2. CASE Goto(r, "plan") /\ UNCHANGED <<mem, lock>>
  <2>1. pc' = [pc EXCEPT ![r] = "plan"] /\ mem' = [mem EXCEPT ![r] = mem[r]]
    BY <1>1, <1>2 DEF Goto
  <2>2. pc'[r] = "plan" /\ mem'[r] = mem[r] => Planned(r)' /\ Carried(r)'
    BY <1>1 DEF RunInv, Planned, Carried
  <2>3. "connect" \in InTry /\ "plan" \in InTry
    BY DEF InTry
  <2>4. QED
    BY <1>1, <1>2, <2>1, <2>2, <2>3, InTryKeeps
<1>3. CASE End(r, "failed")
  BY <1>1, <1>3, EndKeeps DEF Ended
<1>4. QED
  BY <1>2, <1>3 DEF Connect

\* A flow is skipped only when discovery lists as published the version that
\* toPreviousFlowManifestEntry takes from its flow.json, or from the definition.
LEMMA SkippedDecision ==
  ASSUME NEW previous, NEW o \in Listed, NEW known \in BOOLEAN, known => previous \in Recorded,
         DecideFlowAction("found", IF known THEN EntryOf(previous) ELSE NoEntry,
                          DescriptorOf(o), Unset, FALSE).action \in {"skip-unchanged", "metadata-only"}
  PROVE  known /\ EntryOf(previous).version = o.published /\ o.published # 0
<1> DEFINE entry == IF known THEN EntryOf(previous) ELSE NoEntry
<1>1. entry # NoEntry /\ MetadataUnchanged(entry, DescriptorOf(o))
  BY DEF DecideFlowAction
<1>2. known /\ entry = EntryOf(previous)
  BY <1>1
<1>3. entry.version = DescriptorOf(o).published
  BY <1>1 DEF MetadataUnchanged
<1>4. EntryOf(previous).version \in Nat
  BY <1>2 DEF EntryOf, NoEntry, Recorded
<1>5. DescriptorOf(o).published = IF o.published # 0 THEN o.published ELSE Unset
  BY DEF DescriptorOf
<1>6. QED
  BY <1>2, <1>3, <1>4, <1>5, IncrementalAssumption

\* So the definition of a flow that is not to be fetched is the published one.
LEMMA PlanKeeps ==
  ASSUME UpdateInv, NEW r \in Runs, Plan(r)
  PROVE  UpdateInv'
<1>u. PICK unread \in SUBSET DOMAIN bundle.flows :
        LET previous == ReadPreviousFlows(r, unread)
            found == {f \in mem[r].scope : Exists(f)}
            ActionOf(f) ==
              DecideFlowAction("found",
                IF f \in DOMAIN previous THEN EntryOf(previous[f]) ELSE NoEntry,
                DescriptorOf(org[f]), Unset, FALSE).action
        IN  Remember(r, [mem[r] EXCEPT
              !.previous = previous,
              !.unread = @ \cup unread,
              !.found = [f \in found |-> org[f]],
              !.capture = {f \in found : ActionOf(f) \notin {"skip-unchanged", "metadata-only"}}])
  BY DEF Plan
<1> DEFINE previous == ReadPreviousFlows(r, unread)
           found == {f \in mem[r].scope : Exists(f)}
           ActionOf(f) ==
             DecideFlowAction("found",
               IF f \in DOMAIN previous THEN EntryOf(previous[f]) ELSE NoEntry,
               DescriptorOf(org[f]), Unset, FALSE).action
           listing == [f \in found |-> org[f]]
           capture == {f \in found : ActionOf(f) \notin {"skip-unchanged", "metadata-only"}}
           m == [mem[r] EXCEPT !.previous = previous, !.unread = @ \cup unread,
                               !.found = listing, !.capture = capture]
<1>1. /\ TypeOK /\ Behind /\ pc[r] = "plan" /\ Quiet /\ UNCHANGED lock /\ mem[r] \in Memories /\ RunInv(r)
      /\ pc' = [pc EXCEPT ![r] = "carry"]
  BY DEF UpdateInv, Plan, At, Quiet, TypeOK, Goto
<1>2. mem' = [mem EXCEPT ![r] = m]
  BY <1>u DEF Remember
<1>3. mem[r].scope \subseteq Flows /\ found \subseteq Flows /\ capture \subseteq Flows
  BY <1>1 DEF Memories
<1>4. listing \in Listings
  <2>1. listing \in [found -> Listed]
    BY <1>1, <1>3 DEF TypeOK
  <2>2. QED
    BY <1>3, <2>1, MakeListing
<1>5. /\ previous \in Definitions /\ unread \subseteq Flows
      /\ \A f \in DOMAIN previous :
           mem[r].hasPrevious /\ f \in DOMAIN bundle.flows /\ previous[f] = bundle.flows[f]
      /\ mem[r].hasPrevious => DOMAIN bundle.flows \ unread \subseteq DOMAIN previous
  <2>1. /\ bundle.flows \in Definitions /\ DOMAIN bundle.flows \subseteq Flows
        /\ \A f \in DOMAIN bundle.flows : bundle.flows[f] \in Recorded
    BY <1>1, DefinitionsAre DEF TypeOK, Bundles
  <2>2. CASE mem[r].hasPrevious
    <3>1. previous = [f \in DOMAIN bundle.flows \ unread |-> bundle.flows[f]]
      BY <2>2 DEF ReadPreviousFlows
    <3>2. previous \in [DOMAIN bundle.flows \ unread -> Recorded]
      BY <2>1, <3>1
    <3>3. previous \in Definitions
      BY <2>1, <3>2, MakeDefinitions
    <3>4. QED
      BY <2>1, <2>2, <3>1, <3>3
  <2>3. CASE ~mem[r].hasPrevious
    BY <2>1, <2>3, Empty DEF ReadPreviousFlows
  <2>4. QED
    BY <2>2, <2>3
<1>6. ASSUME NEW f \in DOMAIN listing \ capture
      PROVE  f \in DOMAIN previous /\ previous[f].version = listing[f].published
  <2>1. f \in found /\ f \in Flows /\ listing[f] = org[f] /\ Exists(f)
    BY <1>3
  <2>2. ActionOf(f) \in {"skip-unchanged", "metadata-only"}
    BY <1>6, <2>1
  <2>3. org[f] \in Listed /\ (f \in DOMAIN previous => previous[f] \in Recorded)
    BY <1>1, <1>5, <2>1, DefinitionsAre DEF TypeOK
  <2>4. f \in DOMAIN previous /\ EntryOf(previous[f]).version = org[f].published /\ org[f].published # 0
    <3> HIDE DEF previous
    <3>1. (f \in DOMAIN previous) \in BOOLEAN
      OBVIOUS
    <3>2. QED
      BY <2>2, <2>3, <3>1, SkippedDecision
  <2>5. f \in DOMAIN bundle.flows /\ previous[f] = bundle.flows[f]
    BY <1>5, <2>4
  <2>6. EntryOf(previous[f]).version =
          IF previous[f].published # 0 THEN previous[f].published ELSE previous[f].version
    <3> HIDE DEF previous
    <3>1. QED
      BY DEF EntryOf, NoEntry
  <2>7. previous[f].version = org[f].published
    <3>1. CASE previous[f].published = 0
      BY <2>4, <2>6, <3>1
    <3>2. CASE previous[f].published # 0
      <4>1. /\ previous[f].published <= previous[f].version
            /\ previous[f].version <= org[f].published
        BY <1>1, <2>1, <2>4, <2>5, <3>2 DEF Behind
      <4>2. previous[f].published = org[f].published
        BY <2>4, <2>6, <3>2
      <4>3. previous[f].version \in Nat /\ previous[f].published \in Nat /\ org[f].published \in Nat
        BY <2>3, <2>4 DEF Recorded, Listed
      <4>4. QED
        BY <4>1, <4>2, <4>3
    <3>3. QED
      BY <3>1, <3>2
  <2>8. QED
    BY <2>1, <2>4, <2>7
<1> HIDE DEF previous, found, ActionOf, listing, capture
<1>7. /\ m \in Memories /\ m.turn = mem[r].turn /\ m.hasPrevious = mem[r].hasPrevious
      /\ m.previous = previous /\ m.found = listing /\ m.capture = capture
      /\ m.completed = mem[r].completed /\ m.failed = mem[r].failed /\ m.unread = mem[r].unread \cup unread
  BY <1>1, <1>3, <1>4, <1>5 DEF Memories
<1> HIDE DEF m
<1>8. ASSUME pc'[r] = "carry" /\ mem'[r] = m PROVE Planned(r)' /\ Carried(r)'
  <2>1. mem'[r].completed = {} /\ mem'[r].failed = {}
    BY <1>1, <1>7, <1>8 DEF RunInv, Planned
  <2>2. FromBundle(mem[r])'
    BY <1>1, <1>5, <1>7, <1>8 DEF FromBundle, Quiet
  <2>3. \A f \in DOMAIN mem'[r].found \ mem'[r].capture :
          f \in DOMAIN mem'[r].previous /\ mem'[r].previous[f].version = mem'[r].found[f].published
    BY <1>6, <1>7, <1>8
  <2>4. QED
    BY <1>8, <2>1, <2>2, <2>3 DEF Planned, Carried
<1>9. pc[r] \in InTry /\ "carry" \in InTry
  BY <1>1 DEF InTry
<1>10. QED
  BY <1>1, <1>2, <1>7, <1>8, <1>9, InTryKeeps

-----------------------------------------------------------------------------
(* Filling the staging directory *)

LEMMA CarryForwardKeeps ==
  ASSUME UpdateInv, NEW r \in Runs, CarryForward(r)
  PROVE  UpdateInv'
<1> DEFINE carried == DOMAIN mem[r].previous \ mem[r].capture
           flows == [f \in carried |-> [mem[r].previous[f] EXCEPT !.published = 0, !.division = "none"]]
           m == [mem[r] EXCEPT !.skipped = carried, !.flows = flows]
<1>1. /\ TypeOK /\ pc[r] = "carry" /\ Quiet /\ UNCHANGED lock /\ mem[r] \in Memories /\ RunInv(r)
      /\ pc' = [pc EXCEPT ![r] = "fetch"]
  BY DEF UpdateInv, CarryForward, At, Quiet, TypeOK, Goto
<1>2. mem' = [mem EXCEPT ![r] = m]
  BY DEF CarryForward, Remember
<1>3. mem[r].previous \in Definitions
  BY <1>1 DEF Memories
<1>4. DOMAIN mem[r].previous \subseteq Flows /\ \A f \in DOMAIN mem[r].previous : mem[r].previous[f] \in Recorded
  BY <1>3, DefinitionsAre
<1>5. carried \subseteq Flows /\ flows \in Definitions
  <2>1. \A f \in carried : [mem[r].previous[f] EXCEPT !.published = 0, !.division = "none"] \in Recorded
    BY <1>4 DEF Recorded, Divisions
  <2>3. flows \in [carried -> Recorded]
    BY <2>1
  <2>2. QED
    BY <1>4, <2>3, MakeDefinitions
<1>6. /\ DOMAIN flows = carried
      /\ \A f \in carried : Same(flows[f], mem[r].previous[f]) /\ flows[f].published = 0
  BY <1>4 DEF Recorded, Same
<1> HIDE DEF flows
<1>7. /\ m \in Memories /\ m.turn = mem[r].turn /\ m.hasPrevious = mem[r].hasPrevious
      /\ m.previous = mem[r].previous /\ m.capture = mem[r].capture /\ m.found = mem[r].found
      /\ m.flows = flows /\ m.unread = mem[r].unread
  BY <1>1, <1>5 DEF Memories
<1> HIDE DEF m
<1>8. ASSUME pc'[r] = "fetch" /\ mem'[r] = m PROVE Planned(r)' /\ Carried(r)'
  <2>1. Planned(r)'
    BY <1>1, <1>7, <1>8 DEF RunInv, Planned, FromBundle, Quiet
  <2>2. Carried(r)'
    BY <1>6, <1>7, <1>8 DEF Carried
  <2>3. QED
    BY <2>1, <2>2
<1>9. pc[r] \in InTry /\ "fetch" \in InTry
  BY <1>1 DEF InTry
<1>10. QED
  BY <1>1, <1>2, <1>7, <1>8, <1>9, InTryKeeps

\* A run that is fetching stays in order when a flow it was to fetch is written and
\* found by the walk, or written with references unread, or not written at all.
LEMMA FetchKeeps ==
  ASSUME UpdateInv, NEW r \in Runs, pc[r] = "fetch", Quiet, UNCHANGED <<lock, pc>>,
         NEW f \in mem[r].capture, NEW m \in Memories, mem' = [mem EXCEPT ![r] = m],
         m.turn = mem[r].turn, m.hasPrevious = mem[r].hasPrevious, m.previous = mem[r].previous,
         m.capture = mem[r].capture, m.found = mem[r].found, m.unread = mem[r].unread,
         mem[r].nodes \subseteq m.nodes, mem[r].gap => m.gap,
         \/ m.flows = mem[r].flows
         \/ /\ DOMAIN m.flows = DOMAIN mem[r].flows \cup {f} /\ m.flows[f].published = 0
            /\ \A g \in DOMAIN mem[r].flows \ {f} : m.flows[g] = mem[r].flows[g]
            /\ m.gap \/ <<f, m.flows[f].content>> \in m.nodes
  PROVE  UpdateInv'
<1>1. RunInv(r) /\ TypeOK /\ pc = [pc EXCEPT ![r] = "fetch"]
  BY DEF UpdateInv, TypeOK
<1>2. pc' = [pc EXCEPT ![r] = "fetch"]
  BY <1>1
<1>3. ASSUME pc'[r] = "fetch" /\ mem'[r] = m PROVE Planned(r)' /\ Carried(r)'
  <2>1. Planned(r)'
    BY <1>1, <1>3 DEF RunInv, Planned, FromBundle, Quiet
  <2>2. /\ \A g \in DOMAIN mem[r].previous \ mem[r].capture :
             g # f /\ g \in DOMAIN mem[r].flows /\ Same(mem[r].flows[g], mem[r].previous[g])
        /\ \A g \in DOMAIN mem[r].flows :
             /\ mem[r].flows[g].published = 0
             /\ \/ g \in DOMAIN mem[r].previous \ mem[r].capture
                \/ mem[r].gap \/ <<g, mem[r].flows[g].content>> \in mem[r].nodes
    BY <1>1 DEF RunInv, Carried
  <2>3. \A g \in DOMAIN m.previous \ m.capture :
          g \in DOMAIN m.flows /\ Same(m.flows[g], m.previous[g])
    BY <2>2 DEF Same
  <2>4. \A g \in DOMAIN m.flows :
          /\ m.flows[g].published = 0
          /\ \/ g \in DOMAIN m.previous \ m.capture
             \/ m.gap \/ <<g, m.flows[g].content>> \in m.nodes
    BY <2>2
  <2>5. Carried(r)'
    BY <1>3, <2>3, <2>4 DEF Carried
  <2>6. QED
    BY <2>1, <2>5
<1>4. pc[r] \in InTry /\ "fetch" \in InTry
  BY DEF InTry
<1>5. QED
  BY <1>2, <1>3, <1>4, InTryKeeps

LEMMA LoadFlowKeeps ==
  ASSUME UpdateInv, NEW r \in Runs, NEW f \in Flows, LoadFlow(r, f)
  PROVE  UpdateInv'
<1> DEFINE w == Written(mem[r], f)
           m == [w EXCEPT !.completed = @ \cup {f}, !.nodes = @ \cup {<<f, Loaded(mem[r], f).content>>}]
<1>1. /\ TypeOK /\ pc[r] = "fetch" /\ Quiet /\ UNCHANGED <<lock, pc>> /\ mem[r] \in Memories
      /\ f \in mem[r].capture
  BY DEF UpdateInv, LoadFlow, At, Quiet, TypeOK, Todo
<1>2. mem' = [mem EXCEPT ![r] = m]
  BY DEF LoadFlow, Remember
<1>3. /\ w \in Memories
      /\ w.flows[f] = Loaded(mem[r], f)
      /\ DOMAIN w.flows = DOMAIN mem[r].flows \cup {f}
      /\ \A g \in DOMAIN mem[r].flows \ {f} : w.flows[g] = mem[r].flows[g]
      /\ w = [mem[r] EXCEPT !.draft = <<>>, !.flows = w.flows]
  BY <1>1, WrittenIs
<1>l. Loaded(mem[r], f).published = 0
  BY <1>1, LoadedIs
<1>4. <<f, Loaded(mem[r], f).content>> \in Nodes
  BY <1>1, LoadedIs
<1> HIDE DEF w
<1>5. /\ w.turn = mem[r].turn /\ w.hasPrevious = mem[r].hasPrevious /\ w.previous = mem[r].previous
      /\ w.capture = mem[r].capture /\ w.found = mem[r].found /\ w.nodes = mem[r].nodes /\ w.gap = mem[r].gap
      /\ w.unread = mem[r].unread
  <2> DEFINE F == w.flows
  <2>1. w = [mem[r] EXCEPT !.draft = <<>>, !.flows = F]
    BY <1>3
  <2> HIDE DEF F
  <2>2. QED
    BY <1>1, <2>1 DEF Memories
<1>6. /\ m \in Memories /\ m.turn = w.turn /\ m.hasPrevious = w.hasPrevious /\ m.previous = w.previous
      /\ m.capture = w.capture /\ m.found = w.found /\ m.gap = w.gap
      /\ m.flows = w.flows /\ m.nodes = w.nodes \cup {<<f, Loaded(mem[r], f).content>>}
      /\ m.unread = w.unread
  BY <1>3, <1>4 DEF Memories
<1> HIDE DEF m
<1>7. /\ DOMAIN m.flows = DOMAIN mem[r].flows \cup {f} /\ m.flows[f].published = 0
      /\ \A g \in DOMAIN mem[r].flows \ {f} : m.flows[g] = mem[r].flows[g]
      /\ <<f, m.flows[f].content>> \in m.nodes
  BY <1>3, <1>l, <1>6
<1>8. QED
  BY <1>1, <1>2, <1>5, <1>6, <1>7, FetchKeeps

LEMMA LoadDraftKeeps ==
  ASSUME UpdateInv, NEW r \in Runs, NEW f \in Flows, LoadDraft(r, f)
  PROVE  UpdateInv'
<1> DEFINE m == [mem[r] EXCEPT !.draft = <<f, org[f].latest>>]
<1>1. /\ TypeOK /\ pc[r] = "fetch" /\ Quiet /\ UNCHANGED <<lock, pc>> /\ mem[r] \in Memories
      /\ f \in mem[r].capture
  BY DEF UpdateInv, LoadDraft, At, Quiet, TypeOK, Todo
<1>2. mem' = [mem EXCEPT ![r] = m]
  BY DEF LoadDraft, Remember
<1>3. <<f, org[f].latest>> \in Flows \X Nat
  BY <1>1 DEF TypeOK, Listed
<1>4. /\ m \in Memories /\ m.turn = mem[r].turn /\ m.hasPrevious = mem[r].hasPrevious
      /\ m.previous = mem[r].previous /\ m.capture = mem[r].capture /\ m.found = mem[r].found
      /\ m.gap = mem[r].gap /\ m.flows = mem[r].flows /\ m.nodes = mem[r].nodes
      /\ m.unread = mem[r].unread
  BY <1>1, <1>3 DEF Memories
<1> HIDE DEF m
<1>5. QED
  BY <1>1, <1>2, <1>4, FetchKeeps

LEMMA LoadFailsKeeps ==
  ASSUME UpdateInv, NEW r \in Runs, NEW f \in Flows, LoadFails(r, f)
  PROVE  UpdateInv'
<1> DEFINE m == [mem[r] EXCEPT !.draft = <<>>, !.failed = @ \cup {f}]
<1>1. /\ TypeOK /\ pc[r] = "fetch" /\ Quiet /\ UNCHANGED <<lock, pc>> /\ mem[r] \in Memories
      /\ f \in mem[r].capture
  BY DEF UpdateInv, LoadFails, At, Quiet, TypeOK, Todo
<1>2. mem' = [mem EXCEPT ![r] = m]
  BY DEF LoadFails, Remember
<1>3. /\ m \in Memories /\ m.turn = mem[r].turn /\ m.hasPrevious = mem[r].hasPrevious
      /\ m.previous = mem[r].previous /\ m.capture = mem[r].capture /\ m.found = mem[r].found
      /\ m.gap = mem[r].gap /\ m.flows = mem[r].flows /\ m.nodes = mem[r].nodes
      /\ m.unread = mem[r].unread
  BY <1>1 DEF Memories
<1> HIDE DEF m
<1>4. QED
  BY <1>1, <1>2, <1>3, FetchKeeps

LEMMA ReferencesFailKeeps ==
  ASSUME UpdateInv, NEW r \in Runs, NEW f \in Flows, ReferencesFail(r, f)
  PROVE  UpdateInv'
<1> DEFINE w == Written(mem[r], f)
           m == [w EXCEPT !.failed = @ \cup {f}, !.gap = TRUE]
<1>1. /\ TypeOK /\ pc[r] = "fetch" /\ Quiet /\ UNCHANGED <<lock, pc>> /\ mem[r] \in Memories
      /\ f \in mem[r].capture
  BY DEF UpdateInv, ReferencesFail, At, Quiet, TypeOK, Todo
<1>2. mem' = [mem EXCEPT ![r] = m]
  BY DEF ReferencesFail, Remember
<1>3. /\ w \in Memories
      /\ w.flows[f] = Loaded(mem[r], f)
      /\ DOMAIN w.flows = DOMAIN mem[r].flows \cup {f}
      /\ \A g \in DOMAIN mem[r].flows \ {f} : w.flows[g] = mem[r].flows[g]
      /\ w = [mem[r] EXCEPT !.draft = <<>>, !.flows = w.flows]
  BY <1>1, WrittenIs
<1>l. Loaded(mem[r], f).published = 0
  BY <1>1, LoadedIs
<1> HIDE DEF w
<1>4. /\ w.turn = mem[r].turn /\ w.hasPrevious = mem[r].hasPrevious /\ w.previous = mem[r].previous
      /\ w.capture = mem[r].capture /\ w.found = mem[r].found /\ w.nodes = mem[r].nodes
      /\ w.unread = mem[r].unread
  <2> DEFINE F == w.flows
  <2>1. w = [mem[r] EXCEPT !.draft = <<>>, !.flows = F]
    BY <1>3
  <2> HIDE DEF F
  <2>2. QED
    BY <1>1, <2>1 DEF Memories
<1>5. /\ m \in Memories /\ m.turn = w.turn /\ m.hasPrevious = w.hasPrevious /\ m.previous = w.previous
      /\ m.capture = w.capture /\ m.found = w.found /\ m.gap = TRUE
      /\ m.flows = w.flows /\ m.nodes = w.nodes /\ m.unread = w.unread
  BY <1>3 DEF Memories
<1> HIDE DEF m
<1>6. /\ DOMAIN m.flows = DOMAIN mem[r].flows \cup {f} /\ m.flows[f].published = 0
      /\ \A g \in DOMAIN mem[r].flows \ {f} : m.flows[g] = mem[r].flows[g]
  BY <1>3, <1>l, <1>5
<1>7. /\ m.turn = mem[r].turn /\ m.hasPrevious = mem[r].hasPrevious /\ m.previous = mem[r].previous
      /\ m.capture = mem[r].capture /\ m.found = mem[r].found /\ m.unread = mem[r].unread
      /\ mem[r].nodes \subseteq m.nodes /\ m.gap
  BY <1>4, <1>5
<1>8. m \in Memories
  BY <1>5
<1>9. QED
  BY <1>1, <1>2, <1>6, <1>7, <1>8, FetchKeeps

\* The merge makes the walk of this run cover what was carried forward: the graph
\* of the bundle it came from covers it, or is known to have a gap.
LEMMA WalkAndMergeKeeps ==
  ASSUME UpdateInv, NEW r \in Runs, WalkAndMerge(r)
  PROVE  UpdateInv'
<1>1. /\ TypeOK /\ GraphCovers /\ pc[r] = "fetch" /\ Quiet /\ UNCHANGED lock /\ mem[r] \in Memories
      /\ RunInv(r) /\ Todo(r) = {} /\ pc' = [pc EXCEPT ![r] = "promote"]
  BY DEF UpdateInv, WalkAndMerge, At, Quiet, TypeOK, Goto
<1>2. PICK graph \in {ReadPreviousGraph(r), Unread} :
        mem' = [mem EXCEPT ![r] = MergeResourceGraphs(graph, mem[r])]
  BY DEF WalkAndMerge, Remember
<1>3. /\ graph.nodes \subseteq Nodes /\ graph.gap \in BOOLEAN
      /\ graph = Unread \/ graph = ReadPreviousGraph(r)
  <2>1. bundle.nodes \subseteq Nodes /\ bundle.gap \in BOOLEAN
    BY <1>1 DEF TypeOK, Bundles
  <2>2. Unread.nodes = {} /\ Unread.gap = TRUE
    BY DEF Unread
  <2>3. mem[r].hasPrevious =>
          ReadPreviousGraph(r).nodes = bundle.nodes /\ ReadPreviousGraph(r).gap = bundle.gap
    BY DEF ReadPreviousGraph
  <2>4. ~mem[r].hasPrevious =>
          ReadPreviousGraph(r).nodes = {} /\ ReadPreviousGraph(r).gap = FALSE
    BY DEF ReadPreviousGraph
  <2>5. graph.nodes \subseteq Nodes
    BY <1>2, <2>1, <2>2, <2>3, <2>4
  <2>6. graph.gap \in BOOLEAN
    BY <1>2, <2>1, <2>2, <2>3, <2>4, Zenon
  <2>7. QED
    BY <1>2, <2>5, <2>6
<1> DEFINE m == MergeResourceGraphs(graph, mem[r])
<1>4. /\ m \in Memories /\ m.turn = mem[r].turn /\ m.hasPrevious = mem[r].hasPrevious
      /\ m.previous = mem[r].previous /\ m.capture = mem[r].capture /\ m.found = mem[r].found
      /\ m.flows = mem[r].flows /\ m.completed = mem[r].completed /\ m.failed = mem[r].failed
      /\ m.unread = mem[r].unread /\ m.nodes = mem[r].nodes \cup graph.nodes /\ (m.gap <=> mem[r].gap \/ graph.gap)
  <2>1. (mem[r].gap \/ graph.gap) \in BOOLEAN /\ mem[r].nodes \cup graph.nodes \in SUBSET Nodes
    BY <1>1, <1>3 DEF Memories
  <2>2. m = [mem[r] EXCEPT !.nodes = mem[r].nodes \cup graph.nodes, !.gap = mem[r].gap \/ graph.gap]
    BY DEF MergeResourceGraphs
  <2>3. QED
    BY <1>1, <2>1, <2>2, ZenonT(40) DEF Memories
<1> HIDE DEF m
<1>5. ~m.gap => \A f \in DOMAIN m.flows : <<f, m.flows[f].content>> \in m.nodes
  <2>1. SUFFICES ASSUME ~m.gap, NEW f \in DOMAIN mem[r].flows
                 PROVE  <<f, mem[r].flows[f].content>> \in m.nodes
    BY <1>4
  <2>2. ~mem[r].gap /\ ~graph.gap /\ graph = ReadPreviousGraph(r)
    BY <1>3, <1>4, <2>1 DEF Unread
  <2>3. CASE <<f, mem[r].flows[f].content>> \in mem[r].nodes
    BY <1>4, <2>3
  <2>4. CASE f \in DOMAIN mem[r].previous \ mem[r].capture
    <3>1. mem[r].flows[f].content = mem[r].previous[f].content /\ FromBundle(mem[r])
      BY <1>1, <2>4 DEF RunInv, Carried, Planned, Same
    <3>2. mem[r].hasPrevious /\ f \in DOMAIN bundle.flows /\ mem[r].previous[f] = bundle.flows[f]
      BY <2>4, <3>1 DEF FromBundle
    <3>3. graph.nodes = bundle.nodes /\ ~bundle.gap
      BY <2>2, <3>2 DEF ReadPreviousGraph
    <3>4. <<f, mem[r].flows[f].content>> \in bundle.nodes
      BY <1>1, <2>4, <3>1, <3>2, <3>3 DEF GraphCovers
    <3>5. QED
      BY <1>4, <3>3, <3>4
  <2>5. QED
    BY <1>1, <2>2, <2>3, <2>4 DEF RunInv, Carried
<1>6. ASSUME pc'[r] = "promote" /\ mem'[r] = m PROVE Planned(r)' /\ Carried(r)'
  <2>1. Planned(r)'
    BY <1>1, <1>4, <1>6 DEF RunInv, Planned, FromBundle, Quiet
  <2>2. m.capture \subseteq m.completed \cup m.failed
    BY <1>1, <1>4 DEF Todo
  <2>3. /\ \A g \in DOMAIN m.previous \ m.capture :
             g \in DOMAIN m.flows /\ Same(m.flows[g], m.previous[g])
        /\ \A g \in DOMAIN m.flows : m.flows[g].published = 0
    BY <1>1, <1>4 DEF RunInv, Carried
  <2>4. Carried(r)'
    BY <1>5, <1>6, <2>2, <2>3 DEF Carried
  <2>5. QED
    BY <2>1, <2>4
<1>7. pc[r] \in InTry /\ "promote" \in InTry
  BY <1>1 DEF InTry
<1>8. mem' = [mem EXCEPT ![r] = m]
  BY <1>2 DEF m
<1>9. QED
  BY <1>1, <1>4, <1>6, <1>7, <1>8, InTryKeeps

-----------------------------------------------------------------------------
(* Publishing *)

LEMMA PromoteKeeps ==
  ASSUME UpdateInv, NEW r \in Runs, Promote(r)
  PROVE  UpdateInv'
<1>1. /\ TypeOK /\ Held /\ Behind /\ pc[r] = "promote" /\ UNCHANGED <<org, lock, mem, full>>
      /\ RunInv(r) /\ mem[r] \in Memories /\ lock = {r} /\ pc' = [pc EXCEPT ![r] = "save"]
  BY DEF UpdateInv, Promote, At, TypeOK, Goto, Held, InTry
<1>2. bundle' = [mode |-> "context", flows |-> mem[r].flows, nodes |-> mem[r].nodes,
                 gap |-> mem[r].gap, turn |-> bundle.turn + 1]
  BY DEF Promote
<1>3. /\ bundle' \in Bundles /\ bundle'.flows = mem[r].flows /\ bundle'.nodes = mem[r].nodes
      /\ (bundle'.gap <=> mem[r].gap) /\ bundle'.turn = bundle.turn + 1 /\ bundle'.mode # "none"
  <2>1. bundle.turn + 1 \in Nat
    BY <1>1 DEF TypeOK, Bundles
  <2>2. QED
    BY <1>1, <1>2, <2>1 DEF Bundles, Memories
<1>4. pc'[r] = "save" /\ \A s \in Runs : s # r => pc'[s] = pc[s]
  BY <1>1 DEF TypeOK
<1>5. TypeOK'
  BY <1>1, <1>3 DEF TypeOK, InTry
<1>6. Held'
  BY <1>1, <1>4 DEF Held, InTry
<1>7. \A f \in DOMAIN mem[r].flows : mem[r].flows[f].published = 0
  BY <1>1 DEF RunInv, Carried
<1>8. Behind'
  BY <1>1, <1>3, <1>7 DEF Behind, Exists
<1>9. NoneIsEmpty' /\ GraphCovers'
  BY <1>1, <1>3 DEF RunInv, Carried, NoneIsEmpty, GraphCovers
<1>10. ASSUME NEW s \in Runs PROVE RunInv(s)'
  <2>1. CASE s = r
    <3>1. mem[r].turn \in Nat /\ bundle.turn \in Nat /\ mem[r].turn <= bundle.turn
      BY <1>1 DEF TypeOK, Memories, Bundles, RunInv, Looked, InTry
    <3>2. Looked(r)'
      BY <1>1, <1>3, <3>1 DEF Looked
    <3>3. Planned(r)'
      BY <1>1, <1>4 DEF RunInv, Planned
    <3>4. Carried(r)'
      BY <1>1, <1>4 DEF RunInv, Carried
    <3>5. QED
      BY <2>1, <3>2, <3>3, <3>4 DEF RunInv
  <2>2. CASE s # r
    <3>1. pc[s] \notin InTry
      BY <1>1, <2>2 DEF Held
    <3>2. QED
      BY <1>1, <1>3, <1>4, <2>2, <3>1, BundleReplaced DEF UpdateInv
  <2>3. QED
    BY <2>1, <2>2
<1>11. QED
  BY <1>5, <1>6, <1>8, <1>9, <1>10 DEF UpdateInv

LEMMA EndingsKeep ==
  ASSUME UpdateInv, NEW r \in Runs, Save(r) \/ Throw(r) \/ Crash(r)
  PROVE  UpdateInv'
<1>1. Quiet
  BY DEF Save, Throw, Crash, Quiet
<1>2. \E how \in Ended : End(r, how)
  BY DEF Save, Throw, Crash, Outcome, Ended
<1>3. QED
  BY <1>1, <1>2, EndKeeps

-----------------------------------------------------------------------------
(* The invariant, and the theorems *)

LEMMA UpdateInit == Init => UpdateInv
<1> SUFFICES ASSUME Init PROVE UpdateInv
  OBVIOUS
<1>1. \A r \in Runs : RunInv(r)
  BY DEF Init, RunInv, Looked, Planned, Carried, InTry
<1>2. TypeOK
  BY FreshIs DEF Init, TypeOK, Listed, Divisions, Ended
<1>3. Held /\ Behind /\ NoneIsEmpty /\ GraphCovers
  BY FreshIs DEF Init, Held, Behind, NoneIsEmpty, GraphCovers, InTry
<1>4. QED
  BY <1>1, <1>2, <1>3 DEF UpdateInv

LEMMA UpdateStep == UpdateInv /\ [Next]_vars => UpdateInv'
<1> SUFFICES ASSUME UpdateInv, [Next]_vars PROVE UpdateInv'
  OBVIOUS
<1>1. ASSUME NEW f \in Flows, Edit(f) PROVE UpdateInv'
  BY <1>1, EditKeeps
<1>2. CASE FullBegin \/ FullPromote
  BY <1>2, FullBeginKeeps, FullPromoteKeeps
<1>3. ASSUME NEW r \in Runs, Look(r) \/ Lock(r) \/ Connect(r) \/ Plan(r) \/ CarryForward(r)
      PROVE  UpdateInv'
  BY <1>3, LookKeeps, LockKeeps, ConnectKeeps, PlanKeeps, CarryForwardKeeps
<1>4. ASSUME NEW r \in Runs, Fetch(r) PROVE UpdateInv'
  BY <1>4, LoadDraftKeeps, LoadFlowKeeps, LoadFailsKeeps, ReferencesFailKeeps DEF Fetch
<1>5. ASSUME NEW r \in Runs, WalkAndMerge(r) \/ Promote(r) PROVE UpdateInv'
  BY <1>5, WalkAndMergeKeeps, PromoteKeeps
<1>6. ASSUME NEW r \in Runs, Save(r) \/ Throw(r) \/ Crash(r) PROVE UpdateInv'
  BY <1>6, EndingsKeep
<1>7. CASE UNCHANGED vars
  BY <1>7 DEF vars, UpdateInv, TypeOK, Held, Behind, Exists, NoneIsEmpty, GraphCovers, RunInv, Looked,
     Planned, Carried, FromBundle
<1>8. QED
  BY <1>1, <1>2, <1>3, <1>4, <1>5, <1>6, <1>7 DEF Next, Step

\* The invariant of the captures of one root: besides the types, whoever is inside
\* its try block holds the lock alone, what a bundle knows of a flow is never ahead
\* of the organization, and what a run plans from is the bundle it will replace.
THEOREM UpdatesAreConsistent == Spec => []UpdateInv
<1>1. QED
  BY UpdateInit, UpdateStep, PTL DEF Spec

\* "A real change is never missed": whatever was edited, published, moved or
\* deleted, and whichever captures came before, a flow that a run carries forward
\* as unchanged is filed under the version that discovery lists as published, and is
\* that version's definition unless it was loaded before the flow was published.
THEOREM NoChangeIsMissed == Spec => []SkippedIsCurrent
<1>1. UpdateInv => SkippedIsCurrent
  <2> SUFFICES ASSUME UpdateInv, NEW r \in Runs, pc[r] \in {"fetch", "promote", "save"},
                      NEW f \in DOMAIN mem[r].found \ mem[r].capture
               PROVE  /\ mem[r].flows[f].version = mem[r].found[f].published
                      /\ mem[r].flows[f].draft \/ mem[r].flows[f].content = mem[r].flows[f].version
    BY DEF SkippedIsCurrent
  <2>1. Planned(r) /\ Carried(r) /\ mem[r].flows \in Definitions
    BY DEF UpdateInv, RunInv, TypeOK, Memories
  <2>2. f \in DOMAIN mem[r].previous /\ mem[r].previous[f].version = mem[r].found[f].published
    BY <2>1 DEF Planned
  <2>3. f \in DOMAIN mem[r].flows /\ mem[r].flows[f].version = mem[r].previous[f].version
    BY <2>1, <2>2 DEF Carried, Same
  <2>4. mem[r].flows[f] \in Recorded
    BY <2>1, <2>3, DefinitionsAre
  <2>5. QED
    BY <2>2, <2>3, <2>4 DEF Recorded
<1>2. QED
  BY <1>1, UpdatesAreConsistent, PTL

\* The resource graph of a bundle knows what every definition in it refers to,
\* whichever runs those definitions come from, unless some run reported references it
\* could not read, or could not read the graph of the bundle before, which it reports
\* to nobody.
THEOREM GraphCoversTheBundle == Spec => []GraphCovers
<1>1. UpdateInv => GraphCovers
  BY DEF UpdateInv
<1>2. QED
  BY <1>1, UpdatesAreConsistent, PTL

\* What replaces the bundle has every flow of it that was neither fetched, reported
\* as failed nor unreadable, with the definition it had, unless a full capture came
\* between the run's look at the bundle and its lock.
THEOREM NothingIsLeftOut == Spec => CarriesTheRest
<1> DEFINE Carries ==
      \A r \in Runs : Promote(r) /\ Undisturbed(r) =>
        \A f \in DOMAIN bundle.flows \ (mem[r].completed \cup mem[r].failed \cup mem[r].unread) :
          /\ f \in DOMAIN bundle'.flows
          /\ bundle'.flows[f].version = bundle.flows[f].version
          /\ bundle'.flows[f].content = bundle.flows[f].content
<1>1. UpdateInv /\ [Next]_vars => [Carries]_vars
  <2> SUFFICES ASSUME UpdateInv, NEW r \in Runs, Promote(r), Undisturbed(r),
                      NEW f \in DOMAIN bundle.flows \ (mem[r].completed \cup mem[r].failed \cup mem[r].unread)
               PROVE  /\ f \in DOMAIN bundle'.flows
                      /\ bundle'.flows[f].version = bundle.flows[f].version
                      /\ bundle'.flows[f].content = bundle.flows[f].content
    OBVIOUS
  <2>1. /\ pc[r] = "promote" /\ Looked(r) /\ Planned(r) /\ Carried(r) /\ NoneIsEmpty
        /\ bundle'.flows = mem[r].flows
    BY DEF UpdateInv, RunInv, Promote, At
  <2>2. mem[r].hasPrevious
    BY <2>1 DEF Looked, Undisturbed, InTry
  <2>3. f \in DOMAIN mem[r].previous /\ mem[r].previous[f] = bundle.flows[f]
    BY <2>1, <2>2 DEF Planned, FromBundle
  <2>4. f \notin mem[r].capture
    BY <2>1 DEF Carried
  <2>5. QED
    BY <2>1, <2>3, <2>4 DEF Carried, Same
<1>2. Spec => [][Carries]_vars
  BY <1>1, UpdatesAreConsistent, PTL DEF Spec
<1>3. QED
  BY <1>2 DEF CarriesTheRest

=============================================================================
