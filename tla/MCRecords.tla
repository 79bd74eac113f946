------------------------------- MODULE MCRecords -------------------------------
(***************************************************************************)
(* What is made of captured flows: the documents of several runs and the   *)
(* renames that put them there, a sealed bundle and its copy, what a       *)
(* model's draft may add about a flow, the diff of two versions and the    *)
(* analysis of a graph.  A behaviour is of one of them, chosen at the      *)
(* start.                                                                  *)
(***************************************************************************)
EXTENDS MCDocumentSet, MCFlow

CONSTANTS
  w1, w2, SwapAttempts, SwapFaults, SwapCrashes,
  Versions, Texts, Formats, Resources, Digests, Users, Lost, Garbled, MaxWrites, MaxDamage,
  NoSubject, Fabricated, Sections, Strange, MaxAttempts, MaxDraft, MaxKept, MaxChars

VARIABLES
  live, previous, staging, journal, writer, cur, archived, hurt, swaps, swapFaults, swapCrashes,
  committed, recStep, recTodo, recId, recVerdict,
  written, writes, disk, sealed, damage, verified,
  evidence, pack, attempts, request, draft, outcome

\* The documents are promoted by any run, without a lock and without a recovery.
P == INSTANCE AtomicPromotion WITH
       Writers <- {w1, w2}, MaxAttempts <- SwapAttempts, MaxFaults <- SwapFaults, MaxCrashes <- SwapCrashes,
       CanFault <- {"archive", "swap", "rollback", "rm", "journal"},
       FixedId <- FALSE, Exclusive <- FALSE, RecoveryMode <- "never",
       pc <- writer, attempts <- swaps, faults <- swapFaults, crashes <- swapCrashes

B == INSTANCE BundleSeal

\* Three nodes of two types, an edge, two variables of which a pack shows one, and a
\* dependency; the flow starts and ends with two nodes, of which it shows one.
MCGroup(x) == IF x = 2 THEN "Task" ELSE IF x = 4 THEN "next" ELSE "Menu"
C == INSTANCE Claims WITH
       Nodes <- {1, 2, 3}, Edges <- {4}, Variables <- {5, 6}, Dependencies <- {7},
       Group <- MCGroup, Ends <- {{1, 3}},
       MaxVariables <- 1, MaxDependencies <- 1, MaxWarnings <- 1, MaxEnds <- 1, MaxPerAggregate <- 1,
       MaxClaimsPerSection <- MaxKept, MaxSectionChars <- MaxChars,
       MaxClaimsPerDraft <- MaxKept, MaxDraftChars <- MaxChars,
       source <- evidence

ASSUME RecordsAssumption ==
  /\ Lost # Garbled /\ {MaxWrites, MaxDamage} \subseteq Nat
  /\ Strange \notin Sections /\ {MaxAttempts, MaxDraft, MaxKept, MaxChars} \subseteq Nat \ {0}
  /\ {SwapAttempts} \subseteq Nat \ {0} /\ {SwapFaults, SwapCrashes} \subseteq Nat

\* What a bundle's record, its hash and its manifest are made of; what cannot be read is
\* none of it.
Partial(keys, values) == UNION {[S -> values] : S \in SUBSET keys}
Metas == [format : Formats]
Bodies == [stable : Texts, volatile : Texts]
Usage == Partial(Digests, [Users -> 0..MaxWrites])
Hashes == [flows : Partial(Flows \X Versions, [definition : Texts, meta : Metas]),
           resources : Partial(Resources, Texts), graph : SUBSET B!Graphs, assets : Usage]
Totals == [flows : Nat, resources : Nat, assets : Nat, unresolvedReferences : Nat]
Manifests == [contentHash : Hashes, counts : Totals, archyImportableYaml : BOOLEAN]

ASSUME BundleAssumption ==
  /\ IsFiniteSet(Flows) /\ IsFiniteSet(Versions) /\ IsFiniteSet(Resources) /\ IsFiniteSet(Digests)
  /\ Lost \notin Texts /\ Lost \notin Metas /\ Lost \notin Bodies
  /\ Garbled \notin Texts /\ Garbled \notin Metas /\ Garbled \notin Bodies
  /\ Garbled \notin B!Graphs /\ Garbled \notin Usage /\ Garbled \notin Manifests
  /\ Garbled \notin [hash : Hashes, counts : Totals]

documentSet == vars
swap == <<live, previous, staging, journal, writer, cur, archived, hurt, swaps, swapFaults,
          swapCrashes, committed, recStep, recTodo, recId, recVerdict>>
bundleSeal == <<written, writes, disk, sealed, damage, verified>>
claims == <<evidence, pack, attempts, request, draft, outcome>>

RecordsInit ==
  /\ subject \in {"documents", "swap", "bundle", "claims", "diff", "graph"}
  /\ Init /\ P!Init /\ B!Init /\ FlowInit
  /\ C!Init /\ (subject # "claims" =>
                  evidence = [entry |-> {1, 3}, terminal |-> {1, 3}, findings |-> {}])

RecordsNext ==
  /\ UNCHANGED subject
  /\ \/ subject = "documents" /\ Next /\ UNCHANGED <<swap, bundleSeal, claims, diff, analysis>>
     \/ subject = "swap"   /\ P!Next /\ UNCHANGED <<documentSet, bundleSeal, claims, diff, analysis>>
     \/ subject = "bundle" /\ B!Next /\ UNCHANGED <<documentSet, swap, claims, diff, analysis>>
     \/ subject = "claims" /\ C!Next /\ UNCHANGED <<documentSet, swap, bundleSeal, diff, analysis>>
     \/ FlowNext /\ UNCHANGED <<documentSet, swap, bundleSeal, claims>>

RecordsSpec ==
  RecordsInit /\ [][RecordsNext]_<<subject, documentSet, swap, bundleSeal, claims, diff, analysis>>

-----------------------------------------------------------------------------
(* The instances' properties, as their modules state them *)

\* Whatever two writers do to each other, the version last made live stays on disk.
LastGoodKept == P!LastGoodKept
\* A bundle verifies exactly when what its seal covers is what was sealed.
SealHolds == B!SealHolds
\* Only grounded claims are kept, and none is dropped without a code.
NarrationIsGrounded == C!NarrationIsGrounded

=============================================================================
