------------------------------- MODULE BundleSeal -------------------------------
(***************************************************************************)
(* A capture bundle from the first write to the verification of a copy:    *)
(* BundleWriter keeps a record of what it writes and hashes the record,    *)
(* verifyBundle rebuilds the record from the files and hashes it again.    *)
(* Between the two the bundle is kept and copied, and files are lost,      *)
(* changed, or merged with those of an older copy.                         *)
(*                                                                         *)
(* A hash is what was hashed.  A definition or a body is written with what *)
(* is hashed of it (stable) and with what is not (volatile).  A JSON file  *)
(* that does not parse is Garbled; a definition or a flow.json whose       *)
(* directory is there without it, Lost.                                    *)
(***************************************************************************)
EXTENDS Integers, Sequences, FiniteSets, Functions

CONSTANTS
  Flows, Versions, Texts, Formats, Resources, Digests, Users,
  Lost, Garbled,
  MaxWrites, MaxDamage

VARIABLES
  written,      \* the writer's record
  writes,
  disk,         \* the bundle's directory
  sealed,       \* the directory as it was when seal() returned, {} before
  damage,
  verified      \* the codes verifyBundle reported, as a set; {} before it ran

vars == <<written, writes, disk, sealed, damage, verified>>

Empty == [x \in {} |-> {}]
None == [flows |-> Empty, resources |-> Empty, graph |-> {}, assets |-> Empty]

Init ==
  /\ written = None /\ writes = 0 /\ sealed = {} /\ damage = 0 /\ verified = {}
  /\ disk = [meta |-> Empty, definitions |-> Empty, resources |-> Empty, graph |-> {},
             index |-> {}, files |-> Empty, manifest |-> {}]

Put(f, k, value) == [x \in DOMAIN f \cup {k} |-> IF x = k THEN value ELSE f[x]]
Without(f, k) == Restrict(f, DOMAIN f \ {k})

-----------------------------------------------------------------------------
(* BundleWriter and its AssetStore *)

Writing == sealed = {} /\ writes < MaxWrites /\ writes' = writes + 1 /\ UNCHANGED <<sealed, damage, verified>>

\* A capture writes one version of a flow.
WriteFlow(flowId, versionId, definition, meta) ==
  /\ Writing /\ \A k \in DOMAIN written.flows : k[1] # flowId
  /\ written' = [written EXCEPT !.flows = Put(@, <<flowId, versionId>>, [definition |-> definition, meta |-> meta])]
  /\ disk' = [disk EXCEPT !.definitions = Put(@, <<flowId, versionId, meta.format>>, definition),
                          !.meta = Put(@, flowId, meta)]

WriteResource(id, body) ==
  /\ Writing
  /\ written' = [written EXCEPT !.resources = Put(@, id, body)]
  /\ disk' = [disk EXCEPT !.resources = Put(@, id, body)]

\* The writer knows an asset by its address, the store by its digest.  Its users are
\* counted: the sorted array they are hashed as keeps duplicates.
Address(digest) == <<"sha256", digest>>
Users0(f, k) == IF k \in DOMAIN f THEN f[k] ELSE [u \in Users |-> 0]
PutAsset(digest, usedBy) ==
  /\ Writing
  /\ LET users == [Users0(written.assets, Address(digest)) EXCEPT ![usedBy] = @ + 1]
     IN written' = [written EXCEPT !.assets = Put(@, Address(digest), users)]
  /\ disk' = [disk EXCEPT !.files = Put(@, digest, digest)]

WriteResourceGraph(graph) ==
  /\ Writing /\ written' = [written EXCEPT !.graph = {graph}] /\ disk' = [disk EXCEPT !.graph = {graph}]

\* BUNDLE_CANONICAL: the arrays of the record are compared as bags, the edges as a
\* sequence.  Left out are a definition's line endings and Unicode form, and, of a body,
\* the order of its arrays and what the API stamps on it at each request.
CanonicalFlow(flow) == [definition |-> flow.definition.stable, meta |-> flow.meta]
Canonical(record) ==
  [record EXCEPT !.flows = [k \in DOMAIN @ |-> CanonicalFlow(@[k])],
                 !.resources = [id \in DOMAIN @ |-> @[id].stable]]

Unresolved(graph) == UNION {{n \in DOMAIN g.nodes : g.nodes[n] # "resolved"} : g \in graph}
Counts(record) ==
  [flows |-> Cardinality(DOMAIN record.flows), resources |-> Cardinality(DOMAIN record.resources),
   assets |-> Cardinality(DOMAIN record.assets), unresolvedReferences |-> Cardinality(Unresolved(record.graph))]

\* Mutant: assets are hashed under the address they are referenced by.
ByDigest_Address(assets) == assets
ByDigest(assets) == [d \in {a[2] : a \in DOMAIN assets} |-> assets[Address(d)]]

Seal ==
  /\ sealed = {} /\ UNCHANGED <<written, writes, damage, verified>>
  /\ LET record == [written EXCEPT !.assets = ByDigest(@)]
         manifest == [contentHash |-> Canonical(record), counts |-> Counts(record),
                      archyImportableYaml |-> DOMAIN written.flows # {} /\ Unresolved(written.graph) = {}]
         index == IF DOMAIN written.assets = {} THEN {}
                  ELSE {[d \in DOMAIN disk.files |-> written.assets[Address(d)]]}
     IN disk' = [disk EXCEPT !.index = index, !.manifest = {manifest}]
  /\ sealed' = {disk'}

-----------------------------------------------------------------------------
(* What happens to a copy *)

Damaged(as) ==
  /\ sealed # {} /\ verified = {} /\ damage < MaxDamage /\ damage' = damage + 1
  /\ disk' = as /\ UNCHANGED <<written, writes, sealed, verified>>

DefinitionDamaged ==
  \E k \in DOMAIN disk.definitions : \E text \in {Lost} \cup [stable : Texts, volatile : Texts] :
    Damaged([disk EXCEPT !.definitions[k] = text])
FlowMetaDamaged ==
  \E f \in DOMAIN disk.meta : \E as \in {Lost, Garbled} \cup [format : Formats] :
    Damaged([disk EXCEPT !.meta[f] = as])
OlderCopyMerged ==
  \E f \in DOMAIN disk.meta, v \in Versions, text \in [stable : Texts, volatile : Texts], format \in Formats :
    Damaged([disk EXCEPT !.definitions = Put(@, <<f, v, format>>, text)])
FlowLost ==
  \E f \in DOMAIN disk.meta :
    Damaged([disk EXCEPT !.meta = Without(@, f),
               !.definitions = Restrict(@, {k \in DOMAIN @ : k[1] # f})])
ResourceDamaged ==
  \E id \in DOMAIN disk.resources :
    \/ Damaged([disk EXCEPT !.resources = Without(@, id)])
    \/ \E as \in {Garbled} \cup [stable : Texts, volatile : Texts] :
         Damaged([disk EXCEPT !.resources[id] = as])
GraphDamaged ==
  \E g \in disk.graph :
    \/ Damaged([disk EXCEPT !.graph = {}])
    \/ g # Garbled /\ \E as \in {Garbled, [g EXCEPT !.edges = <<@[2], @[1]>>],
                                 [g EXCEPT !.nodes = [n \in DOMAIN @ |-> "resolved"]]} :
         Damaged([disk EXCEPT !.graph = {as}])
IndexDamaged ==
  \E i \in disk.index :
    \E as \in {{}, {Garbled}} \cup {{Without(i, d)} : d \in IF i = Garbled THEN {} ELSE DOMAIN i} :
      Damaged([disk EXCEPT !.index = as])
AssetDamaged ==
  \E d \in DOMAIN disk.files :
    \/ Damaged([disk EXCEPT !.files = Without(@, d)])
    \/ Damaged([disk EXCEPT !.files[d] = Garbled])
ManifestDamaged ==
  \E m \in disk.manifest :
    \/ Damaged([disk EXCEPT !.manifest = {}])
    \/ Damaged([disk EXCEPT !.manifest = {Garbled}])
    \/ m # Garbled /\ \E n \in 0..1 : Damaged([disk EXCEPT !.manifest = {[m EXCEPT !.counts.flows = n]}])
    \/ m # Garbled /\ Damaged([disk EXCEPT !.manifest = {[m EXCEPT !.archyImportableYaml = ~@]}])

-----------------------------------------------------------------------------
(* verifyBundle *)

\* Where flow.json says that the flow's definitions are.
Named(f) == {k \in DOMAIN disk.definitions : k[1] = f}
Definition(f, v) == <<f, v, disk.meta[f].format>>
Readable(f) == disk.meta[f] \notin {Lost, Garbled}
HasDefinition(f, v) == Definition(f, v) \in DOMAIN disk.definitions /\ disk.definitions[Definition(f, v)] # Lost
VersionDirs(f) == {k[2] : k \in Named(f)}

ReconstructFlows ==
  LET found == {k \in {<<d[1], d[2]>> : d \in DOMAIN disk.definitions} :
                  Readable(k[1]) /\ HasDefinition(k[1], k[2])}
  IN [k \in found |-> [definition |-> disk.definitions[Definition(k[1], k[2])], meta |-> disk.meta[k[1]]]]

ReconstructResources == Restrict(disk.resources, {id \in DOMAIN disk.resources : disk.resources[id] # Garbled})
\* What cannot be read counts as never written.
ReconstructGraph == disk.graph \ {Garbled}
ReconstructAssets == IF disk.index \subseteq {Garbled} THEN Empty ELSE CHOOSE i \in disk.index : TRUE

FilesMissing ==
  \/ \E f \in DOMAIN disk.meta : ~Readable(f) \/ \E v \in VersionDirs(f) : ~HasDefinition(f, v)
  \/ \E id \in DOMAIN disk.resources : disk.resources[id] = Garbled

Reconstructed ==
  [flows |-> ReconstructFlows, resources |-> ReconstructResources,
   graph |-> ReconstructGraph, assets |-> ReconstructAssets]

CheckCounts(manifest, record) ==
  IF manifest.counts = Counts(record) THEN {} ELSE {"COUNTS_MISMATCH"}

Findings(manifest) ==
  (IF FilesMissing THEN {"FILE_MISSING"} ELSE {}) \cup
  (IF manifest = Garbled THEN {"MANIFEST_SCHEMA_INVALID"}
   ELSE CheckCounts(manifest, Reconstructed) \cup
        IF manifest.contentHash = Canonical(Reconstructed) THEN {} ELSE {"CONTENT_HASH_MISMATCH"})

VerifyBundle ==
  /\ sealed # {} /\ verified = {}
  /\ verified' = {IF disk.manifest = {} THEN {"MANIFEST_MISSING"}
                  ELSE UNION {Findings(m) : m \in disk.manifest}}
  /\ UNCHANGED <<written, writes, disk, sealed, damage>>

Graphs ==
  [nodes : [Resources -> {"resolved", "unsupported"}],
   edges : {<<f, g>> : f, g \in Flows} \ {<<f, f>> : f \in Flows}]

\* Of a text as it is captured, only its difference from a later one matters.
AsCaptured(text) == [stable |-> text, volatile |-> text]

Next ==
  \/ \E f \in Flows, v \in Versions, text \in Texts, format \in Formats :
       WriteFlow(f, v, AsCaptured(text), [format |-> format])
  \/ \E id \in Resources, text \in Texts : WriteResource(id, AsCaptured(text))
  \/ \E d \in Digests, u \in Users : PutAsset(d, u)
  \/ \E g \in Graphs : WriteResourceGraph(g)
  \/ Seal
  \/ DefinitionDamaged \/ FlowMetaDamaged \/ OlderCopyMerged \/ FlowLost \/ ResourceDamaged
  \/ GraphDamaged \/ IndexDamaged \/ AssetDamaged \/ ManifestDamaged
  \/ VerifyBundle

Spec == Init /\ [][Next]_vars

-----------------------------------------------------------------------------
(* Properties *)

\* What the seal covers of a directory: not the assets' bytes, not what the manifest says
\* beyond hash and counts, and of every text and body only what is hashed.
Covered(d) ==
  [meta |-> d.meta, graph |-> d.graph, index |-> d.index,
   definitions |-> [k \in DOMAIN d.definitions |->
                      IF d.definitions[k] = Lost THEN Lost ELSE d.definitions[k].stable],
   resources |-> [id \in DOMAIN d.resources |->
                    IF d.resources[id] = Garbled THEN Garbled ELSE d.resources[id].stable],
   manifest |-> {IF m = Garbled THEN m ELSE [hash |-> m.contentHash, counts |-> m.counts] : m \in d.manifest}]

\* A flow directory is as it was, but for files its flow.json does not name.
Intact ==
  \E s \in sealed :
    LET now == Covered(disk)
        was == Covered(s)
    IN  /\ [now EXCEPT !.definitions = Empty] = [was EXCEPT !.definitions = Empty]
        /\ \A k \in DOMAIN was.definitions : now.definitions[k] = was.definitions[k]
        /\ \A k \in DOMAIN now.definitions \ DOMAIN was.definitions :
             \E j \in DOMAIN was.definitions : j[1] = k[1] /\ j[2] = k[2]

\* A bundle verifies exactly when nothing its seal covers was lost, changed or added to:
\* neither is a difference in that content missed, nor one outside of it reported.
SealHolds == \A findings \in verified : findings = {} <=> Intact

=============================================================================
