----------------------------- MODULE SourceProvider -----------------------------
(***************************************************************************)
(* PlatformSourceProvider of packages/genesys-source: the two bounded      *)
(* caches behind loadFlowSource and resolveDependencies, and what the      *)
(* readers take of a prompt, while the tenant publishes.                   *)
(***************************************************************************)
EXTENDS Integers, Sequences, SequencesExt, FiniteSets

CONSTANTS
  Flows, None,
  CacheLimit,      \* FLOW_CONFIG_CACHE_LIMIT
  Languages,
  LanguageOf,      \* the language each flow declares
  MaxChanges, MaxLoads    \* bounds

VARIABLES
  version,     \* the published version of each flow
  configs,     \* #flowConfigCache: <<flow, version>>s, oldest first
  selves,      \* #flowSelfCache: <<flow, version>>s, oldest first
  inUse,       \* #languagesInUse
  last,        \* history: what loadFlowSource last returned for each flow
  since,       \* history: the other flows configured since then
  answer,      \* what resolveDependencies last gave for a flow: the version whose
               \* references they are
  prompt,      \* and for a prompt: its languages, those with media, the recordings
  changes, loads

vars == <<version, configs, selves, inUse, last, since, answer, prompt, changes, loads>>

Init ==
  /\ version = [f \in Flows |-> 1]
  /\ configs = <<>> /\ selves = <<>> /\ inUse = {}
  /\ last = [f \in Flows |-> None] /\ since = [f \in Flows |-> {}]
  /\ answer = None /\ prompt = None
  /\ changes = 0 /\ loads = 0

Published(f) ==
  /\ changes < MaxChanges /\ changes' = changes + 1
  /\ version' = [version EXCEPT ![f] = @ + 1]
  /\ UNCHANGED <<configs, selves, inUse, last, since, answer, prompt, loads>>

-----------------------------------------------------------------------------
(* The caches *)

\* Where a flow is in a cache: a map has one entry for a key, or none.
Hits(cache, f) == {i \in DOMAIN cache : cache[i][1] = f}

Delete(cache, hits) == IF hits = {} THEN cache ELSE RemoveAt(cache, CHOOSE i \in hits : TRUE)

\* The new entry is the last; the oldest goes when there are too many.
Added(cache, entry) ==
  LET added == Append(cache, entry)
  IN  IF Len(added) > CacheLimit THEN Tail(added) ELSE added

\* Mutant: the version that was loaded first stays.
Set_FirstStays(cache, f, v) == IF Hits(cache, f) # {} THEN cache ELSE Added(cache, <<f, v>>)

\* BoundedCache.set keyed by the flow
Set(cache, f, v) == Added(Delete(cache, Hits(cache, f)), <<f, v>>)
\* and keyed by the flow and the version
SetVersion(cache, f, v) == Added(Delete(cache, {i \in DOMAIN cache : cache[i] = <<f, v>>}), <<f, v>>)

\* #resolveFlowConfig: version v, whose body the cache or the service has.
Configured(f, v) ==
  /\ configs' = IF Contains(configs, <<f, v>>) THEN configs ELSE SetVersion(configs, f, v)
  /\ selves' = Set(selves, f, v)
  /\ inUse' = inUse \cup {LanguageOf[f]}

Since(f) == [g \in Flows |-> IF g = f THEN since[g] ELSE since[g] \cup {f}]

\* loadFlowSource of a listed version, or of whatever is published.
Load(f) ==
  /\ loads < MaxLoads /\ loads' = loads + 1
  /\ \E v \in 1..version[f] :
       /\ Configured(f, v) /\ last' = [last EXCEPT ![f] = v]
       /\ since' = [Since(f) EXCEPT ![f] = {}]
  /\ UNCHANGED <<version, answer, prompt, changes>>

\* #resolveFlowRef: the references of the cached version, or of what is published.
ResolveFlow(f) ==
  /\ loads < MaxLoads /\ loads' = loads + 1
  /\ LET hits == Hits(selves, f)
     IN  \/ \E i \in hits : /\ answer' = [flow |-> f, version |-> selves[i][2]]
                            /\ UNCHANGED <<configs, selves, inUse, since>>
         \/ /\ hits = {}
            /\ answer' = [flow |-> f, version |-> version[f]]
            /\ Configured(f, version[f]) /\ since' = Since(f)
  /\ UNCHANGED <<version, last, prompt, changes>>

-----------------------------------------------------------------------------
(* The readers *)

\* All of a prompt's languages when none is wanted or none of the wanted is there.
SelectLanguages(carried, wanted) ==
  IF carried \cap wanted = {} THEN carried ELSE carried \cap wanted

\* downloadAllAssets: the recordings of the selected languages that have a media
\* URI; a download that fails leaves its language out.
ResolvePrompt ==
  /\ loads < MaxLoads /\ loads' = loads + 1
  /\ \E carried \in SUBSET Languages, failed \in SUBSET Languages :
       \E media \in SUBSET carried :
         /\ failed \subseteq media
         /\ prompt' = [carried |-> carried, media |-> media, failed |-> failed,
                       assets |-> (SelectLanguages(carried, inUse) \cap media) \ failed]
  /\ UNCHANGED <<version, configs, selves, inUse, last, since, answer, changes>>

Next ==
  \/ \E f \in Flows : Published(f) \/ Load(f) \/ ResolveFlow(f)
  \/ ResolvePrompt

Spec == Init /\ [][Next]_vars

-----------------------------------------------------------------------------
(* Properties *)

\* After a flow was loaded, and until as many other flows as the cache holds were
\* loaded or looked up, its references are those of the version that was loaded: the walk and
\* the definition in the bundle speak of the same version.
ReferencesOfTheLoaded ==
  [][\A f \in Flows :
       ResolveFlow(f) /\ last[f] # None /\ Cardinality(since[f]) < CacheLimit
       => answer'.version = last[f]]_vars

=============================================================================
