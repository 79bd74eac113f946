--------------------------------- MODULE Claims ---------------------------------
(***************************************************************************)
(* What a model may say about a flow: the evidence pack it is shown        *)
(* (evidence-pack.ts), the requests that ask for a draft                   *)
(* (narration-provider.ts of composition), and the validation that keeps   *)
(* of the draft what the pack supports (claim-validator.ts).               *)
(*                                                                         *)
(* The items of a snapshot are numbers, which is also their sort order.    *)
(* Each has one evidence record and one text, named like the item; the     *)
(* flow itself is item 0.  Every item belongs to one kind, so that a       *)
(* subject is an item.                                                     *)
(***************************************************************************)
EXTENDS Integers, Sequences, FiniteSets, SequencesExt

CONSTANTS
  Nodes, Edges, Variables, Dependencies,
  NoSubject,            \* no subject, or the subject "general"
  Fabricated,           \* evidence, or a quotation, that is nobody's
  Group(_),             \* the source type of a node, the role of an edge
  Ends,                 \* sets of nodes a flow starts or ends with
  Sections,             \* the section ids a draft is allowed
  Strange,              \* one that is not
  MaxVariables, MaxDependencies, MaxWarnings, MaxEnds, MaxPerAggregate,
  MaxClaimsPerSection, MaxSectionChars, MaxClaimsPerDraft, MaxDraftChars,
  MaxAttempts, MaxDraft

VARIABLES
  source,               \* the snapshot and its findings
  pack,                 \* {} before it is built
  attempts, request,    \* requests made; "idle", "open", "answered" or "failed"
  draft,                \* the sections of the model's answer
  outcome               \* {} before the draft is validated

vars == <<source, pack, attempts, request, draft, outcome>>

Flow == 0
Items == {Flow} \cup Nodes \cup Edges \cup Variables \cup Dependencies

\* The first entries by the sort order.
CapList(items, max) == {x \in items : Cardinality({y \in items : y < x}) < max}

\* A finding is about a variable, a node, an edge or a dependency, or about no single
\* one, and cites what it was drawn from.
Finding(code, subject, evidence) == [code |-> code, subject |-> subject, evidence |-> evidence]
FindingSets ==
  {{}} \cup {{Finding(1, x, {x})} : x \in Edges \cup Variables}
    \cup {{Finding(1, NoSubject, Nodes), Finding(2, v, {v})} : v \in CapList(Variables, 1)}

Init ==
  /\ source \in [entry : Ends, terminal : Ends, findings : FindingSets] /\ pack = {} /\ attempts = 0 /\ request = "idle"
  /\ draft = <<>> /\ outcome = {}

-----------------------------------------------------------------------------
(* buildEvidencePack *)

\* How many entries were left out.
Truncation(field, items, max) ==
  IF Cardinality(items) <= max THEN {} ELSE {[field |-> field, omitted |-> Cardinality(items) - max]}

\* Counts by source type and by role: their evidence is the flow's.
Groups == {{x \in Nodes : Group(x) = Group(n)} : n \in Nodes}
          \cup {{x \in Edges : Group(x) = Group(e)} : e \in Edges}
Aggregated == UNION {CapList(g, MaxPerAggregate) : g \in Groups}

Codes == {f.code : f \in source.findings}
Warned == {f \in source.findings : f.code \in CapList(Codes, MaxWarnings)}

Shown ==
  CapList(source.entry, MaxEnds) \cup CapList(source.terminal, MaxEnds)
    \cup CapList(Variables, MaxVariables) \cup CapList(Dependencies, MaxDependencies)

SubjectIndex ==
  {<<x, x>> : x \in Shown \cup {Flow}} \cup {<<x, Flow>> : x \in Aggregated}
    \cup UNION {{<<x, f.subject>> : x \in f.evidence} : f \in {g \in Warned : g.subject # NoSubject}}

Truncations ==
  Truncation("entryPoints", source.entry, MaxEnds)
    \cup Truncation("terminalNodes", source.terminal, MaxEnds)
    \cup Truncation("variables", Variables, MaxVariables)
    \cup Truncation("dependencies", Dependencies, MaxDependencies)
    \cup Truncation("warnings", Codes, MaxWarnings)
    \cup UNION {Truncation("aggregate", g, MaxPerAggregate) : g \in Groups}

BuildEvidencePack ==
  /\ pack = {}
  /\ pack' = {[shown |-> Shown \cup {Flow}, warnings |-> Codes \cap {f.code : f \in Warned},
               evidenceIds |-> {Flow} \cup Aggregated \cup Shown \cup UNION {f.evidence : f \in Warned},
               subjectIndex |-> SubjectIndex, truncations |-> Truncations]}
  /\ UNCHANGED <<source, attempts, request, draft, outcome>>

-----------------------------------------------------------------------------
(* narrate *)

\* No API key is stored, or the request is sent.
Narrate ==
  /\ pack # {} /\ request = "idle"
  /\ \/ request' = "open" /\ attempts' = 1
     \/ request' = "failed" /\ UNCHANGED attempts
  /\ UNCHANGED <<source, pack, draft, outcome>>

\* A rate limit, a failing server or network: asked again, up to MaxAttempts times.
Retry ==
  /\ request = "open" /\ draft = <<>>
  /\ IF attempts < MaxAttempts THEN attempts' = attempts + 1 /\ UNCHANGED request
     ELSE request' = "failed" /\ UNCHANGED attempts
  /\ UNCHANGED <<source, pack, draft, outcome>>

\* Another status, or an answer that is no draft.
Rejected ==
  /\ request = "open" /\ draft = <<>> /\ request' = "failed"
  /\ UNCHANGED <<source, pack, attempts, draft, outcome>>

\* The model's answer, a section or a claim at a time.
Size == FoldLeft(LAMBDA n, s : n + Len(s.claims), 0, draft)
Answer(answered) ==
  /\ request = "open" /\ Size < MaxDraft /\ draft' = answered
  /\ UNCHANGED <<source, pack, attempts, request, outcome>>
AnswerSection(id) == Len(draft) < MaxDraft /\ Answer(Append(draft, [id |-> id, claims |-> <<>>]))
AnswerClaim(claim) ==
  draft # <<>> /\ Answer([draft EXCEPT ![Len(draft)].claims = Append(@, claim)])
Answered ==
  /\ request = "open" /\ request' = "answered"
  /\ UNCHANGED <<source, pack, attempts, draft, outcome>>

-----------------------------------------------------------------------------
(* validateNarration *)

\* Mutant: evidence of any item of the kind supports the subject.
SupportsSubject_Kind(p, evidenceIds, subject) ==
  \E e \in p.subjectIndex : e[1] \in evidenceIds /\ (e[2] = Flow) = (subject = Flow)
SupportsSubject(p, evidenceIds, subject) == \E e \in p.subjectIndex : e[1] \in evidenceIds /\ e[2] = subject

Verdict(p, claim) ==
  CASE claim.shape # "ok" -> claim.shape
    [] claim.quote \notin {NoSubject} \cup p.shown -> "FABRICATED_QUOTATION"
    [] ~(claim.evidence \subseteq p.evidenceIds) -> "FABRICATED_EVIDENCE_ID"
    [] claim.kind # "unknown" /\ claim.evidence = {} -> "MISSING_EVIDENCE"
    [] claim.kind = "fact" /\ claim.subject # NoSubject
         /\ ~SupportsSubject(p, claim.evidence, claim.subject) -> "UNSUPPORTED_SUBJECT"
    [] OTHER -> "accepted"

\* One claim after the other while the budget lasts, each with the verdict on it.
Budgeted(maxClaims, maxChars, code, claims, verdicts) ==
  FoldLeft(LAMBDA acc, i :
             LET found == IF Len(acc.kept) >= maxClaims THEN code
                          ELSE IF verdicts[i] # "accepted" THEN verdicts[i]
                          ELSE IF acc.chars + claims[i].size > maxChars THEN code ELSE "accepted"
             IN IF found = "accepted"
                  THEN [acc EXCEPT !.kept = Append(@, claims[i]), !.chars = @ + claims[i].size]
                  ELSE [acc EXCEPT !.rejections = Append(@, found)],
           [kept |-> <<>>, chars |-> 0, rejections |-> <<>>], [i \in DOMAIN claims |-> i])

ValidateSection(p, section) ==
  IF section.id \notin Sections THEN [kept |-> <<>>, chars |-> 0, rejections |-> <<"SECTION_NOT_ALLOWED">>]
  ELSE Budgeted(MaxClaimsPerSection, MaxSectionChars, "SECTION_TOO_LARGE",
                section.claims, [i \in DOMAIN section.claims |-> Verdict(p, section.claims[i])])

EnforceDraftBudget(claims) ==
  Budgeted(MaxClaimsPerDraft, MaxDraftChars, "DRAFT_TOO_LARGE",
           claims, [i \in DOMAIN claims |-> "accepted"])

ValidateNarration ==
  /\ request = "answered" /\ outcome = {}
  /\ \E p \in pack :
       LET parsed == [i \in DOMAIN draft |-> ValidateSection(p, draft[i])]
           budgeted == EnforceDraftBudget(FlattenSeq([i \in DOMAIN draft |-> parsed[i].kept]))
       IN outcome' = {[claims |-> budgeted.kept, chars |-> budgeted.chars,
                       rejections |-> FlattenSeq([i \in DOMAIN draft |-> parsed[i].rejections])
                                        \o budgeted.rejections]}
  /\ UNCHANGED <<source, pack, attempts, request, draft>>

\* One claim of any make, or several that only matter to the budgets.
Claim(shape, kind, quote, evidence, subject) ==
  [shape |-> shape, kind |-> kind, quote |-> quote, size |-> 1, evidence |-> evidence, subject |-> subject]
Cited == {{}} \cup {{x} : x \in Items \cup {Fabricated}} \cup {{x, Flow} : x \in Variables}
Claims ==
  {Claim("ok", "fact", NoSubject, e, x) : e \in Cited, x \in {NoSubject, Flow} \cup Nodes \cup Variables}
  \cup {Claim("ok", k, NoSubject, e, NoSubject) : k \in {"inference", "unknown"}, e \in Cited}
  \cup {Claim("ok", "inference", q, {Flow}, NoSubject) : q \in Items \cup {Fabricated}}
  \cup {Claim(s, "inference", NoSubject, {Flow}, NoSubject) :
          s \in {"CLAIM_TOO_LARGE", "FORBIDDEN_PATTERN", "UNBOUNDED_QUOTATION"}}
Sound == Claim("ok", "inference", NoSubject, {Flow}, NoSubject)
Plain == {Sound, [Sound EXCEPT !.size = 2], [Sound EXCEPT !.shape = "MALFORMED_CLAIM"]}

Next ==
  \/ BuildEvidencePack
  \/ Narrate \/ Retry \/ Rejected \/ Answered
  \/ \E id \in Sections \cup {Strange} : AnswerSection(id)
  \/ Size = 0 /\ \E claim \in Claims : AnswerClaim(claim)
  \/ (\A i \in DOMAIN draft : ToSet(draft[i].claims) \subseteq Plain) /\ \E claim \in Plain : AnswerClaim(claim)
  \/ ValidateNarration

Spec == Init /\ [][Next]_vars

-----------------------------------------------------------------------------
(* Properties *)

\* What of the source bears on an item: its own record, or that of a finding about it;
\* on the flow, everything that is counted.
Bears(x, item) ==
  \/ x = item
  \/ item = Flow /\ x \in Nodes \cup Edges
  \/ \E f \in source.findings : f.subject = item /\ x \in f.evidence

\* The claims of the allowed sections; another section counts as one.
Heard == Len(FlattenSeq([i \in DOMAIN draft |-> IF draft[i].id \in Sections THEN draft[i].claims ELSE <<Strange>>]))

\* Of a model's draft only this reaches a document: claims whose evidence is the
\* snapshot's, a fact about one thing with evidence that bears on that thing,
\* quotations of captured text, within the budgets; and every claim of a section that
\* is allowed is kept or rejected with a code (claim-validator.ts, invariants 1 and 2).
NarrationIsGrounded ==
  \A o \in outcome :
    /\ \A c \in ToSet(o.claims) :
         /\ c.evidence \subseteq Items /\ c.quote \in Items \cup {NoSubject}
         /\ c.kind # "unknown" => c.evidence # {}
         /\ c.kind = "fact" /\ c.subject # NoSubject => \E x \in c.evidence : Bears(x, c.subject)
    /\ Len(o.claims) <= MaxClaimsPerDraft /\ o.chars <= MaxDraftChars
    /\ Len(o.claims) + Len(o.rejections) = Heard

=============================================================================
