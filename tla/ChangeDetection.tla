---------------------------- MODULE ChangeDetection ----------------------------
(***************************************************************************)
(* decideFlowAction of packages/analysis/src/change-detection.ts.          *)
(*                                                                         *)
(* A previous entry is [version, division, name, type, hash], a descriptor *)
(* [published, division, name, type].  Unset stands for null and for a     *)
(* field that is absent wherever the code's "?? null" makes them one.      *)
(***************************************************************************)
EXTENDS Integers

CONSTANT Unset

NoEntry == [version |-> Unset, division |-> Unset, name |-> Unset, type |-> Unset, hash |-> Unset]

\* A note where the previous entry recorded something else.
MetadataNotes(previous, descriptor) ==
  {note \in {"DIVISION_CHANGED", "TYPE_CHANGED", "DISPLAY_NAME_CHANGED"} :
     \/ note = "DIVISION_CHANGED" /\ previous.division # descriptor.division
     \/ note = "TYPE_CHANGED" /\ previous.type # descriptor.type
     \/ note = "DISPLAY_NAME_CHANGED" /\ previous.name \notin {Unset, descriptor.name}}

\* A rename alone is not a change; an unpublished flow matches nothing.
MetadataUnchanged(previous, descriptor) ==
  previous.version = descriptor.published /\ previous.division = descriptor.division

\* status is "found", "not-found" or "forbidden"; hash is Unset in the first call.
DecideFlowAction(status, previous, descriptor, hash, forced) ==
  LET Act(action, reason, notes) == [action |-> action, reason |-> reason, notes |-> notes]
      notes == MetadataNotes(previous, descriptor)
  IN  IF status = "forbidden" THEN Act("inaccessible", "ACCESS_FORBIDDEN", {})
      ELSE IF status = "not-found" THEN Act("retire-candidate", "NOT_FOUND_IN_DISCOVERY", {})
      ELSE IF previous = NoEntry THEN Act("new-flow", "NEVER_SEEN_BEFORE", {})
      ELSE IF forced THEN Act("rebuild-forced", "GENERATOR_OR_POLICY_REBUILD_FORCED", notes)
      ELSE IF MetadataUnchanged(previous, descriptor)
             THEN Act("skip-unchanged", "METADATA_UNCHANGED", notes)
      ELSE IF hash = Unset THEN Act("regenerate", "METADATA_CHANGED_HASH_PENDING", notes)
      ELSE IF previous.hash = hash THEN Act("metadata-only", "GRAPH_HASH_UNCHANGED", notes)
      ELSE Act("regenerate", "GRAPH_HASH_CHANGED", notes)

=============================================================================
