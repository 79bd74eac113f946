------------------------------- MODULE FlowSource -------------------------------
(***************************************************************************)
(* A flow's configuration as Architect exports it, and what its authors    *)
(* may do to it between two captures.  The service is not part of this     *)
(* repository: only what packages/normalization reads of it is modelled.   *)
(*                                                                         *)
(* A flow is [start, order, actions, choices, objects, variables,          *)
(* manifest, meta, version, shapeless]: `meta` is its name, security and   *)
(* languages, and a list in `shapeless` is no array.  A value is a number  *)
(* or a string that is only ever compared.                                 *)
(***************************************************************************)
EXTENDS Integers, Sequences, SequencesExt, FiniteSets

CONSTANTS
  Absent,                 \* no value: null, undefined or no entry
  Gone,                   \* a GUID of nothing in the export
  SitesOf(_),             \* the reference fields and branch outputs an object may have
  TargetsOf(_),           \* what they may be pointed at
  Spare                   \* an action that may be inserted

VARIABLE flow

Objects == DOMAIN flow.objects
Containers == DOMAIN flow.actions
Flip(n) == 3 - n

\* What the list of a container or of the flow holds in its place.
Lists(c) == flow.actions[c] \o [i \in DOMAIN flow.choices[c] |-> flow.choices[c][i].action]
Present(o) == o \in Containers \/ \E c \in Containers : Contains(Lists(c), o)

Becomes(o, field, value) ==
  flow' = [flow EXCEPT !.objects[o] = [@ EXCEPT ![field] = value]]

-----------------------------------------------------------------------------
(* Edits of one object *)

Renamed(o) == Becomes(o, "name", Flip(flow.objects[o].name))
Retyped(o) == /\ flow.objects[o].type # "ImprovedAction"
              /\ Becomes(o, "type", "ImprovedAction")
Set(o) == Becomes(o, "setting", Flip(flow.objects[o].setting))
\* A value within an array of objects or more than one level down.
Nested(o) == Becomes(o, "deep", Flip(flow.objects[o].deep))
Lengthened(o) == ~flow.objects[o].long /\ Becomes(o, "long", TRUE)
\* The export carries neither a tracking id nor a GUID for the object, or no GUID.
Anonymous(o) == flow.objects[o].identified /\ Becomes(o, "identified", FALSE)
Tracked(o) == flow.objects[o].guid /\ Becomes(o, "guid", FALSE)
\* The list has something else than an object there.
Deviates(o) == flow.objects[o].well /\ Becomes(o, "well", FALSE)
Pointed(o) ==
  \E s \in SitesOf(o) : \E g \in TargetsOf(o) \ {flow.objects[o].refs[s]} :
    Becomes(o, "refs", [flow.objects[o].refs EXCEPT ![s] = g])
\* A GUID becomes one of an array, part of a `config`, or its branch no record.
Buried(o) ==
  \E s \in SitesOf(o) : /\ flow.objects[o].refs[s] # Absent /\ s \notin flow.objects[o].buried
                        /\ Becomes(o, "buried", flow.objects[o].buried \cup {s})
\* menuName, taskName or the label of a branch.
Labelled(o) == SitesOf(o) # {} /\ Becomes(o, "label", Flip(flow.objects[o].label))
\* A comparison of two variables the other way round, or of another variable.
Swapped(o) == /\ Len(flow.objects[o].operands) = 2
              /\ Becomes(o, "operands", Reverse(flow.objects[o].operands))
Compared(o) ==
  \E v \in DOMAIN flow.variables : \E i \in DOMAIN flow.objects[o].operands :
    Becomes(o, "operands", [flow.objects[o].operands EXCEPT ![i] = v])
Written(o) ==
  \E v \in DOMAIN flow.variables :
    Becomes(o, "writes", IF v \in flow.objects[o].writes THEN {} ELSE {v})
Prompted(o) ==
  \E p \in DOMAIN flow.manifest \cup {Gone} :
    /\ p \in DOMAIN flow.manifest => flow.manifest[p].type = "userPrompt"
    /\ Becomes(o, "prompt", p)

ObjectEdited(o) ==
  /\ Present(o) /\ flow.objects[o].well
  /\ \/ Renamed(o) \/ Retyped(o) \/ Set(o) \/ Nested(o) \/ Lengthened(o) \/ Anonymous(o) \/ Tracked(o)
     \/ Deviates(o) \/ Pointed(o) \/ Buried(o) \/ Labelled(o) \/ Swapped(o) \/ Compared(o) \/ Written(o) \/ Prompted(o)

-----------------------------------------------------------------------------
(* Edits of the flow *)

Reordered ==
  \E c \in Containers :
    \/ Len(flow.order) > 1 /\ flow' = [flow EXCEPT !.order = Reverse(@)]
    \/ Len(flow.actions[c]) > 1 /\ flow' = [flow EXCEPT !.actions[c] = Reverse(@)]
    \/ Len(flow.choices[c]) > 1 /\ flow' = [flow EXCEPT !.choices[c] = Reverse(@)]
Inserted == \E c \in Containers : ~Present(Spare) /\ flow' = [flow EXCEPT !.actions[c] = Append(@, Spare)]
Deleted ==
  \E c \in Containers :
    \/ flow.actions[c] # <<>> /\ flow' = [flow EXCEPT !.actions[c] = Front(@)]
    \/ flow.choices[c] # <<>> /\ flow' = [flow EXCEPT !.choices[c] = Front(@)]
\* What should be a list is none, and nothing in it is an object of the flow.
ListDeviates ==
  \E c \in Containers : \E list \in {"actionList", "menuChoiceList"} :
    <<c, list>> \notin flow.shapeless /\ flow' = [flow EXCEPT !.shapeless = @ \cup {<<c, list>>}]
\* The digit of a choice, or its name.
ChoiceEdited(field) ==
  \E c \in Containers : \E i \in DOMAIN flow.choices[c] :
    flow' = [flow EXCEPT !.choices[c][i] = [flow.choices[c][i] EXCEPT ![field] = 10 - @]]
\* Another container is where the flow starts.
Restarted == \E c \in Containers \ {flow.start} : flow' = [flow EXCEPT !.start = c]
VariableEdited ==
  \E v \in DOMAIN flow.variables :
    \/ \E field \in {"name", "dataType", "direction"} :
         flow' = [flow EXCEPT !.variables[v] = [flow.variables[v] EXCEPT ![field] = Flip(@)]]
    \/ flow' = [flow EXCEPT !.variables[v].secure = ~@]
    \/ flow' = [flow EXCEPT !.variables[v].well = FALSE]
DependencyEdited ==
  \E d \in DOMAIN flow.manifest :
    \/ flow' = [flow EXCEPT !.manifest[d].name = Flip(@)]
    \/ flow' = [flow EXCEPT !.manifest[d].type = "oauthClient"]
    \/ flow' = [flow EXCEPT !.manifest[d].well = FALSE]
    \/ \E o \in Objects : Present(o) /\ flow' = [flow EXCEPT !.manifest[d].context = @ \cup {o}]
Described ==
  \E field \in DOMAIN flow.meta : flow' = [flow EXCEPT !.meta = [flow.meta EXCEPT ![field] = Flip(@)]]
Published == flow' = [flow EXCEPT !.version = @ + 1]

FlowEdited ==
  \/ Reordered \/ Inserted \/ Deleted \/ ListDeviates \/ ChoiceEdited("digit") \/ ChoiceEdited("name") \/ Restarted
  \/ VariableEdited \/ DependencyEdited \/ Described \/ Published

=============================================================================
