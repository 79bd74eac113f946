-------------------------- MODULE RunStateMachine --------------------------
(***************************************************************************)
(* packages/application/src/run-state-machine.ts: the pure transition      *)
(* function of a documentation run.  A machine is its run state and the    *)
(* cancellation request not yet acted upon.                                *)
(***************************************************************************)

TerminalStates == {"completed", "failed", "cancelled", "completed_with_warnings"}
Chain == {"planned", "queued", "extracting", "normalizing", "analyzing",
          "rendering", "validating", "promoting"}
RunStates == Chain \cup TerminalStates

\* One legal edge per sequencing event.
LinearTransitions ==
  [ENQUEUE                |-> [from |-> "planned",     to |-> "queued"],
   BEGIN_EXTRACTING       |-> [from |-> "queued",      to |-> "extracting"],
   BEGIN_NORMALIZING      |-> [from |-> "extracting",  to |-> "normalizing"],
   BEGIN_ANALYZING        |-> [from |-> "normalizing", to |-> "analyzing"],
   BEGIN_RENDERING        |-> [from |-> "analyzing",   to |-> "rendering"],
   BEGIN_VALIDATING       |-> [from |-> "rendering",   to |-> "validating"],
   BEGIN_PROMOTING        |-> [from |-> "validating",  to |-> "promoting"],
   COMPLETE               |-> [from |-> "promoting",   to |-> "completed"],
   COMPLETE_WITH_WARNINGS |-> [from |-> "promoting",   to |-> "completed_with_warnings"]]

LinearEvents == DOMAIN LinearTransitions

InitialMachine == [runState |-> "planned", cancellationRequested |-> FALSE]

\* FALSE where transition() throws IllegalRunTransitionError.
Legal(m, event) ==
  IF event \in LinearEvents
    THEN m.runState = LinearTransitions[event].from
    ELSE event = "REQUEST_CANCEL" \/ m.runState \notin TerminalStates

\* transition(), where it does not throw.
Transition(m, event) ==
  CASE event \in LinearEvents -> [m EXCEPT !.runState = LinearTransitions[event].to]
    [] event = "FAIL" -> [m EXCEPT !.runState = "failed"]
    [] event = "REQUEST_CANCEL" ->
         IF m.runState \in TerminalStates
           THEN m ELSE [m EXCEPT !.cancellationRequested = TRUE]
    [] event = "CHECKPOINT" ->
         IF m.cancellationRequested
           THEN [runState |-> "cancelled", cancellationRequested |-> FALSE] ELSE m
=============================================================================
