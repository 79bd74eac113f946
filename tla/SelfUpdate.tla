------------------------------- MODULE SelfUpdate -------------------------------
(***************************************************************************)
(* archivist update: runUpdate of apps/cli/src/commands/update.ts and the  *)
(* git and npm commands its real dependencies run.                         *)
(*                                                                         *)
(* The branch is a line of commits, numbered.  A developer and the         *)
(* repository upstream act between the steps of the command.               *)
(***************************************************************************)
EXTENDS Integers

CONSTANTS None, MaxCommit, MaxRuns, MaxEdits    \* bounds

VARIABLES
  upstream,     \* the newest commit of the tracked branch, at origin
  tracking,     \* the newest commit this clone knows of (origin/<branch>)
  head,         \* the newest upstream commit in the working tree
  ahead,        \* the branch has a commit of its own on top
  dirty,        \* git status --porcelain lists something
  remoteOk,     \* the branch tracks the expected repository
  installed,    \* the commit whose dependencies are installed, None when broken
  built,        \* the commit the build output is of, None when broken
  pc,
  check,        \* options.check
  shown,        \* the commit up to which the run has listed what would land
  said,         \* what the last run ended with
  owed,         \* history: a run was killed, or failed and said so, since the last build
  runs, edits

vars == <<upstream, tracking, head, ahead, dirty, remoteOk, installed, built,
          pc, check, shown, said, owed, runs, edits>>
clone == <<ahead, dirty, remoteOk>>
outputs == <<installed, built>>

Init ==
  /\ upstream = 0 /\ tracking = 0 /\ head = 0 /\ installed = 0 /\ built = 0
  /\ ahead = FALSE /\ dirty = FALSE /\ remoteOk \in BOOLEAN
  /\ pc = "idle" /\ check = FALSE /\ shown = None /\ said = "nothing" /\ owed = FALSE
  /\ runs = 0 /\ edits = 0

-----------------------------------------------------------------------------
(* Others *)

Published == upstream < MaxCommit /\ upstream' = upstream + 1
             /\ UNCHANGED <<tracking, head, clone, outputs, pc, check, shown, said, owed, runs, edits>>

\* The developer edits, stashes, commits, fetches, or installs and builds by hand.
Develops ==
  /\ edits < MaxEdits /\ edits' = edits + 1
  /\ \/ dirty' = ~dirty /\ UNCHANGED <<ahead, tracking, outputs, owed>>
     \/ dirty /\ ahead' = TRUE /\ dirty' = FALSE /\ UNCHANGED <<tracking, outputs, owed>>
     \/ remoteOk /\ tracking' = upstream /\ UNCHANGED <<ahead, dirty, outputs, owed>>
     \/ /\ pc = "idle" /\ installed' = head /\ built' = head /\ owed' = FALSE
        /\ UNCHANGED <<ahead, dirty, tracking>>
  /\ UNCHANGED <<upstream, head, remoteOk, pc, check, shown, said, runs>>

-----------------------------------------------------------------------------
(* runUpdate *)

Start ==
  /\ pc = "idle" /\ runs < MaxRuns /\ runs' = runs + 1
  /\ check' \in BOOLEAN
  /\ pc' = "status" /\ said' = "nothing" /\ shown' = None
  /\ UNCHANGED <<upstream, tracking, head, clone, outputs, owed, edits>>

End(with) == pc' = "idle" /\ said' = with

\* gatherRepoStatus fetches unless the branch tracks something else; runUpdate
\* refuses, has nothing to do, or shows the commits of the range it counted.
Status ==
  /\ pc = "status"
  /\ tracking' = IF remoteOk THEN upstream ELSE tracking
  /\ CASE dirty            -> End("dirty") /\ UNCHANGED shown
       [] ~dirty /\ ~remoteOk -> End("remote") /\ UNCHANGED shown
       [] ~dirty /\ remoteOk /\ tracking' = head -> End("uptodate") /\ UNCHANGED shown
       [] OTHER -> /\ shown' = tracking'
                   /\ \/ check /\ End("checked")
                      \/ ~check /\ pc' = "confirm" /\ UNCHANGED said
  /\ UNCHANGED <<upstream, head, clone, outputs, check, owed, runs, edits>>

\* git cannot be run, or the fetch fails: the command throws.
StatusFails ==
  /\ pc = "status" /\ End("error")
  /\ UNCHANGED <<upstream, tracking, head, clone, outputs, check, shown, owed, runs, edits>>

\* --yes, or the question.
Confirm ==
  /\ pc = "confirm"
  /\ \/ pc' = "pull" /\ UNCHANGED said
     \/ End("cancelled")
  /\ UNCHANGED <<upstream, tracking, head, clone, outputs, check, shown, owed, runs, edits>>

\* git merge --ff-only of what the upstream reference is by now.
Pull ==
  /\ pc = "pull" /\ ~ahead
  /\ head' = tracking /\ pc' = "install"
  /\ UNCHANGED <<upstream, tracking, clone, outputs, check, shown, said, owed, runs, edits>>

\* The branch has diverged, or git refuses to write over what is edited.
PullFails ==
  /\ pc = "pull" /\ (ahead \/ dirty)
  /\ End("pull failed")
  /\ UNCHANGED <<upstream, tracking, head, clone, outputs, check, shown, owed, runs, edits>>

\* npm ci
Install ==
  /\ pc = "install" /\ installed' = head /\ pc' = "build"
  /\ UNCHANGED <<upstream, tracking, head, clone, built, check, shown, said, owed, runs, edits>>

\* npm ci fails, before or after it has removed what was installed.
InstallFails ==
  /\ pc = "install" /\ installed' \in {installed, None}
  /\ End("install failed") /\ owed' = TRUE
  /\ UNCHANGED <<upstream, tracking, head, clone, built, check, shown, runs, edits>>

\* Mutant: the result of the build is not looked at.
Build_Unchecked ==
  /\ pc = "build" /\ built' \in {head, built}
  /\ End("updated") /\ owed' = FALSE
  /\ UNCHANGED <<upstream, tracking, head, clone, installed, check, shown, runs, edits>>

Build ==
  /\ pc = "build" /\ built' = head
  /\ End("updated") /\ owed' = FALSE
  /\ UNCHANGED <<upstream, tracking, head, clone, installed, check, shown, runs, edits>>

BuildFails ==
  /\ pc = "build" /\ built' \in {built, None}
  /\ End("build failed") /\ owed' = TRUE
  /\ UNCHANGED <<upstream, tracking, head, clone, installed, check, shown, runs, edits>>

\* The command is interrupted.
Killed ==
  /\ pc \notin {"idle", "status"} /\ End("killed") /\ owed' = (owed \/ pc \in {"install", "build"})
  /\ UNCHANGED <<upstream, tracking, head, clone, outputs, check, shown, runs, edits>>

Next ==
  \/ Published \/ Develops \/ Start \/ Status \/ StatusFails \/ Confirm \/ Pull \/ PullFails
  \/ Install \/ InstallFails \/ Build \/ BuildFails \/ Killed

Spec == Init /\ [][Next]_vars

-----------------------------------------------------------------------------
(* Properties *)

\* Between runs, code that is not the code that is installed and built is there
\* only after a run was killed or said that its install or its build failed.
StaleBuildWasReported ==
  pc = "idle" /\ (built # head \/ installed # head) => owed

=============================================================================
