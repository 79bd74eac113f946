----------------------------- MODULE MCFileLock -----------------------------
(* Instances of FileLock for TLC. *)
EXTENDS FileLock, TLC

ProcSymmetry == Permutations(Procs)
None == {}
StaleLock == {"lock"}
StaleMutex == {"mutex"}
StaleBoth == {"lock", "mutex"}
=============================================================================
