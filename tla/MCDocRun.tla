------------------------------ MODULE MCDocRun ------------------------------
(* Instances of DocRun for TLC. *)
EXTENDS DocRun, TLC

=============================================================================
