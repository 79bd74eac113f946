------------------------- MODULE MCAtomicPromotion -------------------------
(* Instances of AtomicPromotion for TLC: fault sets the configurations use. *)
EXTENDS AtomicPromotion, TLC

\* Every operation but the rename that puts the archived target back.
AllButRollback == Operations \ {"rollback"}
=============================================================================
