----------------------------- MODULE MCVolumeOp -----------------------------
(* Small instances of VolumeOp.  Callers, instances and plans are           *)
(* interchangeable model values: nothing compares them but for equality.    *)
EXTENDS VolumeOp, TLC

Symmetry ==
    Permutations(Callers) \cup Permutations(Instances) \cup Permutations(Plans)
=============================================================================
