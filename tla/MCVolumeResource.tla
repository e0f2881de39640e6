-------------------------- MODULE MCVolumeResource --------------------------
(* VolumeResource with two instances and two plans.                          *)
EXTENDS VolumeResource

CONSTANTS i1, i2, small, large

TwoInstances == {i1, i2}
TwoPlans == {small, large}
=============================================================================
