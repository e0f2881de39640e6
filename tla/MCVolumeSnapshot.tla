-------------------------- MODULE MCVolumeSnapshot --------------------------
(* A small instance of VolumeSnapshot for TLC.                             *)
EXTENDS VolumeSnapshot

\* The name to itself on a platform that shows rows late, and a crowd on one
\* that shows them at once.
AloneOrCrowded == { w \in [crowded : BOOLEAN, lag : BOOLEAN] : w.crowded # w.lag }
=============================================================================
