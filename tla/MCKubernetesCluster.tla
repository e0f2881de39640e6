------------------------ MODULE MCKubernetesCluster ------------------------
(* Two clusters, two versions and two names.                               *)
EXTENDS KubernetesCluster
=============================================================================
