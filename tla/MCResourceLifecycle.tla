------------------------ MODULE MCResourceLifecycle -------------------------
(* ResourceLifecycle for the resources of ResourceProfiles: every profile is *)
(* the profile of one behaviour.                                             *)
EXTENDS ResourceLifecycle, ResourceProfiles

OnlySecurityGroup == {security_group}
=============================================================================
