----------------------------- MODULE MCVpnIpsec -----------------------------
(* Two connections, keys and attribute values, and one step of the others. *)
EXTENDS VpnIpsec
=============================================================================
