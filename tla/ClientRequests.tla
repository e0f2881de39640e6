--------------------------- MODULE ClientRequests ---------------------------
(***************************************************************************)
(* How the methods of package client send the requests of each plain       *)
(* resource: what becomes of a request whose answer is a 5xx or never      *)
(* comes.  (Paths, bodies and envelopes are left out.)                     *)
(*                                                                         *)
(*  create, update, delete                                                 *)
(*    "replayed"  doItem and doVoid: the transport sends it again          *)
(*    "once"      doItemOnce and doVoidOnce: given up                      *)
(*    "keyed"     doItemWithHeaders and doWithHeaders: sent again under    *)
(*                one Idempotency-Key, whose answer the platform remembers *)
(*    "same"      sent again like the first, but the create names its      *)
(*                object itself and finds it there                         *)
(*  pages         Get searches a list that doList collects page by page;   *)
(*                otherwise one answer shows the object, or its list       *)
(***************************************************************************)

Replayed == [create |-> "replayed", update |-> "replayed",
             delete |-> "replayed", pages |-> FALSE]
Paged == [Replayed EXCEPT !.pages = TRUE]
Once  == [create |-> "once", update |-> "once", delete |-> "once",
          pages |-> FALSE]
Keyed == [create |-> "keyed", update |-> "keyed", delete |-> "keyed",
          pages |-> FALSE]

-----------------------------------------------------------------------------
(* Networks.                                                               *)

vpc == Replayed
vpc_subnet == Replayed
static_ip == Paged
nat_gateway == Replayed
instance_vpc_attachment == Replayed
security_group == Replayed
ip_set == Replayed
dns_zone == Replayed
dns_record_set == Replayed
dns_record == Replayed
vpn_gateway == Replayed
vpn_peer == Replayed
vpn_peering == Replayed

\* Load balancers; the PUT of a WAF policy makes or replaces the only one.
load_balancer == Replayed
lb_backend == Replayed
lb_frontend == Replayed
lb_routing_rule == Replayed
lb_target == Replayed
lb_waf_policy == [Replayed EXCEPT !.create = "same"]
lb_waf_rule == Replayed
certificate == Replayed

-----------------------------------------------------------------------------
(* Compute, storage and what runs on them.                                 *)

instance == Replayed
image == Paged
docker_deployment == Replayed
autoscaling_group == Replayed
autoscaling_policy == Replayed
microvm == Replayed
microvm_image == Replayed
microvm_connector == Replayed
microvm_api_key == Replayed
microvm_secret == Once
microvm_mcp_server == Once
managed_database == Replayed
db_replica == Replayed
db_parameter_group == Replayed
db_backup_policy == Replayed
instance_backup_policy == Replayed
s3_bucket == Replayed
s3_access_key == Paged
volume_protection_policy == Once
volume_protection_policy_attachment == Once

\* The children of a Kubernetes cluster: the key of a create is derived from
\* its body, those of the other requests are new for every call.
kubernetes_node_pool == Keyed
kubernetes_security_group_rule == Keyed
kubernetes_ssl_certificate == Keyed

-----------------------------------------------------------------------------
(* Accounts.  Assigning a resource to its project again changes nothing.   *)

ssh_key == Replayed
user_script == Paged
project == Replayed
project_assignment == [Replayed EXCEPT !.create = "same"]
alert_rule == Replayed
notification_channel == Replayed
=============================================================================
