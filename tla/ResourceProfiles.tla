-------------------------- MODULE ResourceProfiles --------------------------
(***************************************************************************)
(* What each plain resource of internal/resources does with the platform,  *)
(* reduced to the choices in which they differ.  ResourceLifecycle is the  *)
(* Create, Read, Update and Delete all of them share.                      *)
(*                                                                         *)
(*  track   when Create writes the id to its response: "first", as soon as *)
(*          it knows it; "guarded", only when a request of the stage       *)
(*          fails; "last", with the whole state at the end; "asked", also  *)
(*          when no answer says whether the create was carried out         *)
(*  stub    a failed Create saves the id without the parent its Read and   *)
(*          Delete need                                                    *)
(*  locate  the answer to the create names no id: a list is searched       *)
(*  deploy  a second request starts the object                             *)
(*  wait    Create polls until the object is usable                        *)
(*  stage   some attributes are set by requests of their own, after that   *)
(*  read    the read that ends Create: it "must" succeed, it "may" fail    *)
(*          (the answer to the create serves), or "none" is made           *)
(*  change  how Update sends what changed: in "one" request; "each" part   *)
(*          in its own; "inOrder", the staged part last, and what went     *)
(*          through before a failure is recorded; or "replace": every      *)
(*          attribute forces a replacement                                 *)
(*  reread  Update ends with a read, which must succeed                    *)
(*  blind   no read shows the staged part: the state keeps what was asked  *)
(*  later   a job turns the staged part over; the state has what was asked *)
(*  absent  Delete takes a 404 for success                                 *)
(*  gone    Delete polls until the object reads 404                        *)
(*  import  it can be imported                                             *)
(*  by      how its client methods send the requests (ClientRequests)      *)
(*                                                                         *)
(* Attributes that force a replacement next to others that can be updated  *)
(* are left out, and so is the engine docker_deployment installs before    *)
(* its create: nothing tracks it.  The engine version of managed_database  *)
(* is a part like any other: the platform records it at once.  The upgrade *)
(* that follows on the machine is out of every call's sight, and of this.  *)
(***************************************************************************)

Client == INSTANCE ClientRequests

\* Create answers with the whole object; one PUT or PATCH; one DELETE.
Answered ==
    [track |-> "first", stub |-> FALSE, locate |-> FALSE, deploy |-> FALSE,
     wait |-> FALSE, stage |-> FALSE, read |-> "none", change |-> "one",
     reread |-> FALSE, blind |-> FALSE, later |-> FALSE, absent |-> FALSE,
     gone |-> FALSE, import |-> TRUE, by |-> Client!Replayed]

\* The same, without an update.
Fixed == [Answered EXCEPT !.change = "replace"]

\* The created object is read once more, its answer serves if that fails.
Reread == [Answered EXCEPT !.track = "last", !.read = "may", !.reread = TRUE]

\* The id at once, then requests of their own for some parts, then a read.
Staged == [Answered EXCEPT !.stage = TRUE, !.read = "must",
                           !.change = "each", !.reread = TRUE]

\* The same, with the id saved only by a failing stage.
Guarded == [Staged EXCEPT !.track = "guarded"]

\* The id at once, then a wait for an asynchronous creation, then a read.
Awaited == [Fixed EXCEPT !.wait = TRUE, !.read = "must"]

\* A profile with the requests of a resource's client.
Over(requests, p) == [p EXCEPT !.by = requests]

vpc == Over(Client!vpc, Fixed)
vpc_subnet == Over(Client!vpc_subnet, Answered)
ssh_key == Over(Client!ssh_key, Answered)
user_script == Over(Client!user_script, Answered)
project == Over(Client!project, Answered)
dns_record_set == Over(Client!dns_record_set, Answered)
alert_rule == Over(Client!alert_rule, Answered)
notification_channel == Over(Client!notification_channel, Answered)
certificate == Over(Client!certificate, Answered)
static_ip == Over(Client!static_ip, Fixed)
lb_waf_policy == Over(Client!lb_waf_policy, Answered)
lb_waf_rule == Over(Client!lb_waf_rule, [Answered EXCEPT !.reread = TRUE])
microvm_api_key ==
    Over(Client!microvm_api_key, [Fixed EXCEPT !.import = FALSE])
microvm_image == Over(Client!microvm_image, Fixed)
microvm_secret ==
    Over(Client!microvm_secret, [Answered EXCEPT !.absent = TRUE])
volume_protection_policy ==
    Over(Client!volume_protection_policy, [Answered EXCEPT !.absent = TRUE])
microvm_connector ==
    Over(Client!microvm_connector, [Answered EXCEPT !.stage = TRUE])
vpn_peering == Over(Client!vpn_peering, [Fixed EXCEPT !.read = "may"])
project_assignment ==
    Over(Client!project_assignment,
         [Fixed EXCEPT !.stub = TRUE, !.read = "must", !.absent = TRUE])
lb_backend == Over(Client!lb_backend, Reread)
lb_frontend == Over(Client!lb_frontend, Reread)
lb_routing_rule == Over(Client!lb_routing_rule, Reread)
lb_target == Over(Client!lb_target, Reread)
autoscaling_policy == Over(Client!autoscaling_policy, Reread)
vpn_peer == Over(Client!vpn_peer, Reread)
image == Over(Client!image, Awaited)
docker_deployment ==
    Over(Client!docker_deployment, [Awaited EXCEPT !.stub = TRUE])
load_balancer == Over(Client!load_balancer, [Awaited EXCEPT !.gone = TRUE])
vpn_gateway == Over(Client!vpn_gateway, [Awaited EXCEPT !.absent = TRUE])
nat_gateway ==
    Over(Client!nat_gateway,
         [Awaited EXCEPT !.change = "each", !.reread = TRUE])
db_replica ==
    Over(Client!db_replica,
         [Awaited EXCEPT !.change = "one", !.reread = TRUE, !.gone = TRUE])
managed_database ==
    Over(Client!managed_database,
         [Staged EXCEPT !.wait = TRUE, !.blind = TRUE, !.gone = TRUE])
instance ==
    Over(Client!instance,
         [Staged EXCEPT !.deploy = TRUE, !.wait = TRUE, !.gone = TRUE])
autoscaling_group ==
    Over(Client!autoscaling_group,
         [Staged EXCEPT !.read = "none", !.reread = FALSE, !.gone = TRUE])
instance_vpc_attachment == Over(Client!instance_vpc_attachment, Staged)
microvm == Over(Client!microvm, [Staged EXCEPT !.blind = TRUE])
s3_bucket ==
    Over(Client!s3_bucket,
         [Staged EXCEPT !.locate = TRUE, !.absent = TRUE, !.gone = TRUE])
s3_access_key ==
    Over(Client!s3_access_key,
         [Staged EXCEPT !.locate = TRUE, !.change = "one", !.later = TRUE,
                        !.absent = TRUE])
security_group == Over(Client!security_group, Guarded)
ip_set == Over(Client!ip_set, Guarded)
db_backup_policy == Over(Client!db_backup_policy, Guarded)
instance_backup_policy == Over(Client!instance_backup_policy, Guarded)
dns_record == Over(Client!dns_record, Guarded)
dns_zone ==
    Over(Client!dns_zone,
         [Guarded EXCEPT !.track = "last", !.stage = FALSE, !.gone = TRUE])
db_parameter_group ==
    Over(Client!db_parameter_group, [Reread EXCEPT !.read = "must"])
kubernetes_node_pool ==
    Over(Client!kubernetes_node_pool,
         [Answered EXCEPT !.stub = TRUE, !.read = "must", !.reread = TRUE])
kubernetes_security_group_rule ==
    Over(Client!kubernetes_security_group_rule, [Fixed EXCEPT !.read = "may"])
kubernetes_ssl_certificate ==
    Over(Client!kubernetes_ssl_certificate,
         [Fixed EXCEPT !.read = "may", !.blind = TRUE])
microvm_mcp_server ==
    Over(Client!microvm_mcp_server,
         [Answered EXCEPT !.change = "inOrder", !.blind = TRUE,
                   !.absent = TRUE])
volume_protection_policy_attachment ==
    Over(Client!volume_protection_policy_attachment,
         [Fixed EXCEPT !.track = "asked", !.absent = TRUE])

AllResources ==
    {vpc, vpc_subnet, ssh_key, user_script, project, dns_record_set,
     alert_rule, notification_channel, certificate, static_ip, lb_waf_policy,
     lb_waf_rule, microvm_api_key, microvm_image, microvm_secret,
     volume_protection_policy, microvm_connector, vpn_peering,
     project_assignment, lb_backend, lb_frontend, lb_routing_rule, lb_target,
     autoscaling_policy, vpn_peer, image, docker_deployment, load_balancer,
     vpn_gateway, nat_gateway, db_replica, managed_database, instance,
     autoscaling_group, instance_vpc_attachment, microvm, s3_bucket,
     s3_access_key, security_group, ip_set, db_backup_policy,
     instance_backup_policy, dns_record, dns_zone, db_parameter_group,
     kubernetes_node_pool, kubernetes_security_group_rule,
     kubernetes_ssl_certificate, microvm_mcp_server,
     volume_protection_policy_attachment}
=============================================================================
