# Verification of terraform-provider-iaas

TLA+ specifications of the provider's own control logic, TLC configurations
that model-check them, and theorems proved with TLAPS. They sit beside the
sources under `src/`; paths below are relative to that directory.

The provider is small in threads and storage: each operation runs in one
goroutine and nothing is kept but the Terraform state. What makes it hard is the
platform. It works asynchronously, it refuses what it could do a moment later,
its answers get lost while the work is done, other people change the same
objects, and an apply can be cut off at any point and run again. So the
questions here are all of one kind: *after this call returned this, what may be
true of the platform, and will the next apply put it right?*

## 1. The system

| Part | State it keeps | Operations | Hard behaviour | What makes it correct |
|---|---|---|---|---|
| `client/client.go`, `client/request.go`, `client/errors.go`: transport | attempts of one call | `do`, `doOnce`, the `doItem*`/`doVoid*`/`doList` helpers | replays on 429 and 5xx while an earlier copy is still under way; answers lost; context ends in a pause | no command is replayed that must not be; a key takes effect once; a reported success is one |
| `volumeop/volumeop.go`: confirmed operations on a volume | the loop of `run` | `AttachVolume`, `DetachVolume`, `ResizeVolume`, `DeleteVolume`, `Settle` | admission refusals, waits, lost answers, other callers, deadlines | one operation per call at most; no send in doubt; verdicts that hold |
| `volumeop/snapshot.go`, `internal/resources/volume_snapshot.go` | ids seen before the send; state | Create, Read, Delete of a snapshot | the create answers no id, names are not unique | nothing is made twice, lost, or taken over |
| `internal/resources/kubernetes_cluster.go` | state: id, versions, tainted | Create with a stable idempotency key, staged upgrade, Delete | lost creates, failing stages, late copies | one cluster per configuration; workers never ahead; applies converge |
| `internal/resources/vpn_ipsec_connection.go` | state and private state (key version) | Create, Read, Update, Delete, import | a key no read returns, waits for a node, other writers, a killed provider | the recorded key is the platform's; no silent orphan; a delete frees |
| `internal/resources/volume.go` | state of one block | Create with wait and attach, Update as confirmed operations, Delete with its settle | operations left pending by a timed-out apply, others on the volume, a budget shared by the steps | success means done; a destroy ends; applies settle |
| `security_group.go`, `ip_set.go`, `instance_backup_policy.go`, `db_backup_policy.go` | the sets of one block | Update by one request per difference, Read | partial updates, members that are unique, blocks that exchange members, null against empty | an update without an error leaves the configured members; applies settle |
| the other resources of `internal/resources` | state of one block | Create, Read, Update, Delete, import | several requests in sequence, each may fail; waits | nothing forgotten; success means done; applies settle |
| `waiter/waiter.go` | last state, error count | `WaitFor`, `StatePoller*` | poll errors, timeouts | a wait ends, with the truth |
| `doList` in `client/request.go` | current page | pages fetched in sequence | a list that changes between pages | every row once |
| provider configuration, data sources, validators, diagnostics, test harness | none | reads and conversions | none | not modelled (section 8) |

How they interact: Terraform calls a resource's Read before each plan, then
Create, Update or Delete; a resource calls methods of `client`, directly or
through `volumeop`, and waits with `waiter`; every method is one request over
the transport. A failed Create leaves what it had written to its response as a
*tainted* resource, which the next apply destroys and replaces; a failed Update
or Delete leaves the prior state unless it wrote another. Those rules are
Terraform's and are modelled as an external part wherever a state is kept.

`PROJECT.json` lists every component with its status, and under `hazards` the
places where this code is exposed, each with the properties that would notice.

## 2. Modules

| Module | Models | Abstract specification |
|---|---|---|
| `Transport` | `doWithAttempts` and the helpers that choose `once`, `plain` or keyed | `OneShot`: what a send that is never replayed promises |
| `VolumeOp` | `run` and its four callers, several calls on one volume | `ConfirmedOperation`: what the package promises a caller |
| `VolumeSnapshot` | the snapshot resource with its helpers | |
| `KubernetesCluster` | the cluster resource under repeated applies | |
| `VpnIpsec` | the IPsec connection resource under repeated applies | |
| `VolumeResource` | the volume resource under repeated applies, its operations in three steps each | |
| `MemberSet` | the resources that keep sets of members, several blocks at once | |
| `ResourceLifecycle` | one block of a plain resource under repeated applies | |
| `ResourceProfiles` | 50 resources as profiles of `ResourceLifecycle` | |
| `ClientRequests` | how the client sends the requests of each of them: replayed, once, keyed; paged lists | |
| `*Proofs` | theorems of the module they are named after | |
| `MC*` | small instances for TLC | |

Composition. `Transport` is the bottom: a `once` call implements `OneShot`, and
`OneShot` is what a send is in `VolumeOp` and `VolumeSnapshot` (a request that
travels, is carried out at most once, and whose answer may be lost). A keyed
call takes effect once per key, which is what the create of `KubernetesCluster`
builds on. `VolumeOp` implements `ConfirmedOperation`, which is what a resource
may assume of a confirmed operation; `VolumeResource` takes such operations in
coarser steps (ask, wait for another, wait for one's own), with what an
unfinished one may still do. `ResourceProfiles` names for each resource the
entry of `ClientRequests` its profile goes `by`, which is `Transport`'s mode of
each request. `ResourceLifecycle` creates and destroys the objects whose sets
`MemberSet` keeps.

Conventions. `pc` is where an operation stands in its Go function; a request
and its answer are separate steps wherever something may happen between them.
Operators named as the code's functions are those functions. Definitions
commented `Mutant:` are plausible bugs, one for each property, that show that
the property can fail; nothing else uses them. Actions of the platform, of
other people and of Terraform are in sections that say so.

## 3. Correspondence, module by module

### Transport
`Calls` are calls of client methods, `mode` is the helper used: `once`
(`doItemOnce`, `doVoidOnce`), `plain` (replayed), or an idempotency key.
`Send`, `Decide` and `Backoff` follow `doWithAttempts`: an attempt, what its
answer means (`Answers`, `Verdict`), the pause that the caller's context ends. `wire` holds attempts
on their way or still inside the platform behind a gateway's 5xx; `effects` the
attempts that changed something; `cached` the keys the platform's middleware
answers from. A 429 "cannot establish that work never started"
(`request.go:45`), so it is one of two answers: `gated`, the refusal of the
operation gate, which the client documents as definite (`volume.go:151`), and
`busy`, any other, which may have had its effect or have it later and after which the
caller knows nothing (`doubt`). Assumed: the middleware remembers a 2xx
atomically with its effect; two plain calls share nothing.

### VolumeOp
A caller is one call. `Send`, the answer, `AfterAnswer`, `ReadBack`, `Recheck`,
`WaitIdle`, `Pause`, `Poll` are the positions of `run`. The platform records an
operation, publishes it in `active_operation` *later* (`PlatformPublishes`), the
node confirms or fails it, a cooldown follows. `held`, `recorded` and
`nodeFailed` are history.

### VolumeSnapshot
A creator is one create and the life of the resource it made. `before` is the
set of same-name ids seen before the send, `existed` what was there at that
moment. What a behaviour meets is its `world`: `Someone` creates and deletes
snapshots of the name when it is `crowded`, new rows show late when it has
`lag`. A create whose answer carries no status adopts the one new row of the
name, whoever made it (`volume_snapshot.go:235`): `TracksOnlyNew` promises no
more than that it is new. Two creates of one name that run together meet in
the same way: the second can take the first one's snapshot for its own.
`NothingStranded` is therefore about a create that has the name to itself
(`NameToItself`), as the one creator of the run has where nobody interferes.

### KubernetesCluster
One block whose version and name are edited now and then. `cached` is the
idempotency middleware: the key is a function of the configuration. `asked`
says whether the request of the current position is out, `wire` holds copies
that may still arrive (`MaxLate` of them when its caller gives up); identical copies
merge there. `watch` is the task the update polls; an answer that names no task
is `AlreadyThere`, and there is no wait. `Edit` may raise the version and take
it back; `peak` is the newest one ever configured, for the property. The 24
hours after which a key expires are longer than the model.
A failed redeploy of the cloud controller manager is not retried by a later
apply (`kubernetes_version_id` reads as configured): the model has it so.

### VpnIpsec
`conn` are connections under the block's name, `pending` the writes the
gateway's node has not confirmed (in the code a generation number; here the set
of what is unconfirmed), `install` the packages on the gateway. `state.ver` is
the key version in private state. A connection's `origin` says who answers
for it: this block (`ours`), others (`foreign`), or nobody any more, which the
practitioner was `told`, or was not (`untold`). `LetGo` is the moment a call
ends without what it made: told by `Uncertain`, untold where the provider is
`Killed` or a 429 answered a create that was recorded (`Throttled`). Both can
be imported. The list read before the create feeds only advice in an error
message and has no step. A poll and the return it leads to are one step. `PATCH`
of an unchanged value changes nothing.

### VolumeResource
`doing` is the method, `todo` the confirmed operations it has left, `pc` where
the first of them is: `ask` is a request with its answer and the read after a
refusal, `busy` the wait for another operation, `confirm` the wait for one's
own. `vol` and `op` are the platform's volume and its pending operation, `late`
the requests of given-up calls that may still arrive, `state` what Terraform
keeps. `Settle` is the loop head of Delete (read, detach if attached, else
delete), `AskedEnough` its two re-evaluations. A plan does not look at
`active_operation`, so what a timed-out apply left pending can come about after
a later apply said ok: `verdict` is cleared by it, and the next plan repairs it.
`quiet` says that nothing has failed and nobody else has acted since the running
method began, so `DestroyHolds` speaks of each destroy by itself.
A 404 answer to the delete itself is a refusal. A second volume made by a
replayed create is `ResourceLifecycle`'s subject, the gap between a record and
its `active_operation` is `VolumeOp`'s.

### MemberSet
`rows` are the members on the server, `conf` the configuration, `state`
Terraform's, each a set of members and the attributes that are null. `Plan`
reads all blocks (`SetsFromAPI`) and computes `Differences` by the whole member,
as `ruleKey`, `entryKey` and `ibpDiffIDs` do, in loops in the code's order;
`left` are the loops with something to do; `Request` sends any member
of the current loop, since Go's maps and Terraform's sets have no order;
`ReadBack` ends the update, and Terraform rejects a result that is not the plan.
The blocks of one kind run concurrently. An id of a row is not modelled: a row
that others replaced is a delete that may be refused. The warning for a row
without a server id cannot be met by a row the API returned.

### ResourceLifecycle, ResourceProfiles and ClientRequests
The resources write the same Create, Read, Update and Delete and differ in a
dozen choices; a *profile* is those choices: when the id reaches the response
(`track`), whether it must be searched for (`locate`), whether there is a second
request to start (`deploy`), a `wait`, requests of their own for some attributes
(`stage`), a last `read`, how Update sends (`change`, `reread`), what no read
shows (`blind`), what a 404 means to Delete (`absent`), whether Delete waits for
the end (`gone`), whether a failed Create saves an id it can do nothing with
(`stub`), whether a job turns an attribute over after the answer (`later`), and
how the client sends (`by`). `ResourceProfiles` has one
record per resource, mapped to that resource's functions, `ClientRequests` one
per resource, mapped to its client methods. The configuration is two parts,
`main` and the part `extra` that a stage sets.

A replayed create can make an object nobody hears of (`CreateUnheard`); a keyed
one is answered from `remembered` until `KeysExpire`; a `once` create in doubt
is recorded only by the resource that `track`s what it asked (`CreateDoubted`);
a list of pages can miss the row (`RefreshMisses`). `forgot` marks the
behaviours in which Terraform lost sight of an object.

Three resources save the id alone before a step that can fail, while Read and
Delete send the parent's id too: `docker_deployment.go:484`,
`kubernetes_node_pool.go:284`, `project_assignment.go:200`. The state is then a
`stub`, and every apply and destroy ends in `RefreshRefused`, because the client
refuses an empty parent with an error that is not a 404 (`docker.go:94`,
`kubernetes_node_pool.go:99`). The `active` flag of `s3_access_key` is
turned over by a job: `Told` sets it `due`, `Trusting` records the planned value
where the code does (`s3_access_key.go:241`, `:314`), and `Toggled` ends the job,
in success or not, at any time after.

## 4. What each run shows

| Run | Question | Bounds | States |
|---|---|---|---|
| `transport` | two calls in every pair of modes: keys take effect once, successes are real, a first refusal is final, every call returns, and a `once` call is a `OneShot` | 3 attempts, one fewer than `maxRetryAttempts` (`client.go:24`): a first, a middle and a last one; one key | 459 k |
| `volume_op_pair` | two calls on a volume with deadlines, all four actions: when they may send, what the verdict of an undisturbed call means; refinement of `ConfirmedOperation` | two instances, two plans | 1.2 M |
| `volume_op_live` | every call returns | attach and detach, no deadline | 295 k |
| `volume_op_failed` | *violation*: a call is told of a node failure that never happened | two calls, attach | |
| `volume_resource` | applies of a volume block: success means done, a destroy fails only for a failure or for others, applies settle | two instances, two plans, four events: failures (2), operations of others (3), edits (2) | 885 k |
| `snapshot` | a create alone where rows show late, or among others who use the name: one snapshot per create, honest errors, nothing seen before is taken over, nothing stranded, and it returns | one creator, three ids | 338 k |
| `kubernetes_cluster` | lost answers, late copies, failing stages, edits up and back, taints | two clusters, versions, names; one late request of a call that is over | 257 k |
| `kubernetes_dedup` | *violation*: a re-create is answered with the dead cluster | the same, nothing lost | |
| `vpn_ipsec` | applies, imports and destroys on a gateway others write to | two connections, keys, values; one step of others; one late request | 260 k |
| `member_set` | updates of sets by single requests: success leaves what is configured, applies settle | two policies and two members; two cidrs, two comments, one bare IP; two rules and instances; two faults, two edits | 470 k |
| `resource_lifecycle` | every plain resource with failures at every request, drift, import and edits | five objects, four events: failures (2), drift (1), edits (2) | 870 k |
| `resource_lifecycle_lost` | *violation*: a security group is created and forgotten | one failure | |

Why the bounds are enough to be interesting. Two calls are the fewest that can
get in each other's way, and each property speaks of one call or of a pair.
Three snapshot ids allow one seen before, one of somebody else and one's own
together. Two versions make one upgrade, whose stages are what can go wrong; two
clusters allow a dead and a live one under one key. Two failures allow one in
an apply and another in the apply that repairs it; five objects never run out
under the other bounds, so Create is never blocked by the model
(`MaxObjects`). Where a run bounds failures, others and edits one by one, it
also bounds all of them together (`MaxEvents`): four in any order and mixture.
Others change or delete a plain object only while Terraform tracks it, and an
import finds a usable one: the rest is a matter of names. Two policies are
the fewest that exchange a member; IP sets and security groups share nothing
with others of their kind, so one of each is all there is to see. `VpnIpsec.Configs` takes three of the four configurations.
Symmetry is used only for values the module compares with `=` alone.

Deadlock is not checked where operations end for good or where bounds are
reached (`CHECK_DEADLOCK FALSE`); `resource_lifecycle` does check it.

Run one with `tlc -workers 2 -config VolumeOpPair.cfg MCVolumeOp` in this
directory, and check proofs with `tlapm VolumeOpProofs.tla`.

### The violations
They are disagreements between a comment in the sources and what the code does,
each recorded under `findings`:

* `volumeop.go:378` decides by action alone whose operation ended: a call can be
  told its node failed when another call's attach succeeded.
* `kubernetes_cluster.go:947` derives a key that a destroyed cluster keeps.
* `security_group.go:325` (and `ip_set`, both backup policies, `dns_record`,
  `dns_zone`, `db_parameter_group`) forgets the object when the last read of
  Create fails. `NotLost` is the positive side of it: apart from that read, the
  lost answer of a create, the search for an id and a page that missed it, no
  failure makes Terraform forget an object.

### What the properties except by name
Where the code does not keep what a property would say in general, the property
names the case and claims the rest; without the name TLC prints it.
`volumeop.go:54` says that the volume is read after any refusal, and
`volumeop.go:353` reads nothing after a 401, 403 or 404: the model does the latter.

* **A version taken back** (`TakenBack`). After a failed worker stage the control
  plane is at the new version and the workers at the old one. Setting the
  configuration back gives an empty plan, because `kubernetes_cluster.go:683`
  compares `kubernetes_version_id`, the workers' version, alone. The apply is ok
  and the control plane stays ahead.
* **An id without its parent** (`state.stub`). `docker_deployment.go:482`
  promises that Terraform "still tracks the resource for cleanup on the next
  destroy", and `project_assignment.go:178` the same. No refresh and no destroy
  gets past such a state, with `-refresh=false` neither: somebody has to repair
  it by hand. `nat_gateway` and `vpn_gateway` save the parent as well.
* **A job under way** (`OnItsWay`). An apply that toggles an S3 key is ok before
  the flag has changed, and stays ok in the model only as long as the job does
  not fail.
* **A 429 that recorded the create** (`untold` in `NoSilentOrphan`).
  `vpn_ipsec_connection.go:789` and `:826` take every 429 for a refusal that
  recorded nothing and send the create again, while `client/vpn_ipsec.go:94` says
  that a 429 does not establish it. If it was recorded, a connection is left that
  no message mentions.
* **A killed provider** (`untold` too): nobody is left to say anything.

And of `MemberSet`:

* **A bare IP never settles** (`BareEntry`). The schema (`ip_set.go:157`) and
  the example (`examples/resources/iaas_ip_set/resource.tf:23`) take
  `198.51.100.7`, "normalised to /32 ... server-side"; the read that ends
  Create and Update puts the /32 into the state, which is not the plan, so
  Terraform reports an inconsistent result, and the next plan deletes the entry
  and adds it again. Written as a /32 it settles.
* **An exchange between two backup policies may never settle** (`Exchange`).
  `instance_backup_policy.go:320` and `db_backup_policy.go` attach before they
  detach, and a member "may be attached to at most one backup policy". If the
  platform refuses the second attach (if it moves the member, all is well; the
  sources do not say), both updates end before their detach, in every apply.
  Detaching first would settle in two applies.

Taking `BareEntry` or `Exchange` out of `Converges` makes TLC print the cycle.

## 5. Fairness

Safety needs none. Liveness is stated under:

* *the provider goes on*: a goroutine that can take its next step does (weak
  fairness of `Call`, `Create`, `Step`, `Provider`). Where a step waits for an
  answer, either it comes or the client's timeout fires; both are in the fair
  action, because `http.Client` has a timeout (`client.go`).
* *a deadline fires*: `context.WithTimeout` (`Deadline` in `VolumeOp`,
  `VolumeSnapshot`).
* *the platform finishes*: nodes answer operations that were published, an
  installation ends, a teardown ends. Only `Terminates` of the operations
  without a deadline, `WaitEnds`, `Converges` and `KeyHealed` rest on it;
  `snapshot` does without, the deadline is enough there.
* *Terraform is run again* (`Refresh`, and `Plan`), for the convergence
  properties, which are about repeated applies.
* *strong fairness* in `KubernetesCluster` and `VpnIpsec`, of a request that is
  carried out when it is sent again and again: a platform that refuses for ever
  never converges. In `ResourceLifecycle` only the expiry of keys is strongly fair
  (days pass, whatever is applied in between); it bounds failures, as
  `VolumeResource` and `MemberSet` do.

## 6. Theorems

All hold for every value of the constants that keeps the assumptions named in
the modules; every safety property of a passing run is stated by one of them. The
proofs are by an inductive invariant, at the head of each `*Proofs` module or of
the part of it that needs a stronger one, with one lemma or step per action, and
PTL at the end. TLC has checked each invariant on the instance of the module's
run.

| Module | Theorems | The invariant, and why the property alone is not inductive |
|---|---|---|
| `TransportProofs` | `TypeCorrect`, `KeyAppliesOnce`, `SuccessReal`, `FirstRefusalFinal`, `OnceIsOneShot` | that a key has an effect is not visible to a call: `CacheFits` ties keys answered from memory to effects, `CarriedLeft` and `Counted` say an attempt is either on its way or carried out and was sent, `RefusedGone` that a refused attempt is neither. A 429 counts as a refusal only where it is the operation gate's |
| `VolumeOpProofs` | `TypeCorrect`, `OneOperationPerCall`, `RefusalIsDefinite`, `NeverSendsInDoubt`, `ImplementsPromise` | `ClearToAsk`: wherever `run` may send, everything it sent was definitely refused, so nothing is recorded or travelling. `HeldNoted` links what holds now to the history that the refinement needs |
| | `SoloTruth` | a verdict is drawn from the marker and the volume, which do not say whose operation ended: `SoloInv` adds that the platform works on a counted operation only (`Accounted`) and that the one operation of a call that is alone is its own, published when it polls, and either done or failed when it is over (`SoloFits`) |
| `VolumeSnapshotProofs` | `TypeCorrect`, `CreatesOnce`, `DefiniteErrors`, `TracksUnseen` | `CleanWhereDefinite`, the same idea for the admission loop; `TracksUnseen` adds that `before` contains what existed (rows show at once, `~lag`) |
| | `NoneStranded` | `AloneInv`: with the name to itself a create has made every row (`RowsOwned`) and seen none before (`NothingBefore`), so what it finds is its own (`TracksOwn`), and a tracked snapshot leaves the state only when it is gone (`GoneWhenDropped`) |
| `KubernetesClusterProofs` | `TypeCorrect`, `AlwaysRecoverable`, `OneCluster`, `WorkersBehind` | the worker stage begins after the control plane's task: `WkReady`, `WatchFits`, `KnownBehind` follow the target from the state through the watched task; `WireBehind` and `TaskFits` keep late copies harmless |
| | `SuccessMeansUpgraded` | `TargetInv`: nothing on the platform or on its way is beyond the target (`Capped`), workers never go back (`WorkersForward`) behind what the cluster was made from (`MadeFor`) or what the state knows (`KnownWorkers`), and the task the update watches at last is its own (`WorkersWatch`): past it they are at the target (`Reached`). A configuration that was `TakenBack` keeps the weaker half: workers at least there, the control plane at no version above `peak` |
| `VpnIpsecProofs` | `TypeCorrect`, `KeyTrustworthy`, `NeverOrphansSilently`, `ConfirmedIsFree`, `PlanIsEmpty` | `KeyFits` has to hold of the state and of the response under construction, for any connection they name, not only at the return: no recorded version is ahead of the platform's, and an equal one stands for the same key. `OneCreate`: while a create travels whose call still waits, no connection of this block stands. What is left without a state entry is `told`, or one of the two `untold` cases. `CleanAt` is what an undisturbed call knows where it may return, `Removed` that a confirmed removal is final |
| `VolumeResourceProofs` | `TypeCorrect`, `OkIsTrue`, `DestroyGoesThrough` | `Positioned` and `StateFits`: where each method may be, what it has left there, and that a plan is made from the volume as it is; `Usable`: what was recorded untainted or is being attached is usable. For the destroy `QuietFits`, that an undisturbed one finds the volume as it left it, and `RefusalsCounted` with `PlatformFits`, that each refusal as attached was preceded by an attach of others |
| `MemberSetProofs` | `TypeCorrect`, `OkStaysDone` | `LeftFits`: what a running update still adds is configured; the configurations of the blocks agree with what the platform keeps unique (`Consistent`), so no request of one block takes a member from another that has it configured |
| `ResourceLifecycleProofs` | `TypeCorrect`, `LosesOnlyOnTheWay`, `ReplacementAlone` | `Phase` says what an apply knows at each position, `Saving` that the id is in the response or can still be, `Known` that no object of a careful resource is unknown |
| | `SuccessMeansDone` | `DoneInv` follows the object to the end of the apply: the plan is made from what the object is (`ReadFits`), a Create has made what it sent so far (`MadeAs`), an Update has left what it sent (`PatchFits`), each up to a job that is still to turn a part over (`Holds`), what was waited for is usable (`Usable`). The part no read shows needs more: until something fails or drifts it is as asked (`BlindKept`), and until then nothing can be imported, because Terraform knows all there is (`NothingHidden`) |

`ProfilesAssumption` is what the resources have in common: one that waits or
deploys saves its id at once, one with staged attributes saves it at once or
when a stage fails, one that records an unclear answer asks once, a part turned
over by a job is shown by reads and belongs to no keyed create, and one whose
create is keyed reads the object before Create ends and stages nothing. The last
is what `SuccessMeansDone` rests on: a key is answered with the object it made
once, which may be gone or changed. TLC evaluates the assumption for the 50
profiles, so the theorems hold for a resource added later if its profile keeps
it. The other assumptions bound counters, keep model values apart, or
(`MembersAssumption`, `KindsAssumption`) say that a bare IP is kept as another
entry, and that only IPs are bare.

What the proofs changed. `quiet` was never set again after a first disturbance,
so `DestroyHolds` said nothing of later destroys; `NothingStranded` was claimed
for any number of creators and is false for two of one name, which its proof met
and TLC confirmed; what a keyed create needs was not written down. The
models have it so now.

Only model-checked: what needs fairness (`Terminates`, `Converges`, `WaitEnds`,
`KeyHealed`, `Returns`), which TLAPS does not prove. No module uses RECURSIVE.
`OneCluster`, `OneOperationPerCall` and `RefusalIsDefinite` state consequences
of what the runs check (`Recoverable`, `KeepsPromise`), the `Invariance`
theorems are what the others rest on, and the type theorem of `Transport` needs
no run.

## 7. What the models leave out

* Time is order: backoff, poll intervals and cooldowns have no length; an
  expiry may come at any step at which the code looks at its context.
* Data: names, bodies, wording. A configuration is a few abstract values.
  `tfdiag` text and schema validation are left out.
* `Transport` is not repeated inside the resource models. `KubernetesCluster`
  and `VpnIpsec` have late copies; `ResourceLifecycle` has one request and one
  answer per step, with the effect done or not when the answer is lost.
* Creates that are replayed or answered too late without a key make a second
  object (`request.go:34`): most creates of plain resources do. In
  `ResourceLifecycle` such an object is marked by `forgot`, is met by nothing
  afterwards (names are taken as not unique) and is what `Converges` and the
  destroy half of `OkMeansDone` except.
* In `ResourceLifecycle`: attributes that force a replacement beside others that
  can be updated, the Docker engine's installation, power actions, a killed
  provider, and the order of several staged requests (taken as any order).
  A resource whose last read may fail takes a remembered answer for a new
  object until the key expires (`Revenant`).
* In `MemberSet`: the PATCH of name, description or schedule that may precede
  the loops (one more request that can fail), and a `comment` of `""`, which
  `entryKey` takes for none.
* Parts no read shows (a microVM's environment, the rotated password of a
  database) are compared with the platform only while nothing failed or drifted
  (`Plain`): after that nobody can know.
* The engine upgrade of a `managed_database` (`managed_database.go:583`): the
  version is what the platform records at once; the upgrade of the machine that
  follows is seen by no call of the provider, and `OkMeansDone` is not about it.
* A 429 that had an effect, outside `Transport` and `VpnIpsec`: `VolumeOp` and
  `VolumeSnapshot` take the 429 of the operation gate for definite, as
  `volumeop.go:604` and `client/volume.go:151` do; were another 429 to record
  an operation, the code would send it twice. In the other modules a 429 that
  recorded something is a lost answer, and the client's replay the second copy.
* In `VpnIpsec`: a 404 of the gateway itself. An update the gateway fails after
  recording it is not repaired by a later apply (the plan is empty), and no
  document says it should be.

## 8. Not modelled, and why

Data sources, validators, provider configuration, diagnostics and the
acceptance harness are sequential conversions without state. Client methods
for administration, catalogues, Proxmox and runners have no resource. The
microVM settings are one PUT and one GET on a singleton. Of paged lists only the
effect is modelled (a search misses a row), of the waits only how they end.

## 9. Plan

Done, in this order: `VolumeOp` with its promise, `VolumeSnapshot`, `Transport`
with `OneShot`, `KubernetesCluster`, `VpnIpsec`, `ResourceLifecycle` with
`ResourceProfiles` and `ClientRequests`, `VolumeResource`, `MemberSet`; theorems
of every safety property of the runs.

Next, theorems that say more than the runs do:

1. `VolumeResource` takes in three steps what `VolumeOp` has as a loop: that
   these steps are what `ConfirmedOperation` allows.
2. `MemberSet`: an update without faults sends as many requests as there were
   differences and then ends, a bound that `Converges` does not give.
3. The create of `KubernetesCluster` against a keyed call of `Transport`.

What could still be modelled: power actions and the resize of an instance, the
restore of a database, and the count of tolerated errors in `waiter`.
