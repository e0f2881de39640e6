------------------------- MODULE KubernetesCluster -------------------------
(***************************************************************************)
(* The resource iaas_kubernetes_cluster under Terraform: its Create, Read, *)
(* Update and Delete, called apply after apply for ONE resource block      *)
(* whose configuration is edited now and then.                             *)
(*                                                                         *)
(* The create carries an idempotency key made of the configuration; every  *)
(* other request a random one.  An update renames first and then upgrades  *)
(* in stages: control plane, workers, cloud controller manager.  Answers   *)
(* get lost, and a request whose answer was lost may still arrive.         *)
(***************************************************************************)
EXTENDS Integers, FiniteSets

CONSTANTS
    MaxClusters,    \* clusters ever made, numbered in the order they are made
    MaxVersion,     \* Kubernetes versions are 1..MaxVersion, oldest first
    MaxName,        \* the names (descriptions, projects) edited in, in turn
    UpgradeCCM,     \* the upgrade_ccm attribute
    Lossy,          \* may answers get lost?
    MaxLate         \* bound: requests on their way after their answer was lost

ASSUME ClustersAssumption == MaxClusters \in Nat
ASSUME VersionAssumption == MaxVersion \in Nat \ {0}
ASSUME NameAssumption == MaxName \in Nat \ {0}
ASSUME UpgradeCCMAssumption == UpgradeCCM \in BOOLEAN
ASSUME LossyAssumption == Lossy \in BOOLEAN
ASSUME LateAssumption == MaxLate \in Nat

VARIABLES
    cluster,    \* the platform's clusters
    cached,     \* what the idempotency middleware replays for each key
    wire,       \* requests on their way
    task,       \* the upgrade task under way (one at a time: op_locked)
    watch,      \* the status of the task the update waits for
    want,       \* the configuration
    peak,       \* history: the newest version ever configured
    pc,         \* where the apply or the destroy is
    asked,      \* is the request of this position out?
    replacing,  \* the delete is the first half of a replacement
    stateId, known, tainted,    \* the Terraform state
    done        \* the last apply or destroy ended without an error

platform == <<cluster, cached, task>>
state    == <<stateId, known, tainted>>
vars == <<platform, wire, watch, want, peak, pc, asked, replacing, state, done>>

Ids      == 1..MaxClusters
NoId     == 0
Versions == 1..MaxVersion
Names    == 1..MaxName
Configs  == [ver : Versions, name : Names]
Lives    == {"unused", "starting", "running", "error", "destroyed"}
Clusters == [life : Lives, body : Configs, name : Names, cp : Versions,
             wk : Versions, ccm : Versions]
Facts    == [kv : Versions, cp : Versions, name : Names]
NoFacts  == [kv |-> 1, cp |-> 1, name |-> 1]    \* while nothing is known
NoTask   == [kind |-> "none"]
Tasks    == [kind : {"cp", "wk"}, id : Ids, to : Versions, watched : BOOLEAN]
Upgrades == [op : {"cp", "wk"}, id : Ids, to : Versions]
Requests == [op : {"create"}, body : Configs] \cup
            [op : {"delete", "ccm"}, id : Ids] \cup
            [op : {"patch"}, id : Ids, name : Names] \cup Upgrades
Sending  == {"create", "delete", "patch", "cp", "wk", "ccm"}
Positions == Sending \cup {"idle", "refresh", "wait", "hydrate", "deleteWait",
                           "cpWait", "wkWait", "reread"}

TypeOK ==
    /\ cluster \in [Ids -> Clusters]
    /\ cached \in [Configs -> Ids \cup {NoId}]
    /\ wire \subseteq Requests
    /\ task \in Tasks \cup {NoTask}
    /\ watch \in {"none", "running", "completed", "failed"}
    /\ want \in Configs
    /\ peak \in Versions /\ want.ver <= peak
    /\ pc \in Positions
    /\ asked \in BOOLEAN
    /\ replacing \in BOOLEAN
    /\ stateId \in Ids \cup {NoId}
    /\ known \in Facts
    /\ tainted \in BOOLEAN
    /\ done \in BOOLEAN
    /\ stateId = NoId => known = NoFacts /\ ~tainted

Exists(i) == cluster[i].life \notin {"unused", "destroyed"}

\* kubernetesClusterStateFromAPI: kubernetes_version_id is the workers' one.
Seen(i) == [kv |-> cluster[i].wk, cp |-> cluster[i].cp, name |-> cluster[i].name]

-----------------------------------------------------------------------------
(* The provider: requests.                                                 *)

Request ==
    CASE pc = "create"           -> [op |-> "create", body |-> want]
      [] pc \in {"delete", "ccm"} -> [op |-> pc, id |-> stateId]
      [] pc = "patch"            -> [op |-> "patch", id |-> stateId, name |-> want.name]
      [] pc \in {"cp", "wk"}      -> [op |-> pc, id |-> stateId, to |-> want.ver]

GoTo(position) == pc' = position /\ UNCHANGED done

\* The call returns, without an error or with one.
Succeed == pc' = "idle" /\ done' = TRUE
Stop    == pc' = "idle" /\ done' = FALSE

Send ==
    /\ pc \in Sending /\ ~asked
    /\ asked' = TRUE
    /\ wire' = wire \cup {Request}
    /\ UNCHANGED <<platform, watch, want, peak, pc, replacing, state, done>>

\* The request failed, or its answer is lost: every handler returns here.
Fail ==
    /\ Stop
    /\ asked' = FALSE
    /\ UNCHANGED <<watch, want, peak, replacing, state>>

\* The answer to r is a success and the handler goes on at position.
GoOn(r, position) ==
    IF asked /\ r = Request
      THEN asked' = FALSE /\ GoTo(position)
      ELSE UNCHANGED <<asked, pc, done>>

\* A 5xx to the last attempt, a transport error, an interrupt: the request may
\* still arrive.
AnswerLost ==
    /\ Lossy /\ asked
    /\ Fail
    /\ wire' = IF Cardinality(wire) <= MaxLate THEN wire ELSE wire \ {Request}
    /\ UNCHANGED platform

-----------------------------------------------------------------------------
(* The platform (outside this repository).                                 *)

Leave(r) ==
    /\ r \in wire
    /\ wire' = wire \ {r}
    /\ UNCHANGED <<want, peak, replacing>>

Refuse(r) ==
    /\ Leave(r)
    /\ IF asked /\ r = Request
         THEN Fail
         ELSE UNCHANGED <<watch, pc, asked, state, done>>
    /\ UNCHANGED platform

\* The id of the answer is in the state before anything waits for the cluster.
Persist(r, i) ==
    /\ GoOn(r, "wait")
    /\ stateId' = IF asked /\ r = Request THEN i ELSE stateId
    /\ UNCHANGED <<watch, known, tainted>>

\* Mutant: a random key, under which nothing is ever found again.
RememberRandom(body, i) == UNCHANGED cached

\* The middleware keeps the answer under idempotencyKeyForPlan(body).
Remember(body, i) == cached' = [cached EXCEPT ![body] = i]

CreateRow(r, i) ==
    /\ r.op = "create" /\ Leave(r)
    /\ cached[r.body] = NoId
    /\ cluster[i].life = "unused"
    /\ \A j \in 1..(i - 1) : cluster[j].life # "unused"
    /\ cluster' = [cluster EXCEPT ![i] =
                     [life |-> "starting", body |-> r.body, name |-> r.body.name,
                      cp |-> r.body.ver, wk |-> r.body.ver, ccm |-> r.body.ver]]
    /\ Remember(r.body, i)
    /\ Persist(r, i)
    /\ UNCHANGED task

ReplayCreate(r) ==
    /\ r.op = "create" /\ Leave(r)
    /\ cached[r.body] # NoId
    /\ Persist(r, cached[r.body])
    /\ UNCHANGED platform

Provisioned(i) ==
    /\ cluster[i].life = "starting"
    /\ \E l \in {"running", "error"} :
          cluster' = [cluster EXCEPT ![i].life = l]
    /\ UNCHANGED <<cached, wire, task, watch, want, peak, pc, asked, replacing,
                   state, done>>

\* The row goes at once and reads 404; a task on it goes with it.
Destroy(r) ==
    /\ r.op = "delete" /\ Leave(r)
    /\ Exists(r.id)
    /\ cluster' = [cluster EXCEPT ![r.id].life = "destroyed"]
    /\ task' = IF task # NoTask /\ task.id = r.id THEN NoTask ELSE task
    /\ GoOn(r, "deleteWait")
    /\ UNCHANGED <<cached, watch, state>>

\* Mutant: the control plane is upgraded again although it is at the target.
VersionStageRepeats(s) == IF s.kv = want.ver THEN "reread" ELSE "cp"

\* upgradeClusterVersion: the control plane first, unless it is at the target.
VersionStage(s) ==
    IF s.kv = want.ver THEN "reread"
    ELSE IF s.cp # want.ver THEN "cp" ELSE "wk"

\* Mutant: after the control plane the update counts as done.
AfterStageShort(stage) == "reread"

AfterStage(stage) ==
    IF stage = "cp" THEN "wk" ELSE IF UpgradeCCM THEN "ccm" ELSE "reread"

Rename(r) ==
    /\ r.op = "patch" /\ Leave(r)
    /\ Exists(r.id)
    /\ cluster' = [cluster EXCEPT ![r.id].name = r.name]
    /\ GoOn(r, VersionStage(known))
    /\ UNCHANGED <<cached, task, watch, state>>

\* Versions only move forward (client/kubernetes.go:289).  That workers must not
\* overtake the control plane is left to the provider, so that its own staging
\* is checked.
StartTask(r) ==
    /\ r.op \in {"cp", "wk"} /\ Leave(r)
    /\ task = NoTask
    /\ cluster[r.id].life = "running"
    /\ r.to > (IF r.op = "cp" THEN cluster[r.id].cp ELSE cluster[r.id].wk)
    /\ task' = [kind |-> r.op, id |-> r.id, to |-> r.to,
                watched |-> asked /\ r = Request]
    /\ IF asked /\ r = Request
         THEN /\ asked' = FALSE
              /\ GoTo(IF r.op = "cp" THEN "cpWait" ELSE "wkWait")
              /\ watch' = "running"
         ELSE UNCHANGED <<asked, pc, done, watch>>
    /\ UNCHANGED <<cluster, cached, state>>

\* The other answer the provider is written for: the version is there already,
\* the answer names no task, and the provider goes on without a wait.
AlreadyThere(r) ==
    /\ r.op \in {"cp", "wk"} /\ Leave(r)
    /\ cluster[r.id].life = "running"
    /\ r.to = (IF r.op = "cp" THEN cluster[r.id].cp ELSE cluster[r.id].wk)
    /\ GoOn(r, AfterStage(r.op))
    /\ UNCHANGED <<platform, watch, state>>

EndTask(status) ==
    /\ task # NoTask
    /\ task' = NoTask
    /\ watch' = IF task.watched THEN status ELSE watch
    /\ UNCHANGED <<cached, wire, want, peak, pc, asked, replacing, state, done>>

TaskCompletes ==
    /\ EndTask("completed")
    /\ cluster' = IF task.kind = "cp"
                    THEN [cluster EXCEPT ![task.id].cp = task.to]
                    ELSE [cluster EXCEPT ![task.id].wk = task.to]

TaskFails == EndTask("failed") /\ UNCHANGED cluster

RedeployCCM(r) ==
    /\ r.op = "ccm" /\ Leave(r)
    /\ cluster[r.id].life = "running"
    /\ cluster' = [cluster EXCEPT ![r.id].ccm = cluster[r.id].wk]
    /\ GoOn(r, "reread")
    /\ UNCHANGED <<cached, task, watch, state>>

-----------------------------------------------------------------------------
(* The provider: what happens between the requests.                        *)

localOnly == <<platform, wire, want, peak, asked>>

\* The practitioner edits the configuration between two applies and may take
\* the version back.  (Bounds: the name only moves forward, and the version
\* back only with the last name.)
Edit ==
    /\ pc = "idle"
    /\ \E c \in Configs : /\ c # want /\ c.name >= want.name
                          /\ c.ver < want.ver => c.name = MaxName
                          /\ want' = c
    /\ peak' = IF want'.ver > peak THEN want'.ver ELSE peak
    /\ done' = FALSE
    /\ UNCHANGED <<platform, wire, watch, pc, asked, replacing, state>>

Apply ==
    /\ pc = "idle"
    /\ pc' = IF stateId = NoId THEN "create" ELSE "refresh"
    /\ done' = FALSE
    /\ UNCHANGED <<localOnly, watch, replacing, state>>

UserDestroys ==
    /\ pc = "idle" /\ stateId # NoId
    /\ pc' = "delete" /\ replacing' = FALSE
    /\ done' = FALSE
    /\ UNCHANGED <<localOnly, watch, state>>

\* Mutant: only the id leaves the state.
ForgetId == stateId' = NoId /\ UNCHANGED <<known, tainted>>

\* The resource leaves the state.
Forget == stateId' = NoId /\ tainted' = FALSE /\ known' = NoFacts

\* What Terraform does about the differences it finds.
Planned(s) ==
    IF tainted THEN "delete"
    ELSE IF s.name # want.name THEN "patch"
    ELSE IF s.kv # want.ver THEN VersionStage(s) ELSE "idle"

\* Read: a cluster that reads 404 leaves the state.  Then Terraform plans and
\* applies the plan.
Refresh ==
    /\ pc = "refresh"
    /\ \/ /\ ~Exists(stateId)
          /\ GoTo("create")
          /\ Forget
          /\ UNCHANGED replacing
       \/ /\ Exists(stateId)
          /\ pc' = Planned(Seen(stateId))
          /\ done' = (pc' = "idle")
          /\ known' = Seen(stateId)
          /\ replacing' = tainted
          /\ UNCHANGED <<stateId, tainted>>
    /\ UNCHANGED <<localOnly, watch>>

RefreshFails ==
    /\ pc = "refresh" /\ Lossy
    /\ Stop
    /\ UNCHANGED <<localOnly, watch, replacing, state>>

\* A create that fails after the id is known leaves the resource tainted.
FailTainted == Stop /\ tainted' = TRUE /\ UNCHANGED <<stateId, known>>

\* The readiness wait; failed reads, the error state and the timeout end it.
Wait ==
    /\ pc = "wait"
    /\ \/ cluster[stateId].life = "running" /\ GoTo("hydrate") /\ UNCHANGED state
       \/ FailTainted
    /\ UNCHANGED <<localOnly, watch, replacing>>

Hydrate ==
    /\ pc = "hydrate"
    /\ \/ /\ Exists(stateId)
          /\ Succeed
          /\ known' = Seen(stateId)
          /\ UNCHANGED <<stateId, tainted>>
       \/ Lossy /\ FailTainted
    /\ UNCHANGED <<localOnly, watch, replacing>>

\* The removal wait: over on 404; a timeout or failed read leaves the state.
DeleteWait ==
    /\ pc = "deleteWait"
    /\ \/ /\ ~Exists(stateId)
          /\ Forget
          /\ IF replacing THEN GoTo("create") ELSE Succeed
       \/ Stop /\ UNCHANGED state
    /\ replacing' = FALSE
    /\ UNCHANGED <<localOnly, watch>>

\* Mutant: a task that ended is taken for a task that succeeded.
TaskDoneHasty == watch \in {"completed", "failed"}

\* waitForClusterUpgradeTask.
TaskDone == watch = "completed"

\* The stage whose task is waited for.
Stage == IF pc = "cpWait" THEN "cp" ELSE "wk"

TaskWait ==
    /\ pc \in {"cpWait", "wkWait"}
    /\ \/ TaskDone /\ GoTo(AfterStage(Stage))
       \/ ~TaskDone /\ Stop      \* failed, unreadable or timed out
    /\ watch' = "none"
    /\ UNCHANGED <<localOnly, replacing, state>>

\* The read after an update; when it fails the state keeps its old values.
Reread ==
    /\ pc = "reread"
    /\ \/ /\ Exists(stateId)
          /\ Succeed
          /\ known' = Seen(stateId)
       \/ (Lossy \/ ~Exists(stateId)) /\ Stop /\ UNCHANGED known
    /\ UNCHANGED <<localOnly, watch, replacing, stateId, tainted>>

-----------------------------------------------------------------------------
Init ==
    /\ want = [ver |-> 1, name |-> 1]
    /\ peak = 1
    /\ cluster = [i \in Ids |-> [life |-> "unused", body |-> want,
                                 name |-> want.name, cp |-> 1, wk |-> 1, ccm |-> 1]]
    /\ cached = [c \in Configs |-> NoId]
    /\ wire = {}
    /\ task = NoTask
    /\ watch = "none"
    /\ pc = "idle"
    /\ asked = FALSE
    /\ replacing = FALSE
    /\ stateId = NoId
    /\ known = NoFacts
    /\ tainted = FALSE
    /\ done = FALSE

Provider ==
    \/ Apply \/ Send \/ Refresh \/ RefreshFails \/ Wait \/ Hydrate
    \/ DeleteWait \/ TaskWait \/ Reread

Handle(r) ==
    \/ \E i \in Ids : CreateRow(r, i)
    \/ ReplayCreate(r)
    \/ Destroy(r)
    \/ Rename(r)
    \/ StartTask(r)
    \/ AlreadyThere(r)
    \/ RedeployCCM(r)
    \/ Refuse(r)

Platform ==
    \/ \E r \in wire : Handle(r)
    \/ \E i \in Ids : Provisioned(i)
    \/ TaskCompletes \/ TaskFails

Next == Provider \/ Platform \/ AnswerLost \/ Edit \/ UserDestroys

Spec == Init /\ [][Next]_vars

\* Somebody keeps applying, the provider runs on, every answer comes or is
\* given up, and the platform does not fail one kind of request, a read
\* included, for ever.
FairSpec ==
    /\ Spec
    /\ WF_vars(Provider)
    /\ WF_vars(asked /\ (AnswerLost \/ Refuse(Request)))
    /\ SF_vars(Refresh)
    /\ SF_vars(\E r \in wire : Rename(r))
    /\ SF_vars(\E r \in wire : StartTask(r))
    /\ SF_vars(\E r \in wire : Destroy(r))
    /\ SF_vars(TaskCompletes)

-----------------------------------------------------------------------------
(* Properties.                                                             *)

\* One configuration has one cluster: a create whose answer was lost, and its
\* late copies, never make a second one beside it.
OneClusterPerConfig ==
    \A i, j \in Ids :
       Exists(i) /\ Exists(j) /\ cluster[i].body = cluster[j].body => i = j

\* A cluster the state does not hold is not lost: the create of the
\* configuration it was made from answers with its id.
Recoverable ==
    \A i \in Ids : Exists(i) => cached[cluster[i].body] = i

\* The workers never run ahead of the control plane, whichever stage fails,
\* is repeated or arrives late.
WorkersNeverAhead == \A i \in Ids : cluster[i].wk <= cluster[i].cp

\* The configuration was taken back below what a control plane has reached.
\* Update compares kubernetes_version_id only (kubernetes_cluster.go:683), which
\* is the workers' version: when they are still, or again, at the configured one
\* the plan is empty and nothing says that the control plane is elsewhere.
TakenBack(i) == want.ver < peak /\ want.ver < cluster[i].cp

\* An apply that reports success leaves both versions at the configured one; the
\* one exception is a configuration that was TakenBack, where the workers are at
\* least there and the control plane is at no version that was never configured.
OkMeansUpgraded ==
    done /\ stateId # NoId /\ Exists(stateId) =>
       \/ cluster[stateId].wk = want.ver /\ cluster[stateId].cp = want.ver
       \/ /\ TakenBack(stateId)
          /\ want.ver <= cluster[stateId].wk /\ cluster[stateId].cp <= peak

\* Applying again and again brings a tracked running cluster to the
\* configured version, from whatever stage the last attempt stopped at, unless
\* the configuration was TakenBack.
Converges ==
    \A i \in Ids :
       stateId = i /\ cluster[i].life = "running" ~>
          \/ cluster[i].life # "running"
          \/ cluster[i].wk = want.ver /\ cluster[i].cp = want.ver
          \/ TakenBack(i)

-----------------------------------------------------------------------------
(* What the source says of it, where the code does otherwise.              *)

\* "two identical configs hash to the same key (safe dedup)": the id a create
\* is answered with is that of a cluster.
DedupIsSafe == pc = "wait" => Exists(stateId)
=============================================================================
