---------------------- MODULE KubernetesClusterProofs ----------------------
(***************************************************************************)
(* For any number of clusters, versions and names: the types of            *)
(* KubernetesCluster, that no cluster is out of the reach of its           *)
(* configuration's idempotency key, that workers never run ahead of the    *)
(* control plane (IInv), and that an update that reports success has       *)
(* upgraded both (TargetInv).                                              *)
(***************************************************************************)
EXTENDS KubernetesCluster, TLAPS

\* A request is out only from a position that sends one; only a create works
\* without an id.
Positioned ==
    /\ asked => pc \in Sending
    /\ pc = "create" => stateId = NoId
    /\ pc \notin {"idle", "create"} => stateId # NoId

\* Every id the provider or the middleware holds is that of a made cluster.
Made ==
    /\ stateId # NoId => cluster[stateId].life # "unused"
    /\ \A c \in Configs :
          cached[c] # NoId => cluster[cached[c]].life # "unused"

\* A control plane never goes back behind what the state knows of it.
KnownBehind == stateId # NoId => known.cp <= cluster[stateId].cp

\* A worker upgrade that was asked for is within the control plane's version.
WireBehind ==
    \A r \in wire : r.op = "wk" =>
       cluster[r.id].life # "unused" /\ r.to <= cluster[r.id].cp

\* So is one under way; a control plane upgrade goes forward.
TaskFits ==
    task # NoTask =>
       /\ cluster[task.id].life = "running"
       /\ task.kind = "cp" => task.to >= cluster[task.id].cp
       /\ task.kind = "wk" => task.to <= cluster[task.id].cp

\* The worker stage begins only with the control plane at the target.
WkReady == pc = "wk" => want.ver <= cluster[stateId].cp

\* While the update waits for the control plane, a watched task is its own.
WatchFits ==
    pc = "cpWait" =>
       /\ task # NoTask /\ task.watched =>
             task.kind = "cp" /\ task.id = stateId /\ task.to = want.ver
       /\ watch = "completed" => want.ver <= cluster[stateId].cp

\* The inductive invariant.
IInv ==
    /\ TypeOK
    /\ Positioned
    /\ Made
    /\ KnownBehind
    /\ WireBehind
    /\ TaskFits
    /\ WkReady
    /\ WatchFits
    /\ Recoverable
    /\ WorkersNeverAhead

-----------------------------------------------------------------------------
\* What a request of each kind carries.
LEMMA RequestParts ==
    ASSUME NEW r \in Requests
    PROVE  /\ r.op = "create" => r.body \in Configs
           /\ r.op # "create" => r.id \in Ids
           /\ r.op = "patch" => r.name \in Names
           /\ r.op \in {"cp", "wk"} => r.to \in Versions
BY DEF Requests, Upgrades

\* What the handlers send is a request, about the tracked cluster.
LEMMA RequestType ==
    ASSUME TypeOK, pc \in Sending, pc # "create" => stateId \in Ids
    PROVE  /\ Request \in Requests
           /\ Request.op = pc
           /\ pc = "create" => Request.body = want
           /\ pc # "create" => Request.id = stateId
           /\ pc \in {"cp", "wk"} => Request.to = want.ver
<1>1. want.ver \in Versions /\ want.name \in Names /\ want \in Configs
  BY DEF TypeOK, Configs
<1>2. CASE pc = "create"
  BY <1>1, <1>2 DEF Request, Requests
<1>3. CASE pc \in {"delete", "ccm"}
  BY <1>1, <1>3 DEF Request, Requests
<1>4. CASE pc = "patch"
  BY <1>1, <1>4 DEF Request, Requests
<1>5. CASE pc \in {"cp", "wk"}
  BY <1>1, <1>5 DEF Request, Requests, Upgrades
<1> QED
  BY <1>2, <1>3, <1>4, <1>5 DEF Sending

\* A tracked id is an id.
LEMMA StateIdType == IInv /\ stateId # NoId => stateId \in Ids
BY DEF IInv, TypeOK

\* What a read of a made cluster tells.
LEMMA SeenType ==
    ASSUME TypeOK, NEW i \in Ids
    PROVE  Seen(i) \in Facts /\ Seen(i).cp = cluster[i].cp
BY DEF TypeOK, Clusters, Facts, Seen

-----------------------------------------------------------------------------
(* Steps that leave the platform and the wire alone.                       *)

LEMMA LocalKeepsInv ==
    ASSUME IInv, UNCHANGED <<cluster, cached, task, wire>>,
           TypeOK', Positioned',
           stateId' # NoId => cluster[stateId'].life # "unused",
           KnownBehind', WkReady', WatchFits'
    PROVE  IInv'
<1>1. Made'
  BY DEF IInv, Made, TypeOK
<1>2. WireBehind' /\ TaskFits' /\ Recoverable' /\ WorkersNeverAhead'
  BY DEF IInv, WireBehind, TaskFits, Recoverable, WorkersNeverAhead, Exists
<1> QED
  BY <1>1, <1>2 DEF IInv

\* A handler returns and touches nothing else of the state.
LEMMA ReturnKeepsInv ==
    ASSUME IInv, UNCHANGED <<cluster, cached, task, wire, want, peak, stateId, known>>,
           pc' = "idle", done' \in BOOLEAN, asked' = FALSE,
           replacing' \in BOOLEAN, tainted' \in BOOLEAN,
           watch' \in {"none", "running", "completed", "failed"},
           stateId = NoId => ~tainted'
    PROVE  IInv'
<1>1. TypeOK'
  BY DEF IInv, TypeOK, Positions
<1>2. Positioned' /\ KnownBehind' /\ WkReady' /\ WatchFits'
  BY DEF IInv, Positioned, KnownBehind, WkReady, WatchFits
<1>3. stateId' # NoId => cluster[stateId'].life # "unused"
  BY DEF IInv, Made
<1> QED
  BY <1>1, <1>2, <1>3, LocalKeepsInv

LEMMA AnswerLostKeepsInv == IInv /\ AnswerLost => IInv'
<1> SUFFICES ASSUME IInv, AnswerLost PROVE IInv'
  OBVIOUS
<1> USE DEF platform, state
<1>1. /\ UNCHANGED <<cluster, cached, task, want, peak, stateId, known>>
      /\ UNCHANGED <<watch, replacing, tainted>>
      /\ wire' \subseteq wire
      /\ pc' = "idle" /\ done' = FALSE /\ asked' = FALSE
  BY DEF AnswerLost, Fail, Stop
<1>2. TypeOK'
  BY <1>1 DEF IInv, TypeOK, Positions
<1>3. Positioned' /\ Made' /\ KnownBehind' /\ TaskFits' /\ WkReady' /\ WatchFits'
  BY <1>1 DEF IInv, Positioned, Made, KnownBehind, TaskFits, WkReady, WatchFits
<1>4. WireBehind' /\ Recoverable' /\ WorkersNeverAhead'
  BY <1>1 DEF IInv, WireBehind, Recoverable, WorkersNeverAhead, Exists
<1> QED
  BY <1>2, <1>3, <1>4 DEF IInv

LEMMA RefreshFailsKeepsInv == IInv /\ RefreshFails => IInv'
BY ReturnKeepsInv DEF RefreshFails, Stop, localOnly, platform, state, IInv, TypeOK,
   Positioned, Sending

LEMMA SendKeepsInv == IInv /\ Send => IInv'
<1> SUFFICES ASSUME IInv, Send PROVE IInv'
  OBVIOUS
<1>1. /\ pc \in Sending /\ asked' = TRUE /\ wire' = wire \cup {Request}
      /\ UNCHANGED <<cluster, cached, task, watch, want, peak, pc, replacing, stateId,
                     known, tainted, done>>
  BY DEF Send, platform, state
<1>2. /\ Request \in Requests /\ Request.op = pc
      /\ pc # "create" => stateId # NoId /\ Request.id = stateId
      /\ pc \in {"cp", "wk"} => Request.to = want.ver
  BY <1>1, RequestType, StateIdType DEF IInv, Positioned, Sending
<1>3. TypeOK'
  BY <1>1, <1>2 DEF IInv, TypeOK
<1>4. Positioned' /\ Made' /\ KnownBehind' /\ TaskFits' /\ WkReady' /\ WatchFits'
  BY <1>1 DEF IInv, Positioned, Made, KnownBehind, TaskFits, WkReady, WatchFits
<1>5. WireBehind'
  BY <1>1, <1>2 DEF IInv, WireBehind, WkReady, Made
<1>6. Recoverable' /\ WorkersNeverAhead'
  BY <1>1 DEF IInv, Recoverable, WorkersNeverAhead, Exists
<1> QED
  BY <1>3, <1>4, <1>5, <1>6 DEF IInv

LEMMA EditKeepsInv == IInv /\ Edit => IInv'
<1> SUFFICES ASSUME IInv, Edit PROVE IInv'
  OBVIOUS
<1>1. /\ pc = "idle" /\ want' \in Configs /\ done' = FALSE
      /\ peak' = IF want'.ver > peak THEN want'.ver ELSE peak
      /\ UNCHANGED <<cluster, cached, task, wire, watch, pc, asked, replacing,
                     stateId, known, tainted>>
  BY DEF Edit, platform, state
<1>2. TypeOK'
  <2>1. want.ver \in Versions /\ want'.ver \in Versions /\ peak \in Versions
    BY <1>1 DEF IInv, TypeOK, Configs
  <2>2. peak' \in Versions /\ want'.ver <= peak'
    BY <1>1, <2>1 DEF Versions
  <2> QED
    BY <1>1, <2>2 DEF IInv, TypeOK
<1>3. Positioned' /\ KnownBehind' /\ WkReady' /\ WatchFits'
  BY <1>1 DEF IInv, Positioned, KnownBehind, WkReady, WatchFits
<1> QED
  BY <1>1, <1>2, <1>3, LocalKeepsInv DEF IInv, Made

\* A handler goes on to a position other than the worker stage and the two
\* upgrade waits, with the same state.
LEMMA MoveKeepsInv ==
    ASSUME IInv, UNCHANGED <<cluster, cached, task, wire, want, peak, asked, stateId,
                             known, tainted>>,
           pc' \in Positions \ {"wk", "cpWait", "wkWait"}, ~asked,
           done' \in BOOLEAN, replacing' \in BOOLEAN,
           watch' \in {"none", "running", "completed", "failed"},
           pc' = "create" => stateId = NoId,
           pc' \notin {"idle", "create"} => stateId # NoId
    PROVE  IInv'
<1>1. TypeOK'
  BY DEF IInv, TypeOK
<1>2. Positioned' /\ KnownBehind' /\ WkReady' /\ WatchFits'
  BY DEF IInv, Positioned, KnownBehind, WkReady, WatchFits
<1> QED
  BY <1>1, <1>2, LocalKeepsInv DEF IInv, Made

LEMMA NotAsked == IInv /\ pc \notin Sending => ~asked
BY DEF IInv, Positioned

LEMMA ApplyKeepsInv == IInv /\ Apply => IInv'
BY MoveKeepsInv, NotAsked DEF Apply, localOnly, platform, state, IInv, TypeOK,
   Positions, Sending

LEMMA UserDestroysKeepsInv == IInv /\ UserDestroys => IInv'
BY MoveKeepsInv, NotAsked DEF UserDestroys, localOnly, platform, state, IInv, TypeOK,
   Positions, Sending

LEMMA WaitKeepsInv == IInv /\ Wait => IInv'
<1> SUFFICES ASSUME IInv, Wait PROVE IInv'
  OBVIOUS
<1> USE DEF localOnly, platform, state
<1>1. pc = "wait" /\ ~asked /\ stateId # NoId
  BY NotAsked DEF Wait, IInv, Positioned, Sending
<1>2. CASE GoTo("hydrate") /\ UNCHANGED state
  BY <1>1, <1>2, MoveKeepsInv DEF Wait, GoTo, IInv, TypeOK, Positions, Sending
<1>3. CASE FailTainted
  BY <1>1, <1>3, ReturnKeepsInv DEF Wait, FailTainted, Stop, IInv, TypeOK
<1> QED
  BY <1>2, <1>3 DEF Wait

\* The facts of the state are read afresh and the handler returns.
LEMMA ReadKeepsInv ==
    ASSUME IInv, stateId # NoId, ~asked,
           UNCHANGED <<cluster, cached, task, wire, want, peak, asked, stateId, tainted>>,
           known' = Seen(stateId),
           pc' \in Positions \ {"create", "cpWait"},
           pc' = "wk" => Seen(stateId).cp = want.ver,
           done' \in BOOLEAN, replacing' \in BOOLEAN,
           watch' \in {"none", "running", "completed", "failed"}
    PROVE  IInv'
<1>1. stateId \in Ids /\ Seen(stateId) \in Facts
      /\ Seen(stateId).cp = cluster[stateId].cp /\ want.ver \in Versions
      /\ cluster[stateId].cp \in Versions
  BY StateIdType, SeenType DEF IInv, TypeOK, Configs, Clusters
<1>2. TypeOK'
  BY <1>1 DEF IInv, TypeOK
<1>3. Positioned' /\ KnownBehind' /\ WkReady' /\ WatchFits'
  BY <1>1 DEF IInv, Positioned, KnownBehind, WkReady, WatchFits, Versions
<1> QED
  BY <1>2, <1>3, LocalKeepsInv DEF IInv, Made

LEMMA HydrateKeepsInv == IInv /\ Hydrate => IInv'
<1> SUFFICES ASSUME IInv, Hydrate PROVE IInv'
  OBVIOUS
<1> USE DEF localOnly, platform, state
<1>1. pc = "hydrate" /\ ~asked /\ stateId # NoId
  BY NotAsked DEF Hydrate, IInv, Positioned, Sending
<1>2. CASE Succeed /\ known' = Seen(stateId) /\ UNCHANGED <<stateId, tainted>>
  BY <1>1, <1>2, ReadKeepsInv DEF Hydrate, Succeed, IInv, TypeOK, Positions
<1>3. CASE FailTainted
  BY <1>1, <1>3, ReturnKeepsInv DEF Hydrate, FailTainted, Stop, IInv, TypeOK
<1> QED
  BY <1>2, <1>3 DEF Hydrate

LEMMA RereadKeepsInv == IInv /\ Reread => IInv'
<1> SUFFICES ASSUME IInv, Reread PROVE IInv'
  OBVIOUS
<1> USE DEF localOnly, platform
<1>1. pc = "reread" /\ ~asked /\ stateId # NoId
  BY NotAsked DEF Reread, IInv, Positioned, Sending
<1>2. CASE Succeed /\ known' = Seen(stateId)
  BY <1>1, <1>2, ReadKeepsInv DEF Reread, Succeed, IInv, TypeOK, Positions
<1>3. CASE Stop /\ UNCHANGED known
  BY <1>1, <1>3, ReturnKeepsInv DEF Reread, Stop, IInv, TypeOK
<1> QED
  BY <1>2, <1>3 DEF Reread

\* The resource leaves the state.
LEMMA ForgetKeepsInv ==
    ASSUME IInv, Forget, ~asked,
           UNCHANGED <<cluster, cached, task, wire, want, peak, asked>>,
           pc' \in {"create", "idle"},
           done' \in BOOLEAN, replacing' \in BOOLEAN,
           watch' \in {"none", "running", "completed", "failed"}
    PROVE  IInv'
<1>1. TypeOK'
  <2>1. NoFacts \in Facts
    BY VersionAssumption, NameAssumption DEF NoFacts, Facts, Versions, Names
  <2> QED
    BY <2>1 DEF IInv, TypeOK, Forget, Positions, Sending
<1>2. Positioned' /\ KnownBehind' /\ WkReady' /\ WatchFits'
  BY DEF IInv, Forget, Positioned, KnownBehind, WkReady, WatchFits
<1> QED
  BY <1>1, <1>2, LocalKeepsInv DEF Forget

LEMMA RefreshKeepsInv == IInv /\ Refresh => IInv'
<1> SUFFICES ASSUME IInv, Refresh PROVE IInv'
  OBVIOUS
<1> USE DEF localOnly, platform
<1>1. pc = "refresh" /\ ~asked /\ stateId # NoId
  BY NotAsked DEF Refresh, IInv, Positioned, Sending
<1>2. CASE GoTo("create") /\ Forget /\ UNCHANGED replacing
  BY <1>1, <1>2, ForgetKeepsInv DEF Refresh, GoTo, IInv, TypeOK
<1>3. CASE /\ pc' = Planned(Seen(stateId))
           /\ done' = (pc' = "idle")
           /\ known' = Seen(stateId)
           /\ replacing' = tainted
           /\ UNCHANGED <<stateId, tainted>>
  <2>1. /\ Planned(Seen(stateId)) \in Positions \ {"create", "cpWait"}
        /\ Planned(Seen(stateId)) = "wk" => Seen(stateId).cp = want.ver
    BY DEF Planned, VersionStage, Positions, Sending
  <2> QED
    BY <1>1, <1>3, <2>1, ReadKeepsInv DEF Refresh, IInv, TypeOK
<1> QED
  BY <1>2, <1>3 DEF Refresh

LEMMA DeleteWaitKeepsInv == IInv /\ DeleteWait => IInv'
<1> SUFFICES ASSUME IInv, DeleteWait PROVE IInv'
  OBVIOUS
<1> USE DEF localOnly, platform, state
<1>1. pc = "deleteWait" /\ ~asked /\ stateId # NoId
  BY NotAsked DEF DeleteWait, IInv, Positioned, Sending
<1>2. CASE Forget /\ IF replacing THEN GoTo("create") ELSE Succeed
  BY <1>1, <1>2, ForgetKeepsInv DEF DeleteWait, GoTo, Succeed, IInv, TypeOK
<1>3. CASE Stop /\ UNCHANGED state
  BY <1>1, <1>3, ReturnKeepsInv DEF DeleteWait, Stop, IInv, TypeOK
<1> QED
  BY <1>2, <1>3 DEF DeleteWait

LEMMA TaskWaitKeepsInv == IInv /\ TaskWait => IInv'
<1> SUFFICES ASSUME IInv, TaskWait PROVE IInv'
  OBVIOUS
<1> USE DEF localOnly, platform, state
<1>1. pc \in {"cpWait", "wkWait"} /\ ~asked /\ stateId # NoId
  BY NotAsked DEF TaskWait, IInv, Positioned, Sending
<1>2. CASE Stop
  BY <1>1, <1>2, ReturnKeepsInv DEF TaskWait, Stop, IInv, TypeOK
<1>3. CASE TaskDone /\ GoTo(AfterStage(Stage)) /\ pc = "cpWait"
  <2>1. pc' = "wk" /\ want.ver <= cluster[stateId].cp
    BY <1>3 DEF GoTo, Stage, AfterStage, TaskDone, IInv, WatchFits
  <2>2. UNCHANGED <<cluster, cached, task, wire, want, peak, asked, replacing, stateId,
                    known, tainted, done>> /\ watch' = "none"
    BY <1>3 DEF TaskWait, GoTo
  <2>3. TypeOK'
    BY <2>1, <2>2 DEF IInv, TypeOK, Positions, Sending
  <2>4. Positioned' /\ KnownBehind' /\ WkReady' /\ WatchFits'
    BY <1>1, <2>1, <2>2 DEF IInv, Positioned, KnownBehind, WkReady, WatchFits
  <2> QED
    BY <2>2, <2>3, <2>4, LocalKeepsInv DEF IInv, Made
<1>4. CASE TaskDone /\ GoTo(AfterStage(Stage)) /\ pc = "wkWait"
  BY <1>1, <1>4, MoveKeepsInv DEF TaskWait, GoTo, Stage, AfterStage, IInv, TypeOK, Positions,
     Sending
<1> QED
  BY <1>1, <1>2, <1>3, <1>4 DEF TaskWait

-----------------------------------------------------------------------------
(* Steps of the platform.                                                  *)

\* The platform changes no version and makes no cluster; the provider hears
\* of it or does not.
LEMMA QuietKeepsInv ==
    ASSUME IInv, cluster' \in [Ids -> Clusters],
           \A i \in Ids :
              /\ cluster'[i].cp = cluster[i].cp /\ cluster'[i].wk = cluster[i].wk
              /\ cluster'[i].body = cluster[i].body
              /\ cluster[i].life # "unused" => cluster'[i].life # "unused"
              /\ Exists(i)' => Exists(i),
           UNCHANGED <<cached, want, peak, replacing, stateId, known, tainted>>,
           wire' \subseteq wire,
           \/ task' = NoTask
           \/ task' = task /\ (task # NoTask => cluster'[task.id].life = "running"),
           watch' \in {"none", "running", "completed", "failed"},
           watch' = "completed" => watch = "completed",
           \/ UNCHANGED <<pc, asked, done>>
           \/ /\ asked /\ ~asked' /\ asked' \in BOOLEAN /\ done' = done
              /\ stateId # NoId
              /\ pc' \in Positions \ {"idle", "create", "cpWait"}
              /\ pc' = "wk" => known.cp = want.ver \/ cluster[stateId].cp = want.ver
    PROVE  IInv'
<1>1. TypeOK'
  BY DEF IInv, TypeOK
<1>2. Positioned' /\ Made'
  BY DEF IInv, Positioned, Made, TypeOK
<1>3. KnownBehind'
  BY StateIdType DEF IInv, KnownBehind
<1>4. WireBehind'
  BY RequestParts DEF IInv, WireBehind, TypeOK
<1>5. TaskFits'
  BY DEF IInv, TypeOK, TaskFits, Tasks
<1>6. WkReady' /\ WatchFits'
  <2>1. stateId # NoId =>
           /\ stateId \in Ids /\ cluster'[stateId].cp = cluster[stateId].cp
           /\ known.cp \in Int /\ cluster[stateId].cp \in Int /\ want.ver \in Int
    BY StateIdType DEF IInv, TypeOK, Facts, Clusters, Configs, Versions
  <2>2. WkReady'
    BY <2>1 DEF IInv, WkReady, KnownBehind, Positioned
  <2>3. WatchFits'
    BY <2>1 DEF IInv, WatchFits, Positioned
  <2> QED
    BY <2>2, <2>3
<1>7. Recoverable' /\ WorkersNeverAhead'
  BY DEF IInv, Recoverable, WorkersNeverAhead
<1> QED
  BY <1>1, <1>2, <1>3, <1>4, <1>5, <1>6, <1>7 DEF IInv

\* One cluster changes in fields that are no versions.
LEMMA OneClusterQuiet ==
    ASSUME IInv, NEW i \in Ids, Exists(i), NEW u \in Clusters,
           u.cp = cluster[i].cp, u.wk = cluster[i].wk, u.body = cluster[i].body,
           u.life # "unused", cluster' = [cluster EXCEPT ![i] = u]
    PROVE  /\ cluster' \in [Ids -> Clusters]
           /\ \A j \in Ids :
                 /\ cluster'[j].cp = cluster[j].cp /\ cluster'[j].wk = cluster[j].wk
                 /\ cluster'[j].body = cluster[j].body
                 /\ cluster[j].life # "unused" => cluster'[j].life # "unused"
                 /\ Exists(j)' => Exists(j)
           /\ cluster'[i] = u /\ \A j \in Ids \ {i} : cluster'[j] = cluster[j]
BY DEF IInv, TypeOK, Exists

LEMMA RefuseKeepsInv == ASSUME IInv, NEW r \in wire, Refuse(r) PROVE IInv'
<1> USE DEF platform, state
<1>1. /\ UNCHANGED <<cluster, cached, task, want, peak, replacing, stateId, known,
                      tainted, watch>>
      /\ wire' = wire \ {r}
      /\ \/ pc' = "idle" /\ done' = FALSE /\ asked' = FALSE
         \/ UNCHANGED <<pc, asked, done>>
  BY DEF Refuse, Leave, Fail, Stop
<1>2. TypeOK'
  BY <1>1 DEF IInv, TypeOK, Positions
<1>3. Positioned' /\ Made' /\ KnownBehind' /\ TaskFits' /\ WkReady' /\ WatchFits'
  BY <1>1 DEF IInv, Positioned, Made, KnownBehind, TaskFits, WkReady, WatchFits
<1>4. WireBehind' /\ Recoverable' /\ WorkersNeverAhead'
  BY <1>1 DEF IInv, WireBehind, Recoverable, WorkersNeverAhead, Exists
<1> QED
  BY <1>2, <1>3, <1>4 DEF IInv

\* What a success does to the provider.
LEMMA GoOnEffect ==
    ASSUME IInv, NEW r \in wire, r.op # "create", NEW p, GoOn(r, p)
    PROVE  \/ UNCHANGED <<pc, asked, done>>
           \/ /\ asked /\ asked' = FALSE /\ done' = done /\ pc' = p
              /\ pc = r.op /\ stateId # NoId /\ r.id = stateId
<1>1. CASE asked /\ r = Request
  <2>1. pc \in Sending /\ (pc # "create" => stateId # NoId)
    BY <1>1 DEF IInv, Positioned, Sending
  <2>2. pc = r.op /\ (pc # "create" => r.id = stateId)
    BY <1>1, <2>1, RequestType, StateIdType DEF IInv
  <2> QED
    BY <1>1, <2>1, <2>2 DEF GoOn, GoTo
<1>2. CASE ~(asked /\ r = Request)
  BY <1>2 DEF GoOn
<1> QED
  BY <1>1, <1>2

LEMMA DestroyKeepsInv == ASSUME IInv, NEW r \in wire, Destroy(r) PROVE IInv'
<1>1. /\ r.op = "delete" /\ r \in Requests /\ r.id \in Ids /\ Exists(r.id)
      /\ GoOn(r, "deleteWait") /\ wire' = wire \ {r}
      /\ UNCHANGED <<cached, want, peak, replacing, watch, stateId, known, tainted>>
  BY RequestParts DEF Destroy, Leave, state, IInv, TypeOK
<1> DEFINE u == [cluster[r.id] EXCEPT !.life = "destroyed"]
<1>2. cluster[r.id] \in Clusters
  BY <1>1 DEF IInv, TypeOK
<1>3. /\ u \in Clusters /\ u.cp = cluster[r.id].cp /\ u.wk = cluster[r.id].wk
      /\ u.body = cluster[r.id].body /\ u.life = "destroyed"
  BY <1>2 DEF Clusters, Lives
<1>4. cluster' = [cluster EXCEPT ![r.id] = u]
  BY <1>1 DEF Destroy, IInv, TypeOK
<1>5. \/ task' = NoTask
      \/ task' = task /\ task.id # r.id
  BY DEF Destroy
<1>6. task # NoTask => task.id \in Ids /\ cluster[task.id].life = "running"
  BY DEF IInv, TypeOK, TaskFits, Tasks
<1> HIDE DEF u
<1>7. /\ cluster' \in [Ids -> Clusters]
      /\ \A j \in Ids :
            /\ cluster'[j].cp = cluster[j].cp /\ cluster'[j].wk = cluster[j].wk
            /\ cluster'[j].body = cluster[j].body
            /\ cluster[j].life # "unused" => cluster'[j].life # "unused"
            /\ Exists(j)' => Exists(j)
      /\ \A j \in Ids \ {r.id} : cluster'[j] = cluster[j]
  BY <1>1, <1>3, <1>4, OneClusterQuiet
<1>8. \/ UNCHANGED <<pc, asked, done>>
      \/ asked /\ asked' = FALSE /\ done' = done /\ pc' = "deleteWait"
         /\ stateId # NoId
  BY <1>1, GoOnEffect
<1> QED
  BY <1>1, <1>5, <1>6, <1>7, <1>8, QuietKeepsInv DEF Positions, IInv, TypeOK

LEMMA RenameKeepsInv == ASSUME IInv, NEW r \in wire, Rename(r) PROVE IInv'
<1>1. /\ r.op = "patch" /\ r \in Requests /\ r.id \in Ids /\ r.name \in Names
      /\ Exists(r.id) /\ GoOn(r, VersionStage(known)) /\ wire' = wire \ {r}
      /\ UNCHANGED <<cached, task, want, peak, replacing, watch, stateId, known, tainted>>
  BY RequestParts DEF Rename, Leave, state, IInv, TypeOK
<1> DEFINE u == [cluster[r.id] EXCEPT !.name = r.name]
<1>2. cluster[r.id] \in Clusters /\ cluster[r.id].life # "unused"
  BY <1>1 DEF IInv, TypeOK, Exists
<1>3. /\ u \in Clusters /\ u.cp = cluster[r.id].cp /\ u.wk = cluster[r.id].wk
      /\ u.body = cluster[r.id].body /\ u.life = cluster[r.id].life
  BY <1>1, <1>2 DEF Clusters
<1>4. cluster' = [cluster EXCEPT ![r.id] = u]
  BY <1>1 DEF Rename, IInv, TypeOK
<1>5. task # NoTask => task.id \in Ids /\ cluster[task.id].life = "running"
  BY DEF IInv, TypeOK, TaskFits, Tasks
<1> HIDE DEF u
<1>6. /\ cluster' \in [Ids -> Clusters]
      /\ \A j \in Ids :
            /\ cluster'[j].cp = cluster[j].cp /\ cluster'[j].wk = cluster[j].wk
            /\ cluster'[j].body = cluster[j].body
            /\ cluster[j].life # "unused" => cluster'[j].life # "unused"
            /\ Exists(j)' => Exists(j)
      /\ cluster'[r.id] = u /\ \A j \in Ids \ {r.id} : cluster'[j] = cluster[j]
  BY <1>1, <1>2, <1>3, <1>4, OneClusterQuiet
<1>7. \/ UNCHANGED <<pc, asked, done>>
      \/ asked /\ asked' = FALSE /\ done' = done /\ pc' = VersionStage(known)
         /\ stateId # NoId
  BY <1>1, GoOnEffect
<1>8. /\ VersionStage(known) \in Positions \ {"idle", "create", "cpWait"}
      /\ VersionStage(known) = "wk" => known.cp = want.ver
  BY DEF VersionStage, Positions, Sending
<1>9. task # NoTask => cluster'[task.id].life = "running"
  BY <1>3, <1>5, <1>6
<1> QED
  BY <1>1, <1>6, <1>7, <1>8, <1>9, QuietKeepsInv DEF IInv, TypeOK

LEMMA RedeployKeepsInv == ASSUME IInv, NEW r \in wire, RedeployCCM(r) PROVE IInv'
<1>1. /\ r.op = "ccm" /\ r \in Requests /\ r.id \in Ids
      /\ cluster[r.id].life = "running"
      /\ GoOn(r, "reread") /\ wire' = wire \ {r}
      /\ UNCHANGED <<cached, task, want, peak, replacing, watch, stateId, known, tainted>>
  BY RequestParts DEF RedeployCCM, Leave, state, IInv, TypeOK
<1> DEFINE u == [cluster[r.id] EXCEPT !.ccm = cluster[r.id].wk]
<1>2. cluster[r.id] \in Clusters /\ Exists(r.id)
  BY <1>1 DEF IInv, TypeOK, Exists
<1>3. /\ u \in Clusters /\ u.cp = cluster[r.id].cp /\ u.wk = cluster[r.id].wk
      /\ u.body = cluster[r.id].body /\ u.life = "running"
  BY <1>1, <1>2 DEF Clusters
<1>4. cluster' = [cluster EXCEPT ![r.id] = u]
  BY <1>1 DEF RedeployCCM, IInv, TypeOK
<1>5. task # NoTask => task.id \in Ids /\ cluster[task.id].life = "running"
  BY DEF IInv, TypeOK, TaskFits, Tasks
<1> HIDE DEF u
<1>6. /\ cluster' \in [Ids -> Clusters]
      /\ \A j \in Ids :
            /\ cluster'[j].cp = cluster[j].cp /\ cluster'[j].wk = cluster[j].wk
            /\ cluster'[j].body = cluster[j].body
            /\ cluster[j].life # "unused" => cluster'[j].life # "unused"
            /\ Exists(j)' => Exists(j)
      /\ cluster'[r.id] = u /\ \A j \in Ids \ {r.id} : cluster'[j] = cluster[j]
  BY <1>1, <1>2, <1>3, <1>4, OneClusterQuiet
<1>7. \/ UNCHANGED <<pc, asked, done>>
      \/ asked /\ asked' = FALSE /\ done' = done /\ pc' = "reread" /\ stateId # NoId
  BY <1>1, GoOnEffect
<1>8. task # NoTask => cluster'[task.id].life = "running"
  BY <1>3, <1>5, <1>6
<1> QED
  BY <1>1, <1>6, <1>7, <1>8, QuietKeepsInv DEF Positions, IInv, TypeOK

LEMMA ProvisionedKeepsInv == ASSUME IInv, NEW i \in Ids, Provisioned(i) PROVE IInv'
<1>1. PICK l \in {"running", "error"} : cluster' = [cluster EXCEPT ![i].life = l]
  BY DEF Provisioned
<1> DEFINE u == [cluster[i] EXCEPT !.life = l]
<1>2. cluster[i] \in Clusters /\ cluster[i].life = "starting" /\ Exists(i)
  BY DEF Provisioned, IInv, TypeOK, Exists
<1>3. /\ u \in Clusters /\ u.cp = cluster[i].cp /\ u.wk = cluster[i].wk
      /\ u.body = cluster[i].body /\ u.life = l
  BY <1>2 DEF Clusters, Lives
<1>4. cluster' = [cluster EXCEPT ![i] = u]
  BY <1>1 DEF IInv, TypeOK
<1>5. task # NoTask => task.id \in Ids \ {i} /\ cluster[task.id].life = "running"
  BY <1>2 DEF IInv, TypeOK, TaskFits, Tasks
<1> HIDE DEF u
<1>6. /\ cluster' \in [Ids -> Clusters]
      /\ \A j \in Ids :
            /\ cluster'[j].cp = cluster[j].cp /\ cluster'[j].wk = cluster[j].wk
            /\ cluster'[j].body = cluster[j].body
            /\ cluster[j].life # "unused" => cluster'[j].life # "unused"
            /\ Exists(j)' => Exists(j)
      /\ \A j \in Ids \ {i} : cluster'[j] = cluster[j]
  BY <1>2, <1>3, <1>4, OneClusterQuiet
<1>7. task # NoTask => cluster'[task.id].life = "running"
  BY <1>5, <1>6
<1>8. UNCHANGED <<cached, wire, task, watch, want, peak, pc, asked, replacing, stateId,
                  known, tainted, done>>
  BY DEF Provisioned, state
<1> QED
  BY <1>6, <1>7, <1>8, QuietKeepsInv DEF IInv, TypeOK

LEMMA TaskFailsKeepsInv == ASSUME IInv, TaskFails PROVE IInv'
<1>1. /\ task' = NoTask /\ watch' \in {watch, "failed"}
      /\ UNCHANGED <<cluster, cached, wire, want, peak, pc, asked, replacing, stateId,
                     known, tainted, done>>
  BY DEF TaskFails, EndTask, state
<1>2. TypeOK'
  BY <1>1 DEF IInv, TypeOK
<1>3. Positioned' /\ Made' /\ KnownBehind' /\ TaskFits' /\ WkReady' /\ WatchFits'
  BY <1>1 DEF IInv, Positioned, Made, KnownBehind, TaskFits, WkReady, WatchFits
<1>4. WireBehind' /\ Recoverable' /\ WorkersNeverAhead'
  BY <1>1 DEF IInv, WireBehind, Recoverable, WorkersNeverAhead, Exists
<1> QED
  BY <1>2, <1>3, <1>4 DEF IInv

LEMMA StartTaskKeepsInv == ASSUME IInv, NEW r \in wire, StartTask(r) PROVE IInv'
<1> USE DEF state
<1>1. /\ r.op \in {"cp", "wk"} /\ r \in Requests /\ r.id \in Ids /\ r.to \in Versions
      /\ cluster[r.id].life = "running" /\ task = NoTask
      /\ r.to > (IF r.op = "cp" THEN cluster[r.id].cp ELSE cluster[r.id].wk)
      /\ wire' = wire \ {r}
      /\ UNCHANGED <<cluster, cached, want, peak, replacing, stateId, known, tainted>>
  BY RequestParts DEF StartTask, Leave, IInv, TypeOK
<1>2. r.op = "wk" => r.to <= cluster[r.id].cp
  BY DEF IInv, WireBehind
<1>3. /\ task' \in Tasks /\ task'.kind = r.op /\ task'.id = r.id /\ task'.to = r.to
      /\ task'.watched = (asked /\ r = Request)
  BY <1>1 DEF StartTask, Tasks, IInv, TypeOK
<1>4. TaskFits'
  BY <1>1, <1>2, <1>3 DEF TaskFits, IInv, TypeOK, Clusters, Versions
<1>5. CASE ~(asked /\ r = Request)
  <2>1. UNCHANGED <<asked, pc, done, watch>> /\ ~task'.watched
    BY <1>3, <1>5 DEF StartTask
  <2>2. TypeOK'
    BY <1>1, <1>3, <2>1 DEF IInv, TypeOK
  <2>3. Positioned' /\ Made' /\ KnownBehind' /\ WkReady' /\ WatchFits'
    BY <1>1, <2>1 DEF IInv, Positioned, Made, KnownBehind, WkReady, WatchFits
  <2>4. WireBehind' /\ Recoverable' /\ WorkersNeverAhead'
    BY <1>1 DEF IInv, WireBehind, Recoverable, WorkersNeverAhead, Exists
  <2> QED
    BY <1>4, <2>2, <2>3, <2>4 DEF IInv
<1>6. CASE asked /\ r = Request
  <2>1. pc \in Sending /\ (pc # "create" => stateId # NoId)
    BY <1>6 DEF IInv, Positioned, Sending
  <2>2. pc = r.op /\ r.id = stateId /\ r.to = want.ver /\ stateId # NoId
    BY <1>1, <1>6, <2>1, RequestType, StateIdType DEF IInv
  <2>3. /\ asked' = FALSE /\ watch' = "running" /\ done' = done
        /\ pc' = IF r.op = "cp" THEN "cpWait" ELSE "wkWait"
    BY <1>6 DEF StartTask, GoTo
  <2>4. TypeOK'
    BY <1>1, <1>3, <2>3 DEF IInv, TypeOK, Positions
  <2>5. Positioned' /\ Made' /\ KnownBehind' /\ WkReady'
    BY <1>1, <2>2, <2>3 DEF IInv, Positioned, Made, KnownBehind, WkReady
  <2>6. WatchFits'
    BY <1>1, <1>3, <2>2, <2>3 DEF WatchFits
  <2>7. WireBehind' /\ Recoverable' /\ WorkersNeverAhead'
    BY <1>1 DEF IInv, WireBehind, Recoverable, WorkersNeverAhead, Exists
  <2> QED
    BY <1>4, <2>4, <2>5, <2>6, <2>7 DEF IInv
<1> QED
  BY <1>5, <1>6

LEMMA AlreadyKeepsInv == ASSUME IInv, NEW r \in wire, AlreadyThere(r) PROVE IInv'
<1> USE DEF platform, state
<1>1. /\ r.op \in {"cp", "wk"} /\ r.op # "create"
      /\ r.to = (IF r.op = "cp" THEN cluster[r.id].cp ELSE cluster[r.id].wk)
      /\ GoOn(r, AfterStage(r.op)) /\ wire' \subseteq wire
      /\ UNCHANGED <<cluster, cached, task, want, peak, replacing, watch, stateId,
                     known, tainted>>
  BY DEF AlreadyThere, Leave
<1>2. \/ UNCHANGED <<pc, asked, done>>
      \/ /\ asked /\ asked' = FALSE /\ done' = done /\ pc' = AfterStage(r.op)
         /\ stateId # NoId
         /\ r.op = "cp" => cluster[stateId].cp = want.ver
  <2>1. CASE asked /\ r = Request
    <3>1. pc \in Sending /\ (pc # "create" => stateId # NoId)
      BY <2>1 DEF IInv, Positioned, Sending
    <3>2. pc = r.op /\ r.id = stateId /\ r.to = want.ver /\ stateId # NoId
      BY <1>1, <2>1, <3>1, RequestType, StateIdType DEF IInv
    <3> QED
      BY <1>1, <2>1, <3>2 DEF GoOn, GoTo
  <2>2. CASE ~(asked /\ r = Request)
    BY <1>1, <2>2 DEF GoOn
  <2> QED
    BY <2>1, <2>2
<1>3. AfterStage(r.op) \in {"wk", "ccm", "reread"} /\ (AfterStage(r.op) = "wk" => r.op = "cp")
  BY <1>1 DEF AfterStage
<1>4. /\ cluster' \in [Ids -> Clusters]
      /\ task # NoTask => cluster'[task.id].life = "running"
  BY <1>1 DEF IInv, TypeOK, TaskFits
<1>5. \/ UNCHANGED <<pc, asked, done>>
      \/ /\ asked /\ ~asked' /\ asked' \in BOOLEAN /\ done' = done
         /\ stateId # NoId
         /\ pc' \in Positions \ {"idle", "create", "cpWait"}
         /\ pc' = "wk" => cluster[stateId].cp = want.ver
  BY <1>2, <1>3 DEF Positions, Sending
<1> QED
  BY <1>1, <1>4, <1>5, QuietKeepsInv DEF IInv, TypeOK, Exists

\* Versions only grow: the control plane to the task's version, the workers to
\* one within the control plane's.
LEMMA TaskCompletesKeepsInv == ASSUME IInv, TaskCompletes PROVE IInv'
<1> USE DEF state
<1>1. /\ task \in Tasks /\ task # NoTask /\ task.id \in Ids /\ task.to \in Versions
      /\ task.kind \in {"cp", "wk"} /\ task.watched \in BOOLEAN
      /\ task' = NoTask
      /\ watch' = (IF task.watched THEN "completed" ELSE watch)
      /\ UNCHANGED <<cached, wire, want, peak, pc, asked, replacing, stateId, known,
                     tainted, done>>
  BY DEF TaskCompletes, EndTask, IInv, TypeOK, Tasks
<1> DEFINE u == IF task.kind = "cp" THEN [cluster[task.id] EXCEPT !.cp = task.to]
                                    ELSE [cluster[task.id] EXCEPT !.wk = task.to]
<1>2. cluster[task.id] \in Clusters /\ cluster[task.id].life = "running"
  BY <1>1 DEF IInv, TypeOK, TaskFits
<1>3. /\ task.kind = "cp" => task.to >= cluster[task.id].cp
      /\ task.kind = "wk" => task.to <= cluster[task.id].cp
      /\ cluster[task.id].wk <= cluster[task.id].cp
  BY <1>1 DEF IInv, TaskFits, WorkersNeverAhead
<1>4. u \in Clusters /\ u.life = "running" /\ u.body = cluster[task.id].body
  BY <1>1, <1>2 DEF Clusters
<1>5. /\ task.kind = "cp" => u.cp = task.to /\ u.wk = cluster[task.id].wk
      /\ task.kind = "wk" => u.cp = cluster[task.id].cp /\ u.wk = task.to
  BY <1>2 DEF Clusters
<1>6. /\ u.cp \in Int /\ u.wk \in Int /\ cluster[task.id].cp \in Int
      /\ cluster[task.id].wk \in Int /\ task.to \in Int
  BY <1>1, <1>2, <1>4 DEF Clusters, Versions
<1>7. u.cp >= cluster[task.id].cp /\ u.wk <= u.cp
  BY <1>1, <1>3, <1>5, <1>6
<1>8. cluster' = [cluster EXCEPT ![task.id] = u]
  BY <1>1 DEF TaskCompletes, IInv, TypeOK
<1>9. task.kind = "cp" => u.cp = task.to
  BY <1>5
<1> HIDE DEF u
<1>10. /\ cluster' \in [Ids -> Clusters] /\ cluster'[task.id] = u
       /\ \A j \in Ids \ {task.id} : cluster'[j] = cluster[j]
  BY <1>1, <1>4, <1>8 DEF IInv, TypeOK
<1>11. \A j \in Ids : /\ cluster'[j].cp >= cluster[j].cp
                      /\ cluster'[j].cp \in Int /\ cluster[j].cp \in Int
                      /\ cluster'[j].life = cluster[j].life
                      /\ cluster'[j].body = cluster[j].body
  BY <1>2, <1>4, <1>6, <1>7, <1>10 DEF IInv, TypeOK, Clusters, Versions
<1>12. TypeOK'
  BY <1>1, <1>10 DEF IInv, TypeOK
<1>13. Positioned' /\ Made' /\ TaskFits'
  BY <1>1, <1>11 DEF IInv, Positioned, Made, TaskFits, TypeOK
<1>14. KnownBehind'
  BY <1>1, <1>11, StateIdType DEF IInv, KnownBehind, TypeOK, Facts, Versions
<1>15. WireBehind'
  BY <1>1, <1>11, RequestParts DEF IInv, WireBehind, TypeOK, Versions
<1>16. WkReady'
  BY <1>1, <1>11, StateIdType DEF IInv, WkReady, Positioned, TypeOK, Configs, Versions
<1>17. WatchFits'
  <2> SUFFICES ASSUME pc = "cpWait", watch' = "completed"
               PROVE  want.ver <= cluster'[stateId].cp
    BY <1>1 DEF WatchFits
  <2>1. stateId \in Ids /\ want.ver \in Int
    BY StateIdType DEF IInv, Positioned, TypeOK, Configs, Versions
  <2>2. CASE task.watched
    BY <1>1, <1>9, <1>10, <2>1, <2>2 DEF IInv, WatchFits
  <2>3. CASE ~task.watched
    BY <1>1, <1>11, <2>1, <2>3 DEF IInv, WatchFits
  <2> QED
    BY <2>2, <2>3
<1>18. Recoverable'
  BY <1>1, <1>11 DEF IInv, Recoverable, Exists
<1>19. WorkersNeverAhead'
  BY <1>7, <1>10 DEF IInv, WorkersNeverAhead
<1> QED
  BY <1>12, <1>13, <1>14, <1>15, <1>16, <1>17, <1>18, <1>19 DEF IInv

\* What the answer to a create does to the provider.
LEMMA PersistEffect ==
    ASSUME IInv, NEW r \in wire, r.op = "create", NEW i \in Ids, Persist(r, i)
    PROVE  /\ UNCHANGED <<watch, known, tainted, done>>
           /\ \/ UNCHANGED <<pc, asked, stateId>>
              \/ /\ asked' = FALSE /\ pc' = "wait" /\ stateId' = i
                 /\ pc = "create" /\ stateId = NoId
                 /\ known = NoFacts /\ tainted = FALSE
<1>1. CASE asked /\ r = Request
  <2>1. pc \in Sending /\ (pc # "create" => stateId # NoId)
    BY <1>1 DEF IInv, Positioned, Sending
  <2>2. pc = "create"
    BY <1>1, <2>1, RequestType, StateIdType DEF IInv
  <2>3. stateId = NoId /\ known = NoFacts /\ tainted = FALSE
    BY <2>2 DEF IInv, Positioned, TypeOK
  <2>4. /\ asked' = FALSE /\ pc' = "wait" /\ stateId' = i
        /\ UNCHANGED <<watch, known, tainted, done>>
    BY <1>1 DEF Persist, GoOn, GoTo
  <2> QED
    BY <2>2, <2>3, <2>4
<1>2. CASE ~(asked /\ r = Request)
  BY <1>2 DEF Persist, GoOn
<1> QED
  BY <1>1, <1>2

LEMMA CreateRowKeepsInv ==
    ASSUME IInv, NEW r \in wire, NEW i \in Ids, CreateRow(r, i) PROVE IInv'
<1>1. /\ r.op = "create" /\ r \in Requests /\ r.body \in Configs
      /\ cached[r.body] = NoId /\ cluster[i].life = "unused"
      /\ cached' = [cached EXCEPT ![r.body] = i]
      /\ Persist(r, i) /\ wire' = wire \ {r}
      /\ UNCHANGED <<want, peak, replacing, task>>
  BY RequestParts DEF CreateRow, Remember, Leave, IInv, TypeOK
<1> DEFINE u == [life |-> "starting", body |-> r.body, name |-> r.body.name,
                 cp |-> r.body.ver, wk |-> r.body.ver, ccm |-> r.body.ver]
<1>2. cluster' = [cluster EXCEPT ![i] = u]
  BY DEF CreateRow
<1>3. /\ u \in Clusters /\ u.life = "starting" /\ u.body = r.body
      /\ u.cp \in Versions /\ u.wk = u.cp
  BY <1>1 DEF Clusters, Lives, Configs
<1> HIDE DEF u
<1>4. /\ cluster' \in [Ids -> Clusters] /\ cluster'[i] = u
      /\ \A j \in Ids \ {i} : cluster'[j] = cluster[j]
  BY <1>2, <1>3 DEF IInv, TypeOK
<1>5. /\ cached' \in [Configs -> Ids \cup {NoId}] /\ cached'[r.body] = i
      /\ \A c \in Configs \ {r.body} : cached'[c] = cached[c]
  BY <1>1 DEF IInv, TypeOK
<1>6. /\ UNCHANGED <<watch, known, tainted, done>>
      /\ \/ UNCHANGED <<pc, asked, stateId>>
         \/ /\ asked' = FALSE /\ pc' = "wait" /\ stateId' = i
            /\ pc = "create" /\ stateId = NoId
            /\ known = NoFacts /\ tainted = FALSE
  BY <1>1, PersistEffect
<1>7. /\ stateId # NoId => stateId \in Ids \ {i}
      /\ task # NoTask => task.id \in Ids \ {i}
  BY <1>1, StateIdType DEF IInv, Made, TaskFits, TypeOK, Tasks
<1>8. i # NoId
  BY DEF Ids, NoId
<1>9. TypeOK'
  BY <1>1, <1>4, <1>5, <1>6, <1>8 DEF IInv, TypeOK, Positions
<1>10. Positioned'
  BY <1>6, <1>8 DEF IInv, Positioned
<1>11. Made'
  BY <1>3, <1>4, <1>5, <1>6, <1>7, <1>8 DEF IInv, Made, TypeOK
<1>12. KnownBehind'
  BY <1>3, <1>4, <1>6, <1>7 DEF IInv, KnownBehind, NoFacts, Versions
<1>13. WireBehind'
  BY <1>1, <1>4, RequestParts DEF IInv, WireBehind, TypeOK
<1>14. TaskFits'
  BY <1>1, <1>4, <1>7 DEF IInv, TaskFits
<1>15. WkReady' /\ WatchFits'
  BY <1>1, <1>4, <1>6, <1>7 DEF IInv, WkReady, WatchFits, Positioned
<1>16. Recoverable'
  <2> SUFFICES ASSUME NEW j \in Ids, cluster'[j].life \notin {"unused", "destroyed"}
               PROVE  cached'[cluster'[j].body] = j
    BY DEF Recoverable, Exists
  <2>1. CASE j = i
    BY <1>3, <1>4, <1>5, <2>1
  <2>2. CASE j # i
    <3>1. cached[cluster[j].body] = j /\ cluster[j].body \in Configs
      BY <1>4, <2>2 DEF IInv, Recoverable, Exists, TypeOK, Clusters
    <3>2. cluster[j].body # r.body
      BY <1>1, <3>1 DEF Ids, NoId
    <3> QED
      BY <1>4, <1>5, <2>2, <3>1, <3>2
  <2> QED
    BY <2>1, <2>2
<1>17. WorkersNeverAhead'
  BY <1>3, <1>4 DEF IInv, WorkersNeverAhead, Versions
<1> QED
  BY <1>9, <1>10, <1>11, <1>12, <1>13, <1>14, <1>15, <1>16, <1>17 DEF IInv

LEMMA ReplayCreateKeepsInv ==
    ASSUME IInv, NEW r \in wire, ReplayCreate(r) PROVE IInv'
<1> USE DEF platform
<1>1. /\ r.op = "create" /\ r \in Requests /\ r.body \in Configs
      /\ cached[r.body] # NoId /\ Persist(r, cached[r.body])
      /\ wire' = wire \ {r}
      /\ UNCHANGED <<cluster, cached, task, want, peak, replacing>>
  BY RequestParts DEF ReplayCreate, Leave, IInv, TypeOK
<1> DEFINE i == cached[r.body]
<1>2. i \in Ids /\ i # NoId /\ cluster[i].life # "unused" /\ cluster[i].cp >= 1
  BY <1>1 DEF IInv, TypeOK, Made, Clusters, Versions
<1> HIDE DEF i
<1>3. /\ UNCHANGED <<watch, known, tainted, done>>
      /\ \/ UNCHANGED <<pc, asked, stateId>>
         \/ /\ asked' = FALSE /\ pc' = "wait" /\ stateId' = i
            /\ pc = "create" /\ stateId = NoId
            /\ known = NoFacts /\ tainted = FALSE
  BY <1>1, <1>2, PersistEffect DEF i
<1>4. TypeOK'
  BY <1>1, <1>2, <1>3 DEF IInv, TypeOK, Positions
<1>5. Positioned' /\ Made' /\ TaskFits' /\ WkReady' /\ WatchFits'
  BY <1>1, <1>2, <1>3 DEF IInv, Positioned, Made, TaskFits, WkReady, WatchFits
<1>6. KnownBehind'
  BY <1>1, <1>2, <1>3 DEF IInv, KnownBehind, NoFacts
<1>7. WireBehind' /\ Recoverable' /\ WorkersNeverAhead'
  BY <1>1 DEF IInv, WireBehind, Recoverable, WorkersNeverAhead, Exists
<1> QED
  BY <1>4, <1>5, <1>6, <1>7 DEF IInv

-----------------------------------------------------------------------------
LEMMA InitInv == Init => IInv
<1> SUFFICES ASSUME Init PROVE IInv
  OBVIOUS
<1>1. /\ want \in Configs /\ want.ver = 1 /\ want.name = 1
      /\ peak = 1 /\ peak \in Versions
      /\ NoFacts \in Facts
  BY VersionAssumption, NameAssumption DEF Init, Configs, Versions, Names, NoFacts,
     Facts
<1>2. \A i \in Ids : cluster[i] \in Clusters /\ cluster[i].life = "unused"
                    /\ cluster[i].wk = cluster[i].cp /\ cluster[i].cp = 1
  BY <1>1 DEF Init, Clusters, Lives, Configs
<1>3. cluster \in [Ids -> Clusters]
  BY <1>2 DEF Init
<1>4. TypeOK
  <2>1. want.ver <= peak
    BY <1>1
  <2> QED
    BY <1>1, <1>3, <2>1 DEF Init, TypeOK, Positions
<1>5. Positioned /\ Made /\ KnownBehind /\ WireBehind /\ TaskFits /\ WkReady
      /\ WatchFits
  BY DEF Init, Positioned, Made, KnownBehind, WireBehind, TaskFits, WkReady, WatchFits,
     Sending
<1>6. Recoverable /\ WorkersNeverAhead
  BY <1>2 DEF Recoverable, WorkersNeverAhead, Exists
<1> QED
  BY <1>4, <1>5, <1>6 DEF IInv

LEMMA StutterKeepsInv == IInv /\ UNCHANGED vars => IInv'
<1> SUFFICES ASSUME IInv, UNCHANGED vars PROVE IInv'
  OBVIOUS
<1>1. UNCHANGED <<cluster, cached, task, wire, watch, want, peak, pc, asked, replacing,
                  stateId, known, tainted, done>>
  BY DEF vars, platform, state
<1>2. TypeOK'
  BY <1>1 DEF IInv, TypeOK
<1>3. Positioned' /\ KnownBehind' /\ WkReady' /\ WatchFits'
  BY <1>1 DEF IInv, Positioned, KnownBehind, WkReady, WatchFits
<1> QED
  BY <1>1, <1>2, <1>3, LocalKeepsInv DEF IInv, Made

LEMMA NextKeepsInv == IInv /\ [Next]_vars => IInv'
<1> SUFFICES ASSUME IInv, [Next]_vars PROVE IInv'
  OBVIOUS
<1>1. CASE Provider
  BY <1>1, ApplyKeepsInv, SendKeepsInv, RefreshKeepsInv, RefreshFailsKeepsInv,
     WaitKeepsInv, HydrateKeepsInv, DeleteWaitKeepsInv, TaskWaitKeepsInv,
     RereadKeepsInv DEF Provider
<1>2. CASE \E r \in wire : Handle(r)
  BY <1>2, CreateRowKeepsInv, ReplayCreateKeepsInv, DestroyKeepsInv, RenameKeepsInv,
     StartTaskKeepsInv, AlreadyKeepsInv, RedeployKeepsInv, RefuseKeepsInv DEF Handle
<1>3. CASE (\E i \in Ids : Provisioned(i)) \/ TaskCompletes \/ TaskFails
  BY <1>3, ProvisionedKeepsInv, TaskCompletesKeepsInv, TaskFailsKeepsInv
<1>4. CASE AnswerLost \/ Edit \/ UserDestroys
  BY <1>4, AnswerLostKeepsInv, EditKeepsInv, UserDestroysKeepsInv
<1>5. CASE UNCHANGED vars
  BY <1>5, StutterKeepsInv
<1> QED
  BY <1>1, <1>2, <1>3, <1>4, <1>5 DEF Next, Platform

LEMMA Inductive == Spec => []IInv
BY InitInv, NextKeepsInv, PTL DEF Spec

\* Types: what the handlers keep in the state and send are ids, versions and
\* names, and an absent resource leaves nothing behind in the state.
THEOREM TypeCorrect == Spec => []TypeOK
<1>1. IInv => TypeOK
  BY DEF IInv
<1> QED
  BY <1>1, Inductive, PTL

\* Recoverability: whatever was lost, the key of a configuration leads to every
\* cluster that was made from it and still exists.
THEOREM AlwaysRecoverable == Spec => []Recoverable
<1>1. IInv => Recoverable
  BY DEF IInv
<1> QED
  BY <1>1, Inductive, PTL

\* No second cluster: retries, re-applies and late copies of a create never make
\* two clusters of one configuration stand side by side.
THEOREM OneCluster == Spec => []OneClusterPerConfig
<1>1. IInv => OneClusterPerConfig
  BY DEF IInv, Recoverable, OneClusterPerConfig
<1> QED
  BY <1>1, Inductive, PTL

\* Skew: the workers are never ahead of the control plane, though nothing but
\* the order of the provider's stages keeps them behind.
THEOREM WorkersBehind == Spec => []WorkersNeverAhead
<1>1. IInv => WorkersNeverAhead
  BY DEF IInv
<1> QED
  BY <1>1, Inductive, PTL

-----------------------------------------------------------------------------
(* An apply that reports success has reached the configured version.       *)

\* No version, on the platform or asked for, is beyond the newest that was ever
\* configured.
Capped ==
    /\ \A i \in Ids : cluster[i].life # "unused" => cluster[i].cp <= peak
    /\ \A r \in wire :
          /\ r.op = "create" => r.body.ver <= peak
          /\ r.op \in {"cp", "wk"} => r.to <= peak
    /\ task # NoTask => task.to <= peak

\* A worker upgrade goes forward.
WorkersForward ==
    task # NoTask /\ task.kind = "wk" => cluster[task.id].wk <= task.to

\* The workers of a cluster never go back behind the configuration it was made
\* from, nor behind what the state knows of them.
MadeFor ==
    \A c \in Configs : cached[c] # NoId => c.ver <= cluster[cached[c]].wk
KnownWorkers == stateId # NoId => known.kv <= cluster[stateId].wk

\* While the update waits for the workers, a watched task is its own.
WorkersWatch ==
    pc = "wkWait" =>
       /\ task # NoTask /\ task.watched =>
             task.kind = "wk" /\ task.id = stateId /\ task.to = want.ver
       /\ watch = "completed" => want.ver <= cluster[stateId].wk

\* Past the upgrade, and after a success, the workers are at the target.
AtTarget == {"wait", "hydrate", "ccm", "reread"}
Reached ==
    /\ pc \in AtTarget => want.ver <= cluster[stateId].wk
    /\ done => pc = "idle"
    /\ done /\ stateId # NoId => want.ver <= cluster[stateId].wk

\* The inductive invariant of the target.
TargetInv ==
    /\ IInv
    /\ Capped
    /\ WorkersForward
    /\ MadeFor
    /\ KnownWorkers
    /\ WorkersWatch
    /\ Reached

\* A request that gets its answer while the apply still waits for it is the one
\* that the position sent.
LEMMA OwnRequest ==
    ASSUME IInv, NEW r \in wire, asked, r = Request
    PROVE  /\ pc = r.op /\ pc \in Sending
           /\ pc = "create" => r.body = want
           /\ pc # "create" => r.id = stateId /\ stateId # NoId
           /\ pc \in {"cp", "wk"} => r.to = want.ver
<1>1. pc \in Sending /\ (pc # "create" => stateId # NoId)
  BY DEF IInv, Positioned, Sending
<1> QED
  BY <1>1, RequestType, StateIdType DEF IInv

\* The workers of a made cluster never go back, and it stays made.
LEMMA WorkersGrow ==
    ASSUME TargetInv, [Next]_vars, NEW i \in Ids, cluster[i].life # "unused"
    PROVE  /\ cluster[i].wk \in Int /\ cluster'[i].wk \in Int
           /\ cluster'[i].wk >= cluster[i].wk
           /\ cluster'[i].life # "unused"
<1>0. /\ IInv /\ TypeOK /\ cluster \in [Ids -> Clusters]
      /\ wire \subseteq Requests /\ task \in Tasks \cup {NoTask}
      /\ cluster[i] \in Clusters /\ cluster[i].wk \in Int
  BY DEF TargetInv, IInv, TypeOK, Clusters, Versions
<1>1. CASE UNCHANGED cluster
  BY <1>0, <1>1
<1>2. CASE \E r \in wire : Destroy(r)
  BY <1>0, <1>2 DEF Destroy, Clusters
<1>3. CASE \E r \in wire : Rename(r)
  BY <1>0, <1>3 DEF Rename, Clusters
<1>4. CASE \E r \in wire : RedeployCCM(r)
  BY <1>0, <1>4 DEF RedeployCCM, Clusters
<1>5. CASE \E r \in wire, j \in Ids : CreateRow(r, j)
  <2>1. PICK r \in wire, j \in Ids : CreateRow(r, j)
    BY <1>5
  <2>2. j # i
    BY <2>1 DEF CreateRow
  <2>3. cluster'[i] = cluster[i]
    BY <1>0, <2>1, <2>2 DEF CreateRow
  <2> QED
    BY <1>0, <2>3
<1>6. CASE \E j \in Ids : Provisioned(j)
  BY <1>0, <1>6 DEF Provisioned, Clusters
<1>7. CASE TaskCompletes
  <2>1. /\ task # NoTask /\ task \in Tasks /\ task.kind \in {"cp", "wk"}
        /\ task.id \in Ids /\ task.to \in Versions
    BY <1>0, <1>7 DEF TaskCompletes, EndTask, Tasks
  <2>2. task.kind = "wk" => cluster[task.id].wk <= task.to
    BY <2>1 DEF TargetInv, WorkersForward
  <2>3. CASE task.kind = "cp"
    BY <1>0, <1>7, <2>1, <2>3 DEF TaskCompletes, Clusters
  <2>4. CASE task.kind = "wk"
    <3>1. cluster' = [cluster EXCEPT ![task.id].wk = task.to]
      BY <1>7, <2>4 DEF TaskCompletes
    <3>2. CASE i = task.id
      BY <1>0, <2>1, <2>2, <2>4, <3>1, <3>2 DEF Clusters, Versions
    <3>3. CASE i # task.id
      BY <1>0, <2>1, <3>1, <3>3
    <3> QED
      BY <3>2, <3>3
  <2> QED
    BY <2>1, <2>3, <2>4
<1>8. \/ UNCHANGED cluster \/ TaskCompletes
      \/ \E j \in Ids : Provisioned(j)
      \/ \E r \in wire : \/ Destroy(r) \/ Rename(r) \/ RedeployCCM(r)
                         \/ \E j \in Ids : CreateRow(r, j)
  <2> USE DEF platform, localOnly
  <2>1. CASE Provider
    BY <2>1 DEF Provider, Apply, Send, Refresh, RefreshFails, Wait, Hydrate,
       DeleteWait, TaskWait, Reread
  <2>2. CASE \E r \in wire : Handle(r)
    BY <2>2 DEF Handle, ReplayCreate, StartTask, AlreadyThere, Refuse
  <2>3. CASE TaskFails \/ AnswerLost \/ Edit \/ UserDestroys \/ UNCHANGED vars
    BY <2>3 DEF TaskFails, AnswerLost, Edit, UserDestroys, vars
  <2> QED
    BY <2>1, <2>2, <2>3 DEF Next, Platform
<1> QED
  BY <1>1, <1>2, <1>3, <1>4, <1>5, <1>6, <1>7, <1>8

\* The workers of the tracked cluster, and of those that the middleware knows.
LEMMA TrackedGrow ==
    ASSUME TargetInv, [Next]_vars
    PROVE  /\ stateId # NoId => /\ stateId \in Ids
                                /\ cluster[stateId].wk \in Int
                                /\ cluster'[stateId].wk \in Int
                                /\ cluster'[stateId].wk >= cluster[stateId].wk
           /\ \A c \in Configs : cached[c] # NoId =>
                 /\ cached[c] \in Ids
                 /\ cluster[cached[c]].wk \in Int
                 /\ cluster'[cached[c]].wk \in Int
                 /\ cluster'[cached[c]].wk >= cluster[cached[c]].wk
<1>1. stateId # NoId => stateId \in Ids /\ cluster[stateId].life # "unused"
  BY StateIdType DEF TargetInv, IInv, Made
<1>2. \A c \in Configs : cached[c] # NoId =>
         cached[c] \in Ids /\ cluster[cached[c]].life # "unused"
  BY DEF TargetInv, IInv, TypeOK, Made
<1> QED
  BY <1>1, <1>2, WorkersGrow

\* Steps that bring no new version into play.
LEMMA QuietKeepsCaps ==
    ASSUME TargetInv, UNCHANGED <<want, peak>>, wire' \subseteq wire,
           task' \in {task, NoTask},
           \A i \in Ids : cluster'[i].life # "unused" =>
              /\ cluster[i].life # "unused"
              /\ cluster'[i].cp = cluster[i].cp /\ cluster'[i].wk = cluster[i].wk,
           task' # NoTask => cluster'[task.id].wk = cluster[task.id].wk
    PROVE  Capped' /\ WorkersForward'
BY DEF TargetInv, Capped, WorkersForward

\* Every version that is asked for, worked on or reached is at most the
\* newest that was ever configured.
LEMMA NextKeepsCaps ==
    ASSUME TargetInv, IInv', [Next]_vars
    PROVE  Capped' /\ WorkersForward'
<1> USE DEF platform, localOnly, state
<1>0. /\ IInv /\ TypeOK /\ cluster \in [Ids -> Clusters] /\ Capped /\ WorkersForward
      /\ wire \subseteq Requests /\ task \in Tasks \cup {NoTask}
      /\ want \in Configs /\ want.ver \in Int /\ peak \in Int /\ want.ver <= peak
      /\ \A i \in Ids : cluster[i] \in Clusters
      /\ task # NoTask => task.id \in Ids /\ cluster[task.id].life = "running"
  BY DEF TargetInv, IInv, TypeOK, TaskFits, Configs, Versions, Tasks
<1>1. ASSUME UNCHANGED <<cluster, task, want, peak>>, wire' \subseteq wire
      PROVE  Capped' /\ WorkersForward'
  BY <1>0, <1>1, QuietKeepsCaps
<1>2. CASE Send
  <2>1. /\ wire' = wire \cup {Request} /\ UNCHANGED <<cluster, task, want, peak>>
        /\ pc \in Sending /\ (pc # "create" => stateId \in Ids)
    BY <1>0, <1>2, StateIdType DEF Send, IInv, Positioned, Sending
  <2>2. /\ Request.op = "create" => Request.body.ver <= peak
        /\ Request.op \in {"cp", "wk"} => Request.to <= peak
    BY <1>0, <2>1, RequestType
  <2> QED
    BY <1>0, <2>1, <2>2 DEF Capped, WorkersForward
<1>3. CASE Edit
  <2>1. /\ UNCHANGED <<cluster, task, wire>> /\ want' \in Configs
        /\ peak' = IF want'.ver > peak THEN want'.ver ELSE peak
    BY <1>3 DEF Edit
  <2>2. /\ want'.ver \in Int /\ peak' \in Int /\ peak' >= peak
        /\ \A i \in Ids : cluster[i].cp \in Int
        /\ \A r \in wire : r.op = "create" => r.body.ver \in Int
        /\ \A r \in wire : r.op \in {"cp", "wk"} => r.to \in Int
        /\ task # NoTask => task.to \in Int
    BY <1>0, <2>1, RequestParts DEF Configs, Versions, Clusters, Tasks
  <2> QED
    BY <1>0, <2>1, <2>2 DEF Capped, WorkersForward
<1>4. CASE Apply \/ Refresh \/ RefreshFails \/ Wait \/ Hydrate \/ DeleteWait
           \/ TaskWait \/ Reread \/ AnswerLost \/ UserDestroys \/ UNCHANGED vars
  <2>1. CASE Apply \/ Refresh \/ RefreshFails \/ Wait \/ Hydrate \/ DeleteWait
             \/ TaskWait \/ Reread \/ UserDestroys
    <3>1. UNCHANGED localOnly
      BY <2>1 DEF Apply, Refresh, RefreshFails, Wait, Hydrate, DeleteWait,
         TaskWait, Reread, UserDestroys
    <3> QED
      BY <1>1, <3>1
  <2>2. CASE AnswerLost
    <3>1. UNCHANGED <<cluster, task, want, peak>> /\ wire' \subseteq wire
      BY <2>2 DEF AnswerLost, Fail
    <3> QED
      BY <1>1, <3>1
  <2>3. CASE UNCHANGED vars
    BY <1>1, <2>3 DEF vars
  <2> QED
    BY <1>4, <2>1, <2>2, <2>3
<1>5. ASSUME NEW r \in wire, ReplayCreate(r) \/ Refuse(r) \/ AlreadyThere(r)
      PROVE  Capped' /\ WorkersForward'
  BY <1>1, <1>5 DEF ReplayCreate, Refuse, AlreadyThere, Leave
<1>6. ASSUME NEW r \in wire, Destroy(r)  PROVE Capped' /\ WorkersForward'
  <2>1. /\ r.id \in Ids /\ cluster[r.id].life # "unused"
        /\ cluster' = [cluster EXCEPT ![r.id].life = "destroyed"]
        /\ wire' \subseteq wire /\ UNCHANGED <<want, peak>> /\ task' \in {task, NoTask}
    BY <1>0, <1>6, RequestParts DEF Destroy, Leave, Exists
  <2> QED
    BY <1>0, <2>1, QuietKeepsCaps DEF Clusters
<1>7. ASSUME NEW r \in wire, Rename(r)  PROVE Capped' /\ WorkersForward'
  <2>1. /\ r.id \in Ids /\ cluster' = [cluster EXCEPT ![r.id].name = r.name]
        /\ wire' \subseteq wire /\ UNCHANGED <<want, peak, task>>
    BY <1>0, <1>7, RequestParts DEF Rename, Leave
  <2> QED
    BY <1>0, <2>1, QuietKeepsCaps DEF Clusters
<1>8. ASSUME NEW r \in wire, RedeployCCM(r)  PROVE Capped' /\ WorkersForward'
  <2>1. /\ r.id \in Ids /\ cluster' = [cluster EXCEPT ![r.id].ccm = cluster[r.id].wk]
        /\ wire' \subseteq wire /\ UNCHANGED <<want, peak, task>>
    BY <1>0, <1>8, RequestParts DEF RedeployCCM, Leave
  <2> QED
    BY <1>0, <2>1, QuietKeepsCaps DEF Clusters
<1>9. ASSUME NEW i \in Ids, Provisioned(i)  PROVE Capped' /\ WorkersForward'
  <2>1. PICK l \in {"running", "error"} : cluster' = [cluster EXCEPT ![i].life = l]
    BY <1>9 DEF Provisioned
  <2>2. cluster[i].life # "unused" /\ UNCHANGED <<wire, want, peak, task>>
    BY <1>9 DEF Provisioned
  <2> QED
    BY <1>0, <2>1, <2>2, QuietKeepsCaps DEF Clusters
<1>10. ASSUME NEW r \in wire, NEW i \in Ids, CreateRow(r, i)
       PROVE  Capped' /\ WorkersForward'
  <2>1. /\ r.op = "create" /\ cluster[i].life = "unused"
        /\ wire' \subseteq wire /\ UNCHANGED <<want, peak, task>>
        /\ \A j \in Ids \ {i} : cluster'[j] = cluster[j]
        /\ cluster'[i].cp = r.body.ver
    BY <1>0, <1>10 DEF CreateRow, Leave
  <2>2. r.body.ver <= peak
    BY <1>0, <2>1 DEF Capped
  <2>3. task # NoTask => task.id # i
    BY <1>0, <2>1
  <2> QED
    BY <1>0, <2>1, <2>2, <2>3 DEF Capped, WorkersForward
<1>11. ASSUME NEW r \in wire, StartTask(r)  PROVE Capped' /\ WorkersForward'
  <2>1. /\ r.op \in {"cp", "wk"} /\ wire' \subseteq wire /\ UNCHANGED <<cluster, want, peak>>
        /\ r.to > (IF r.op = "cp" THEN cluster[r.id].cp ELSE cluster[r.id].wk)
        /\ task'.kind = r.op /\ task'.id = r.id /\ task'.to = r.to
    BY <1>11 DEF StartTask, Leave
  <2>2. r.to <= peak /\ r.to \in Int /\ r.id \in Ids /\ cluster[r.id].wk \in Int
    BY <1>0, <2>1, RequestParts DEF Capped, Versions, Clusters
  <2> QED
    BY <1>0, <2>1, <2>2 DEF Capped, WorkersForward
<1>12. CASE TaskFails
  BY <1>0, <1>12, QuietKeepsCaps DEF TaskFails, EndTask
<1>13. CASE TaskCompletes
  <2>1. /\ task # NoTask /\ task' = NoTask /\ UNCHANGED <<wire, want, peak>>
        /\ task.to <= peak
    BY <1>0, <1>13 DEF TaskCompletes, EndTask, Capped
  <2>2. \A i \in Ids : /\ cluster'[i].life = cluster[i].life
                       /\ cluster'[i].cp \in {cluster[i].cp, task.to}
    BY <1>0, <1>13 DEF TaskCompletes, Clusters
  <2> QED
    BY <1>0, <2>1, <2>2 DEF Capped, WorkersForward
<1> QED
  BY <1>2, <1>3, <1>4, <1>5, <1>6, <1>7, <1>8, <1>9, <1>10, <1>11, <1>12, <1>13
     DEF Next, Provider, Platform, Handle

\* What a step does to the tracked id and to what the state knows.
LEMMA StateMoves ==
    ASSUME TargetInv, [Next]_vars
    PROVE  \/ UNCHANGED <<stateId, known>>
           \/ known' = Seen(stateId) /\ UNCHANGED <<stateId, cluster>>
           \/ stateId' = NoId
           \/ known' = NoFacts
<1> USE DEF platform, localOnly, state
<1>1. CASE Apply \/ Send \/ RefreshFails \/ Wait \/ TaskWait \/ AnswerLost
           \/ Edit \/ UserDestroys \/ UNCHANGED vars
  BY <1>1 DEF Apply, Send, RefreshFails, Wait, FailTainted, TaskWait, AnswerLost,
     Fail, Edit, UserDestroys, vars
<1>2. CASE Refresh \/ Hydrate \/ DeleteWait \/ Reread
  BY <1>2 DEF Refresh, Hydrate, DeleteWait, Reread, Forget, FailTainted
<1>3. ASSUME NEW r \in wire,
             \/ Destroy(r) \/ Rename(r) \/ StartTask(r) \/ AlreadyThere(r)
             \/ RedeployCCM(r) \/ Refuse(r)
      PROVE  UNCHANGED <<stateId, known>>
  BY <1>3 DEF Destroy, Rename, StartTask, AlreadyThere, RedeployCCM, Refuse, Fail
<1>4. ASSUME NEW r \in wire, NEW i \in Ids, r.op = "create", Persist(r, i)
      PROVE  UNCHANGED <<stateId, known>> \/ known' = NoFacts
  BY <1>4, PersistEffect DEF TargetInv
<1>5. ASSUME NEW r \in wire, ReplayCreate(r)
      PROVE  UNCHANGED <<stateId, known>> \/ known' = NoFacts
  <2>1. r.op = "create" /\ cached[r.body] \in Ids /\ Persist(r, cached[r.body])
    BY <1>5, RequestParts DEF ReplayCreate, TargetInv, IInv, TypeOK
  <2> QED
    BY <1>4, <2>1
<1>6. ASSUME NEW r \in wire, NEW i \in Ids, CreateRow(r, i)
      PROVE  UNCHANGED <<stateId, known>> \/ known' = NoFacts
  BY <1>4, <1>6 DEF CreateRow
<1>7. CASE (\E i \in Ids : Provisioned(i)) \/ TaskCompletes \/ TaskFails
  BY <1>7 DEF Provisioned, TaskCompletes, TaskFails, EndTask
<1> QED
  BY <1>1, <1>2, <1>3, <1>5, <1>6, <1>7 DEF Next, Provider, Platform, Handle

\* The workers stay at or beyond what is known of them.
LEMMA NextKeepsKnown ==
    ASSUME TargetInv, IInv', [Next]_vars
    PROVE  MadeFor' /\ KnownWorkers'
<1> USE DEF platform
<1>0. /\ IInv /\ TypeOK /\ known.kv \in Int
      /\ \A c \in Configs : c.ver \in Int
      /\ MadeFor /\ KnownWorkers
      /\ stateId' # NoId => stateId' \in Ids /\ cluster'[stateId'].wk \in 1..MaxVersion
  BY DEF TargetInv, IInv, TypeOK, Facts, Configs, Clusters, Versions
<1>1. KnownWorkers'
  <2>1. CASE UNCHANGED <<stateId, known>>
    BY <1>0, <2>1, TrackedGrow DEF KnownWorkers
  <2>2. CASE known' = Seen(stateId) /\ UNCHANGED <<stateId, cluster>>
    BY <1>0, <2>2 DEF KnownWorkers, Seen
  <2>3. CASE stateId' = NoId
    BY <2>3 DEF KnownWorkers
  <2>4. CASE known' = NoFacts
    BY <1>0, <2>4 DEF KnownWorkers, NoFacts
  <2> QED
    BY <2>1, <2>2, <2>3, <2>4, StateMoves
<1>2. CASE UNCHANGED cached
  <2>1. MadeFor'
    BY <1>0, <1>2, TrackedGrow DEF MadeFor
  <2> QED
    BY <1>1, <2>1
<1>3. CASE \E r \in wire, i \in Ids : CreateRow(r, i)
  <2>1. PICK r \in wire, i \in Ids : CreateRow(r, i)
    BY <1>3
  <2>2. r.op = "create" /\ r.body \in Configs
    BY <1>0, <2>1, RequestParts DEF CreateRow, TypeOK
  <2>3. /\ cached' = [cached EXCEPT ![r.body] = i]
        /\ cluster'[i].wk = r.body.ver
    BY <1>0, <2>1 DEF CreateRow, Remember, TypeOK
  <2>4. \A c \in Configs \ {r.body} : cached'[c] = cached[c]
    BY <1>0, <2>3 DEF TypeOK
  <2>5. cached'[r.body] = i
    BY <1>0, <2>2, <2>3 DEF TypeOK
  <2>6. ASSUME NEW c \in Configs, cached'[c] # NoId
        PROVE  c.ver <= cluster'[cached'[c]].wk
    <3>1. CASE c = r.body
      BY <1>0, <2>3, <2>5, <3>1
    <3>2. CASE c # r.body
      BY <1>0, <2>4, <2>6, <3>2, TrackedGrow DEF MadeFor
    <3> QED
      BY <3>1, <3>2
  <2> QED
    BY <1>1, <2>6 DEF MadeFor
<1>4. UNCHANGED cached \/ \E r \in wire, i \in Ids : CreateRow(r, i)
  <2> USE DEF localOnly
  <2>1. CASE Provider
    BY <2>1 DEF Provider, Apply, Send, Refresh, RefreshFails, Wait, Hydrate,
       DeleteWait, TaskWait, Reread
  <2>2. CASE \E r \in wire : Handle(r)
    BY <2>2 DEF Handle, ReplayCreate, StartTask, AlreadyThere, Refuse, Destroy, Rename,
       RedeployCCM
  <2>3. CASE \/ TaskCompletes \/ TaskFails \/ AnswerLost \/ Edit \/ UserDestroys
             \/ UNCHANGED vars \/ \E i \in Ids : Provisioned(i)
    BY <2>3 DEF TaskCompletes, TaskFails, EndTask, AnswerLost, Edit, UserDestroys,
       Provisioned, vars
  <2> QED
    BY <2>1, <2>2, <2>3 DEF Next, Platform
<1> QED
  BY <1>1, <1>2, <1>3, <1>4

\* The update that waits for the workers goes on waiting: its task goes on, goes
\* away with the cluster, or another one runs that it does not watch.
LEMMA WatchStays ==
    ASSUME TargetInv, [Next]_vars, pc = "wkWait",
           UNCHANGED <<watch, want, peak, stateId>>,
           task' \in {task, NoTask} \/ ~task'.watched
    PROVE  WorkersWatch'
<1>1. /\ stateId # NoId /\ want.ver \in Int /\ WorkersWatch
  BY DEF TargetInv, IInv, TypeOK, Positioned, Configs, Versions
<1> QED
  BY <1>1, TrackedGrow DEF WorkersWatch

\* A watched task that ends tells the update what became of its own upgrade.
LEMMA NextKeepsWatch ==
    ASSUME TargetInv, [Next]_vars
    PROVE  WorkersWatch'
<1> USE DEF platform, localOnly, state
<1>0. /\ IInv /\ TypeOK /\ task \in Tasks \cup {NoTask} /\ WorkersWatch
      /\ wire \subseteq Requests /\ cluster \in [Ids -> Clusters]
      /\ pc = "wkWait" => ~asked /\ stateId \in Ids
      /\ want.ver \in Int
  BY NotAsked, StateIdType DEF TargetInv, IInv, TypeOK, Sending, Positioned,
     Configs, Versions
<1> SUFFICES ASSUME pc' = "wkWait"  PROVE WorkersWatch'
  BY DEF WorkersWatch
<1>1. ASSUME \/ Apply \/ RefreshFails \/ Refresh \/ Wait \/ Hydrate \/ DeleteWait
             \/ TaskWait \/ Reread \/ AnswerLost \/ Edit \/ UserDestroys \/ Send
      PROVE  FALSE
  <2>1. ~(Apply \/ RefreshFails \/ AnswerLost \/ UserDestroys)
    BY DEF Apply, RefreshFails, AnswerLost, Fail, Stop, UserDestroys
  <2>2. ~(Wait \/ Hydrate \/ DeleteWait \/ TaskWait \/ Reread)
    BY DEF Wait, Hydrate, DeleteWait, TaskWait, Reread, Stage, AfterStage, GoTo, Succeed,
       FailTainted, Stop
  <2>3. ~Refresh
    BY DEF Refresh, Planned, VersionStage, GoTo
  <2>4. ~(Edit \/ Send)
    BY DEF Edit, Send, Sending
  <2> QED
    BY <1>1, <2>1, <2>2, <2>3, <2>4
<1>2. CASE UNCHANGED vars
  BY <1>2, WatchStays DEF vars
<1>3. ASSUME NEW r \in wire,
             Destroy(r) \/ Rename(r) \/ RedeployCCM(r) \/ AlreadyThere(r)
      PROVE  WorkersWatch'
  <2>1. /\ r.op # "create" /\ UNCHANGED <<watch, want, peak, stateId>>
        /\ task' \in {task, NoTask}
    BY <1>3 DEF Destroy, Rename, RedeployCCM, AlreadyThere, Leave
  <2>2. PICK p \in {"deleteWait", "reread", "cp", "wk", "ccm"} : GoOn(r, p)
    BY <1>3 DEF Destroy, Rename, RedeployCCM, AlreadyThere, VersionStage, AfterStage
  <2>3. pc = "wkWait"
    BY <1>0, <2>1, <2>2, GoOnEffect
  <2> QED
    BY <2>1, <2>3, WatchStays
<1>4. ASSUME NEW r \in wire, Refuse(r)  PROVE WorkersWatch'
  <2>1. pc = "wkWait" /\ UNCHANGED <<watch, want, peak, stateId, task>>
    BY <1>4 DEF Refuse, Leave, Fail, Stop
  <2> QED
    BY <2>1, WatchStays
<1>5. ASSUME NEW r \in wire, NEW i, r.op = "create", i \in Ids, Persist(r, i),
             UNCHANGED <<want, peak, task>>
      PROVE  WorkersWatch'
  <2>1. pc = "wkWait" /\ UNCHANGED <<watch, stateId>>
    BY <1>0, <1>5, PersistEffect
  <2> QED
    BY <1>5, <2>1, WatchStays
<1>6. ASSUME NEW r \in wire, ReplayCreate(r)  PROVE WorkersWatch'
  <2>1. r.op = "create" /\ cached[r.body] \in Ids /\ Persist(r, cached[r.body])
    BY <1>0, <1>6, RequestParts DEF ReplayCreate, TypeOK
  <2> QED
    BY <1>5, <1>6, <2>1 DEF ReplayCreate, Leave
<1>7. ASSUME NEW r \in wire, NEW i \in Ids, CreateRow(r, i)  PROVE WorkersWatch'
  BY <1>5, <1>7 DEF CreateRow, Leave
<1>8. ASSUME NEW r \in wire, StartTask(r)  PROVE WorkersWatch'
  <2>1. /\ r.op \in {"cp", "wk"} /\ task' = [kind |-> r.op, id |-> r.id, to |-> r.to,
                                             watched |-> asked /\ r = Request]
        /\ UNCHANGED <<want, peak, stateId>>
    BY <1>8 DEF StartTask, Leave
  <2>2. CASE asked /\ r = Request
    <3>1. r.op = "wk" /\ watch' = "running"
      BY <1>8, <2>1, <2>2 DEF StartTask, GoTo
    <3>2. r.id = stateId /\ r.to = want.ver
      BY <1>0, <2>2, <3>1, OwnRequest
    <3> QED
      BY <2>1, <3>1, <3>2 DEF WorkersWatch
  <2>3. CASE ~(asked /\ r = Request)
    <3>1. pc = "wkWait" /\ UNCHANGED watch
      BY <1>8, <2>3 DEF StartTask
    <3>2. ~task'.watched
      BY <2>1, <2>3
    <3> QED
      BY <2>1, <3>1, <3>2, WatchStays
  <2> QED
    BY <2>2, <2>3
<1>9. ASSUME NEW i \in Ids, Provisioned(i)  PROVE WorkersWatch'
  <2>1. pc = "wkWait" /\ UNCHANGED <<watch, want, peak, stateId, task>>
    BY <1>9 DEF Provisioned
  <2> QED
    BY <2>1, WatchStays
<1>10. CASE TaskFails
  <2>1. /\ pc = "wkWait" /\ task' = NoTask /\ UNCHANGED <<want, peak, stateId>>
        /\ watch' = "failed" \/ watch' = watch
    BY <1>10 DEF TaskFails, EndTask
  <2>2. CASE watch' = "failed"
    BY <2>1, <2>2 DEF WorkersWatch
  <2> QED
    BY <2>1, <2>2, WatchStays
<1>11. CASE TaskCompletes
  <2>1. /\ pc = "wkWait" /\ task' = NoTask /\ UNCHANGED <<want, peak, stateId>>
        /\ task # NoTask /\ task \in Tasks /\ task.watched \in BOOLEAN
    BY <1>0, <1>11 DEF TaskCompletes, EndTask, Tasks
  <2>2. CASE task.watched
    <3>1. task.kind = "wk" /\ task.id = stateId /\ task.to = want.ver
      BY <1>0, <2>1, <2>2 DEF WorkersWatch
    <3>2. cluster' = [cluster EXCEPT ![task.id].wk = task.to]
      BY <1>11, <3>1 DEF TaskCompletes
    <3>3. cluster[stateId] \in Clusters
      BY <1>0, <2>1
    <3>4. cluster'[stateId].wk = want.ver
      BY <1>0, <2>1, <3>1, <3>2, <3>3 DEF Clusters
    <3> QED
      BY <1>0, <2>1, <3>4 DEF WorkersWatch
  <2>3. CASE ~task.watched
    BY <1>11, <2>1, <2>3, WatchStays DEF TaskCompletes, EndTask
  <2> QED
    BY <2>1, <2>2, <2>3
<1> QED
  BY <1>1, <1>2, <1>3, <1>4, <1>6, <1>7, <1>8, <1>9, <1>10, <1>11
     DEF Next, Provider, Platform, Handle

\* What a step must show to keep Reached: where it passes the upgrade or reports
\* success, the workers are at the target already.
LEMMA ReachedStays ==
    ASSUME TargetInv, [Next]_vars, UNCHANGED <<want, peak, stateId>>,
           done' => pc' = "idle",
           pc' \in AtTarget \/ done' =>
              stateId = NoId \/ want.ver <= cluster[stateId].wk,
           pc' \in AtTarget => stateId # NoId
    PROVE  Reached'
<1>1. want.ver \in Int
  BY DEF TargetInv, IInv, TypeOK, Configs, Versions
<1> QED
  BY <1>1, TrackedGrow DEF Reached

\* A step that leaves the handler where it was keeps what it has reached.
LEMMA ReachedHere ==
    ASSUME TargetInv, [Next]_vars, UNCHANGED <<want, peak, stateId, pc, done>>
    PROVE  Reached'
<1>1. pc \in AtTarget => stateId # NoId
  BY DEF TargetInv, IInv, Positioned, AtTarget
<1> QED
  BY <1>1, ReachedStays DEF TargetInv, Reached

\* A handler that fails, or an apply that begins, claims nothing.
LEMMA ReachedNothing ==
    ASSUME ~done', pc' \notin AtTarget
    PROVE  Reached'
BY DEF Reached

\* The answer to a create names a cluster at or beyond the configuration.
LEMMA PersistReaches ==
    ASSUME TargetInv, [Next]_vars, NEW r \in wire, r.op = "create",
           NEW i \in Ids, Persist(r, i), UNCHANGED <<want, peak>>,
           r.body.ver <= cluster'[i].wk
    PROVE  Reached'
<1>1. CASE ~(asked /\ r = Request)
  BY <1>1, ReachedHere DEF Persist, GoOn
<1>2. CASE asked /\ r = Request
  <2>1. pc = "create" /\ r.body = want /\ ~done
    BY <1>2, OwnRequest, RequestType DEF TargetInv, IInv, Reached, Positioned, Sending
  <2>2. done' = done /\ pc' = "wait" /\ stateId' = i
    BY <1>2 DEF Persist, GoOn, GoTo
  <2> QED
    BY <2>1, <2>2 DEF Reached
<1> QED
  BY <1>1, <1>2

\* An answer to another request moves the handler past the upgrade only when the
\* workers are at the target.
LEMMA GoOnReaches ==
    ASSUME TargetInv, [Next]_vars, NEW r \in wire, r.op # "create",
           NEW p, GoOn(r, p), UNCHANGED <<want, peak, stateId>>,
           p \in AtTarget /\ pc = r.op /\ stateId # NoId =>
              want.ver <= cluster[stateId].wk
    PROVE  Reached'
<1>1. CASE UNCHANGED <<pc, done>>
  BY <1>1, ReachedHere
<1>2. CASE asked /\ done' = done /\ pc' = p /\ pc = r.op /\ stateId # NoId
  <2>1. ~done
    BY <1>2 DEF TargetInv, IInv, Reached, Positioned, Sending
  <2> QED
    BY <1>2, <2>1, ReachedStays
<1> QED
  BY <1>1, <1>2, GoOnEffect DEF TargetInv

\* The steps between the requests.
LEMMA ProviderReaches ==
    ASSUME TargetInv, [Next]_vars, Provider
    PROVE  Reached'
<1> USE DEF platform, localOnly, state, AtTarget
<1>0. /\ TypeOK /\ Reached /\ done \in BOOLEAN
      /\ pc # "idle" => ~done
      /\ pc \in AtTarget \cup {"refresh"} => stateId # NoId
  BY DEF TargetInv, IInv, TypeOK, Positioned, Reached
<1>1. CASE Apply \/ RefreshFails
  BY <1>1, ReachedNothing DEF Apply, RefreshFails, Stop
<1>2. CASE Send
  BY <1>2, ReachedHere DEF Send
<1>3. CASE Refresh
  <2>1. CASE GoTo("create")
    BY <1>0, <1>3, <2>1, ReachedNothing DEF Refresh, GoTo
  <2>2. CASE /\ pc' = Planned(Seen(stateId))
             /\ done' = (pc' = "idle")
             /\ UNCHANGED <<stateId, tainted>>
    <3>1. pc' = "idle" => cluster[stateId].wk = want.ver
      BY <2>2 DEF Planned, VersionStage, Seen
    <3>2. pc' \notin AtTarget
      BY <2>2 DEF Planned, VersionStage
    <3>3. want.ver \in Int /\ UNCHANGED <<want, peak>>
      BY <1>0, <1>3 DEF Refresh, TypeOK, Configs, Versions
    <3>4. done' => pc' = "idle"
      BY <2>2
    <3>5. done' => want.ver <= cluster[stateId].wk
      BY <3>1, <3>3, <3>4
    <3>6. UNCHANGED stateId
      BY <2>2
    <3> QED
      BY <3>2, <3>3, <3>4, <3>5, <3>6, ReachedStays
  <2> QED
    BY <1>3, <2>1, <2>2 DEF Refresh
<1>4. CASE Wait
  <2>1. CASE GoTo("hydrate") /\ UNCHANGED state
    BY <1>0, <1>4, <2>1, ReachedStays DEF Wait, GoTo, Reached
  <2>2. CASE FailTainted
    BY <2>2, ReachedNothing DEF FailTainted, Stop
  <2> QED
    BY <1>4, <2>1, <2>2 DEF Wait
<1>5. CASE Hydrate
  <2>1. CASE Succeed /\ UNCHANGED <<stateId, tainted>>
    BY <1>0, <1>5, <2>1, ReachedStays DEF Hydrate, Succeed, Reached
  <2>2. CASE FailTainted
    BY <2>2, ReachedNothing DEF FailTainted, Stop
  <2> QED
    BY <1>5, <2>1, <2>2 DEF Hydrate
<1>6. CASE DeleteWait
  <2>1. CASE Stop
    BY <2>1, ReachedNothing DEF Stop
  <2>2. CASE Forget /\ GoTo("create")
    BY <1>0, <1>6, <2>2, ReachedNothing DEF DeleteWait, GoTo
  <2>3. CASE Forget /\ Succeed
    BY <2>3 DEF Forget, Succeed, Reached
  <2> QED
    BY <1>6, <2>1, <2>2, <2>3 DEF DeleteWait
<1>7. CASE TaskWait
  <2>1. CASE Stop
    BY <2>1, ReachedNothing DEF Stop
  <2>2. CASE TaskDone /\ GoTo(AfterStage(Stage)) /\ pc = "cpWait"
    BY <1>0, <2>2, ReachedNothing DEF GoTo, Stage, AfterStage
  <2>3. CASE TaskDone /\ GoTo(AfterStage(Stage)) /\ pc = "wkWait"
    <3>1. want.ver <= cluster[stateId].wk /\ stateId # NoId
      BY <2>3 DEF TargetInv, WorkersWatch, TaskDone, IInv, Positioned
    <3>2. ~done' /\ UNCHANGED <<want, peak, stateId>>
      BY <1>0, <1>7, <2>3 DEF TaskWait, GoTo
    <3> QED
      BY <3>1, <3>2, ReachedStays
  <2> QED
    BY <1>7, <2>1, <2>2, <2>3 DEF TaskWait
<1>8. CASE Reread
  <2>1. CASE Stop
    BY <2>1, ReachedNothing DEF Stop
  <2>2. CASE Succeed
    BY <1>0, <1>8, <2>2, ReachedStays DEF Reread, Succeed, Reached
  <2> QED
    BY <1>8, <2>1, <2>2 DEF Reread
<1> QED
  BY <1>1, <1>2, <1>3, <1>4, <1>5, <1>6, <1>7, <1>8 DEF Provider

\* The requests as the platform handles them.
LEMMA HandleReaches ==
    ASSUME TargetInv, [Next]_vars, NEW r \in wire, Handle(r)
    PROVE  Reached'
<1> USE DEF platform, state
<1>0. /\ IInv /\ TypeOK /\ wire \subseteq Requests /\ cluster \in [Ids -> Clusters]
      /\ done \in BOOLEAN
  BY DEF TargetInv, IInv, TypeOK
<1>1. ASSUME NEW i \in Ids, CreateRow(r, i)  PROVE Reached'
  <2>1. r.op = "create" /\ r.body.ver \in Int /\ Persist(r, i) /\ UNCHANGED <<want, peak>>
    BY <1>0, <1>1, RequestParts DEF CreateRow, Leave, Configs, Versions
  <2>2. cluster'[i].wk = r.body.ver
    BY <1>0, <1>1 DEF CreateRow
  <2> QED
    BY <2>1, <2>2, PersistReaches
<1>2. CASE ReplayCreate(r)
  <2>1. /\ r.op = "create" /\ r.body \in Configs /\ cached[r.body] \in Ids
        /\ cached[r.body] # NoId
        /\ Persist(r, cached[r.body]) /\ UNCHANGED <<cluster, want, peak>>
    BY <1>0, <1>2, RequestParts DEF ReplayCreate, Leave, TypeOK
  <2>2. r.body.ver <= cluster[cached[r.body]].wk
    BY <2>1 DEF TargetInv, MadeFor
  <2> QED
    BY <2>1, <2>2, PersistReaches
<1>3. CASE Destroy(r)
  BY <1>3, GoOnReaches DEF Destroy, Leave, AtTarget
<1>4. CASE Rename(r)
  <2>1. VersionStage(known) \in AtTarget => known.kv = want.ver
    BY DEF VersionStage, AtTarget
  <2>2. stateId # NoId => known.kv <= cluster[stateId].wk
    BY DEF TargetInv, KnownWorkers
  <2> QED
    BY <1>4, <2>1, <2>2, GoOnReaches DEF Rename, Leave
<1>5. CASE StartTask(r)
  <2>1. CASE asked /\ r = Request
    <3>1. pc \in Sending
      BY <1>0, <2>1, OwnRequest
    <3>2. ~done
      BY <3>1 DEF TargetInv, Reached, Sending
    <3> QED
      BY <1>5, <2>1, <3>2, ReachedNothing DEF StartTask, GoTo, AtTarget
  <2>2. CASE ~(asked /\ r = Request)
    BY <1>5, <2>2, ReachedHere DEF StartTask, Leave
  <2> QED
    BY <2>1, <2>2
<1>6. CASE RedeployCCM(r)
  <2>1. pc = "ccm" => want.ver <= cluster[stateId].wk
    BY DEF TargetInv, Reached, AtTarget
  <2> QED
    BY <1>6, <2>1, GoOnReaches DEF RedeployCCM, Leave
<1>7. CASE Refuse(r)
  <2>1. CASE asked /\ r = Request
    BY <1>7, <2>1, ReachedNothing DEF Refuse, Fail, Stop, AtTarget
  <2>2. CASE ~(asked /\ r = Request)
    BY <1>7, <2>2, ReachedHere DEF Refuse, Leave
  <2> QED
    BY <2>1, <2>2
<1>8. CASE AlreadyThere(r)
  <2>2. CASE asked /\ r = Request
    <3>1. /\ pc = r.op /\ r.id = stateId /\ r.to = want.ver /\ stateId # NoId
          /\ ~done /\ pc \in Sending
      BY <1>0, <1>8, <2>2, OwnRequest DEF AlreadyThere, TargetInv, Reached, Sending
    <3>2. /\ pc' = AfterStage(r.op) /\ done' = done
          /\ UNCHANGED <<cluster, want, stateId>>
      BY <1>8, <2>2 DEF AlreadyThere, GoOn, GoTo, Leave
    <3>3. CASE r.op = "cp"
      BY <3>1, <3>2, <3>3, ReachedNothing DEF AfterStage, AtTarget
    <3>4. CASE r.op = "wk"
      <4>1. cluster[stateId].wk = want.ver /\ want.ver \in Int
        BY <1>0, <1>8, <3>1, <3>4 DEF AlreadyThere, TypeOK, Configs, Versions
      <4> QED
        BY <3>1, <3>2, <4>1 DEF Reached
    <3> QED
      BY <1>8, <3>3, <3>4 DEF AlreadyThere
  <2>3. CASE ~(asked /\ r = Request)
    BY <1>8, <2>3, ReachedHere DEF AlreadyThere, GoOn, Leave
  <2> QED
    BY <2>2, <2>3
<1> QED
  BY <1>1, <1>2, <1>3, <1>4, <1>5, <1>6, <1>7, <1>8 DEF Handle

\* Every step keeps the invariant of the target.
LEMMA NextKeepsTarget ==
    ASSUME TargetInv, IInv', [Next]_vars
    PROVE  TargetInv'
<1> USE DEF platform, state
<1>1. CASE \/ TaskCompletes \/ TaskFails \/ UNCHANGED vars
           \/ \E i \in Ids : Provisioned(i)
  <2>1. UNCHANGED <<want, peak, stateId, pc, done>>
    BY <1>1 DEF TaskCompletes, TaskFails, EndTask, Provisioned, vars
  <2> QED
    BY <2>1, ReachedHere, NextKeepsCaps, NextKeepsKnown, NextKeepsWatch
       DEF TargetInv
<1>2. CASE AnswerLost \/ Edit \/ UserDestroys
  <2>1. ~done' /\ pc' \notin AtTarget
    BY <1>2 DEF AnswerLost, Fail, Stop, Edit, UserDestroys, AtTarget
  <2> QED
    BY <2>1, ReachedNothing, NextKeepsCaps, NextKeepsKnown, NextKeepsWatch
       DEF TargetInv
<1>3. CASE Provider \/ \E r \in wire : Handle(r)
  BY <1>3, ProviderReaches, HandleReaches, NextKeepsCaps, NextKeepsKnown,
     NextKeepsWatch DEF TargetInv
<1> QED
  BY <1>1, <1>2, <1>3 DEF Next, Platform

\* An apply that reports success leaves the control plane and the workers at the
\* configured version, whichever stage an earlier one stopped at, whether the
\* cluster was made now or found by its idempotency key, and whatever arrives late;
\* only where the configuration was taken back below what the control plane has
\* reached may they be ahead of it, and then at no version never configured.
THEOREM SuccessMeansUpgraded == Spec => []OkMeansUpgraded
<1>1. Init => TargetInv
  <2> SUFFICES ASSUME Init  PROVE TargetInv
    OBVIOUS
  <2> QED
    BY InitInv DEF Init, TargetInv, Capped, WorkersForward, MadeFor, KnownWorkers,
       WorkersWatch, Reached, AtTarget
<1>2. TargetInv /\ IInv' /\ [Next]_vars => TargetInv'
  BY NextKeepsTarget
<1>3. TargetInv => OkMeansUpgraded
  <2> SUFFICES ASSUME TargetInv, done, stateId # NoId
               PROVE  \/ cluster[stateId].wk = want.ver /\ cluster[stateId].cp = want.ver
                      \/ /\ TakenBack(stateId)
                         /\ want.ver <= cluster[stateId].wk
                         /\ cluster[stateId].cp <= peak
    BY DEF OkMeansUpgraded
  <2>1. /\ stateId \in Ids /\ cluster[stateId].life # "unused"
        /\ cluster[stateId].wk \in Int /\ cluster[stateId].cp \in Int
        /\ want.ver \in Int /\ peak \in Int
    BY StateIdType DEF TargetInv, IInv, Made, TypeOK, Clusters, Configs, Versions
  <2>2. /\ want.ver <= cluster[stateId].wk /\ cluster[stateId].cp <= peak
        /\ cluster[stateId].wk <= cluster[stateId].cp
    BY <2>1 DEF TargetInv, IInv, Reached, Capped, WorkersNeverAhead
  <2>3. CASE cluster[stateId].cp <= want.ver
    BY <2>1, <2>2, <2>3
  <2>4. CASE want.ver < cluster[stateId].cp
    BY <2>1, <2>2, <2>4 DEF TakenBack
  <2> QED
    BY <2>1, <2>3, <2>4
<1> QED
  BY <1>1, <1>2, <1>3, Inductive, PTL DEF Spec
=============================================================================
