--------------------------- MODULE VolumeSnapshot ---------------------------
(***************************************************************************)
(* The resource iaas_volume_snapshot with the helpers of package volumeop  *)
(* it is built from: Create (name check, admission loop, adoption or       *)
(* resolution of the id, readiness wait), Read and Delete, for creates     *)
(* that use ONE name on ONE volume.                                        *)
(*                                                                         *)
(* The create answers a queue handle, never the snapshot's id, and names   *)
(* are not unique, so the id is found by comparing what the volume shows   *)
(* before the send with what it shows afterwards.  Meanwhile somebody else *)
(* may create and delete snapshots of that name, answers get lost, and a   *)
(* request whose answer was given up may still arrive.                     *)
(*                                                                         *)
(* A creator is one create and the life of the resource it made; a second  *)
(* apply is another creator.                                               *)
(***************************************************************************)
EXTENDS Integers, FiniteSets

CONSTANTS
    Creators,   \* creates of a snapshot with the name
    Someone,    \* anybody who does not use this resource
    Ids,        \* snapshot ids
    NoId,       \* the Terraform state holds no id
    Worlds      \* the circumstances a behaviour may meet

ASSUME SomeoneAssumption == Someone \notin Creators
ASSUME NoIdAssumption == NoId \notin Ids
ASSUME WorldsAssumption == Worlds \subseteq [crowded : BOOLEAN, lag : BOOLEAN]

VARIABLES
    world,      \* crowded: Someone creates and deletes snapshots of the name;
                \* lag: a new row may stay invisible for a while
    status,     \* the platform's snapshots of that name
    by,         \* who created each of them
    wire,       \* create requests still travelling to the platform
    pc,         \* where the create, or the resource's later life, is
    before,     \* same-name ids seen before the send
    answer,     \* the class of the answer to the last request
    errs,       \* consecutive failed polls of the readiness wait
    expired,    \* the create's context has ended
    stateId,    \* the id in the Terraform state
    report,     \* what the create reported
    removed,    \* what the last destroy reported
    existed     \* history: the snapshots at the last pre-send read that worked

platform == <<status, by>>
vars == <<world, status, by, wire, pc, before, answer, errs, expired, stateId,
          report, removed, existed>>

MaxReadErrors == 3      \* the tolerance Create gives its readiness wait

Shown    == {"pending", "available", "failed", "deleting"}
Statuses == Shown \cup {"unused", "queued", "gone"}
\* A definite answer that recorded nothing: the gate's transient refusals
\* (busy, cooldown, in-flight limit) and every other refusal.  As in VolumeOp a
\* 429 from elsewhere, which classify counts with them, is assumed away.
Answers  == {"none", "ok", "transient", "refused", "uncertain"}
Reports  == {"none", "taken", "unchecked", "refused", "pending", "inDoubt",
             "unresolved", "notReady", "unread", "ok"}
Positions == {"check", "refresh", "send", "sent", "answered", "adopt",
              "resolve", "wait", "hydrate", "settled", "deleteWait"}

TypeOK ==
    /\ world \in Worlds
    /\ status \in [Ids -> Statuses]
    /\ by \in [Ids -> Creators \cup {Someone}]
    /\ wire \in [Creators -> Nat]
    /\ pc \in [Creators -> Positions]
    /\ before \in [Creators -> SUBSET Ids]
    /\ answer \in [Creators -> Answers]
    /\ errs \in [Creators -> 0..MaxReadErrors]
    /\ expired \in [Creators -> BOOLEAN]
    /\ stateId \in [Creators -> Ids \cup {NoId}]
    /\ report \in [Creators -> Reports]
    /\ removed \in [Creators -> {"none", "ok", "error"}]
    /\ existed \in [Creators -> SUBSET Ids]

\* SnapshotIDsNamed: what a read of the volume shows.
Named == { i \in Ids : status[i] \in Shown }

\* NewSnapshotID: the ids of that name that are not in the before set.
Fresh(c) == Named \ before[c]

Existing == { i \in Ids : status[i] \notin {"unused", "gone"} }
Own(c)   == { i \in Ids : by[i] = c }

-----------------------------------------------------------------------------
(* The platform and everybody else (outside this repository).              *)

platformOnly == <<world, pc, before, answer, errs, expired, stateId, report,
                  removed, existed>>

\* The answer reaches the creator only while it still waits for one.
Reply(c, a) ==
    IF pc[c] = "sent"
      THEN /\ answer' = [answer EXCEPT ![c] = a]
           /\ pc' = [pc EXCEPT ![c] = "answered"]
      ELSE UNCHANGED <<answer, pc>>

Arrive(c) ==
    /\ wire[c] > 0
    /\ wire' = [wire EXCEPT ![c] = @ - 1]
    /\ UNCHANGED <<world, before, errs, expired, stateId, report, removed,
                   existed>>

\* The row is written in the create request itself; it may show later.
NewRow(i, owner) ==
    /\ status[i] = "unused"
    /\ status' \in { [status EXCEPT ![i] = s] :
                        s \in IF world.lag THEN {"queued", "pending"} ELSE {"pending"} }
    /\ by' = [by EXCEPT ![i] = owner]

PlatformRecords(c) ==
    /\ Arrive(c)
    /\ \E i \in Ids : NewRow(i, c)
    /\ Reply(c, "ok")

PlatformRefuses(c) ==
    /\ Arrive(c)
    /\ \E a \in {"transient", "refused"} : Reply(c, a)
    /\ UNCHANGED platform

\* A 5xx or a transport error.
AnswerLost(c) ==
    /\ pc[c] = "sent"
    /\ Reply(c, "uncertain")
    /\ UNCHANGED <<world, platform, wire, before, errs, expired, stateId,
                   report, removed, existed>>

RowShows(i) ==
    /\ status[i] = "queued"
    /\ status' = [status EXCEPT ![i] = "pending"]
    /\ UNCHANGED <<by, wire, platformOnly>>

CaptureEnds(i) ==
    /\ status[i] = "pending"
    /\ \E s \in {"available", "failed"} : status' = [status EXCEPT ![i] = s]
    /\ UNCHANGED <<by, wire, platformOnly>>

RemovalEnds(i) ==
    /\ status[i] = "deleting"
    /\ status' = [status EXCEPT ![i] = "gone"]
    /\ UNCHANGED <<by, wire, platformOnly>>

SomeoneCreates(i) ==
    /\ world.crowded
    /\ NewRow(i, Someone)
    /\ UNCHANGED <<wire, platformOnly>>

\* Out of band, and not only their own.
SomeoneDeletes(i) ==
    /\ world.crowded
    /\ i \in Named
    /\ status' = [status EXCEPT ![i] = "gone"]
    /\ UNCHANGED <<by, wire, platformOnly>>

Deadline(c) ==
    /\ ~expired[c] /\ pc[c] \notin {"settled", "deleteWait"}
    /\ expired' = [expired EXCEPT ![c] = TRUE]
    /\ UNCHANGED <<world, platform, wire, pc, before, answer, errs, stateId,
                   report, removed, existed>>

-----------------------------------------------------------------------------
(* Create.                                                                 *)

GoTo(c, position) == pc' = [pc EXCEPT ![c] = position] /\ UNCHANGED report

\* Create returns with the report r.
Return(c, r) ==
    /\ pc' = [pc EXCEPT ![c] = "settled"]
    /\ report' = [report EXCEPT ![c] = r]

createOnly == <<world, platform, wire, removed>>

\* CheckSnapshotNameFree.
Check(c) ==
    /\ pc[c] = "check"
    /\ \/ Return(c, "unchecked") /\ UNCHANGED existed     \* the read fails
       \/ /\ ~expired[c]
          /\ IF Named = {} THEN GoTo(c, "send") ELSE Return(c, "taken")
          /\ existed' = [existed EXCEPT ![c] = Existing]
    /\ UNCHANGED <<createOnly, before, answer, errs, expired, stateId>>

\* Mutant: the before set is not refreshed before the request is repeated.
RefreshForgets(c) ==
    /\ pc[c] = "refresh"
    /\ GoTo(c, "send")
    /\ existed' = [existed EXCEPT ![c] = Existing]
    /\ UNCHANGED <<createOnly, before, answer, errs, expired, stateId>>

\* SnapshotIDsBeforeSend: grows the before set; a failed read leaves it.
Refresh(c) ==
    /\ pc[c] = "refresh"
    /\ GoTo(c, "send")
    /\ \/ UNCHANGED <<before, existed>>                   \* the read fails
       \/ /\ ~expired[c]
          /\ before' = [before EXCEPT ![c] = @ \cup Named]
          /\ existed' = [existed EXCEPT ![c] = Existing]
    /\ UNCHANGED <<createOnly, answer, errs, expired, stateId>>

\* One attempt.  With the context ended nothing leaves, and the error is no
\* APIError: to IsUncertain that is an uncertain answer.
Send(c) ==
    /\ pc[c] = "send"
    /\ IF expired[c]
         THEN GoTo(c, "adopt") /\ UNCHANGED wire
         ELSE GoTo(c, "sent") /\ wire' = [wire EXCEPT ![c] = @ + 1]
    /\ UNCHANGED <<world, platform, removed, before, answer, errs, expired,
                   stateId, existed>>

SendCut(c) ==
    /\ pc[c] = "sent" /\ expired[c]
    /\ GoTo(c, "adopt")
    /\ UNCHANGED <<createOnly, before, answer, errs, expired, stateId, existed>>

\* A transient refusal: pause, or end at once when the pause would outlast the
\* deadline.
WaitOut(c) ==
    \/ ~expired[c] /\ GoTo(c, "refresh")
    \/ ~expired[c] /\ Return(c, "pending")
    \/ expired[c] /\ Return(c, "refused")

\* Mutant: an uncertain answer is waited out and sent again like a refusal.
ClassifyResends(c) ==
    /\ pc[c] = "answered"
    /\ \/ answer[c] = "ok" /\ GoTo(c, "resolve")
       \/ answer[c] = "refused" /\ Return(c, "refused")
       \/ answer[c] \in {"transient", "uncertain"} /\ WaitOut(c)
    /\ UNCHANGED <<createOnly, before, answer, errs, expired, stateId, existed>>

\* Mutant: an uncertain answer is reported as one more refusal.
ClassifyRefuses(c) ==
    /\ pc[c] = "answered"
    /\ \/ answer[c] = "ok" /\ GoTo(c, "resolve")
       \/ answer[c] \in {"refused", "uncertain"} /\ Return(c, "refused")
       \/ answer[c] = "transient" /\ WaitOut(c)
    /\ UNCHANGED <<createOnly, before, answer, errs, expired, stateId, existed>>

\* What Admit and IsUncertain make of the answer.
Classify(c) ==
    /\ pc[c] = "answered"
    /\ \/ answer[c] = "ok" /\ GoTo(c, "resolve")
       \/ answer[c] = "uncertain" /\ GoTo(c, "adopt")
       \/ answer[c] = "refused" /\ Return(c, "refused")
       \/ answer[c] = "transient" /\ WaitOut(c)
    /\ UNCHANGED <<createOnly, before, answer, errs, expired, stateId, existed>>

\* The id enters the state before anything waits for the snapshot.
Track(c, i) == stateId' = [stateId EXCEPT ![c] = i] /\ GoTo(c, "wait")

\* AdoptAfterUncertain: one read, on a context of its own.
Adopt(c) ==
    /\ pc[c] = "adopt"
    /\ \/ Return(c, "inDoubt") /\ UNCHANGED stateId       \* the read fails
       \/ \E i \in Ids : Fresh(c) = {i} /\ Track(c, i)
       \/ /\ Cardinality(Fresh(c)) # 1
          /\ Return(c, "inDoubt")
          /\ UNCHANGED stateId
    /\ UNCHANGED <<createOnly, before, answer, errs, expired, existed>>

\* One poll of the resolution after a success.
Resolve(c) ==
    /\ pc[c] = "resolve"
    /\ \/ Return(c, "unresolved") /\ UNCHANGED stateId    \* the read fails
       \/ /\ ~expired[c]
          /\ \/ \E i \in Ids : Fresh(c) = {i} /\ Track(c, i)
             \/ /\ Cardinality(Fresh(c)) > 1
                /\ Return(c, "unresolved")
                /\ UNCHANGED stateId
    /\ UNCHANGED <<createOnly, before, answer, errs, expired, existed>>

\* Mutant: one tolerated read error too many.
TolerateOnceMore(c) == errs[c] <= MaxReadErrors

Tolerate(c) == errs[c] < MaxReadErrors

\* Mutant: the readiness wait does not look at the context.
WaitForever(c) ==
    /\ pc[c] = "wait"
    /\ status[stateId[c]] \in {"available", "failed"}
    /\ IF status[stateId[c]] = "available"
         THEN GoTo(c, "hydrate") ELSE Return(c, "notReady")
    /\ UNCHANGED <<createOnly, before, answer, errs, expired, stateId, existed>>

\* One poll of the readiness wait; a snapshot that is not there is an error
\* like any other.
Wait(c) ==
    /\ pc[c] = "wait"
    /\ IF expired[c] THEN Return(c, "notReady") /\ UNCHANGED errs
       ELSE \/ /\ stateId[c] \in Named
               /\ \/ status[stateId[c]] = "available" /\ GoTo(c, "hydrate")
                  \/ status[stateId[c]] = "failed" /\ Return(c, "notReady")
                  \/ /\ status[stateId[c]] \in {"pending", "deleting"}
                     /\ GoTo(c, "wait")
               /\ errs' = [errs EXCEPT ![c] = 0]
            \/ /\ Tolerate(c)                             \* the read fails
               /\ errs' = [errs EXCEPT ![c] = @ + 1]
               /\ GoTo(c, "wait")
            \/ /\ ~Tolerate(c)
               /\ UNCHANGED errs
               /\ Return(c, "notReady")
    /\ UNCHANGED <<createOnly, before, answer, expired, stateId, existed>>

\* The last read is outside the create's deadline.
Hydrate(c) ==
    /\ pc[c] = "hydrate"
    /\ \/ Return(c, "unread")
       \/ stateId[c] \in Named /\ Return(c, "ok")
    /\ UNCHANGED <<createOnly, before, answer, errs, expired, stateId, existed>>

-----------------------------------------------------------------------------
(* Read and Delete of the resource.                                        *)

Tracked(c) == pc[c] = "settled" /\ stateId[c] # NoId

lifeOnly == <<world, by, wire, before, answer, errs, expired, report, existed>>

\* A snapshot that reads 404 leaves the state.
Read(c) ==
    /\ Tracked(c)
    /\ stateId[c] \notin Named
    /\ stateId' = [stateId EXCEPT ![c] = NoId]
    /\ UNCHANGED <<status, pc, removed, lifeOnly>>

\* The DELETE request: accepted or not, answered or not.  Only an accepted
\* and answered one is waited for.
Delete(c) ==
    /\ Tracked(c)
    /\ \E accepted, answered \in BOOLEAN :
         /\ accepted => stateId[c] \in Named
         /\ status' = IF accepted THEN [status EXCEPT ![stateId[c]] = "deleting"]
                                  ELSE status
         /\ IF accepted /\ answered
              THEN pc' = [pc EXCEPT ![c] = "deleteWait"] /\ UNCHANGED removed
              ELSE removed' = [removed EXCEPT ![c] = "error"] /\ UNCHANGED pc
    /\ UNCHANGED <<stateId, lifeOnly>>

\* Mutant: the destroy is over as soon as the snapshot is marked deleting.
DeleteWaitShort(c) ==
    /\ pc[c] = "deleteWait"
    /\ pc' = [pc EXCEPT ![c] = "settled"]
    /\ removed' = [removed EXCEPT ![c] = "ok"]
    /\ stateId' = [stateId EXCEPT ![c] = NoId]
    /\ UNCHANGED <<status, lifeOnly>>

\* One poll of the removal wait: over on 404, and on any error or timeout.
DeleteWait(c) ==
    /\ pc[c] = "deleteWait"
    /\ pc' = [pc EXCEPT ![c] = "settled"]
    /\ \/ /\ stateId[c] \notin Named
          /\ removed' = [removed EXCEPT ![c] = "ok"]
          /\ stateId' = [stateId EXCEPT ![c] = NoId]
       \/ /\ removed' = [removed EXCEPT ![c] = "error"]
          /\ UNCHANGED stateId
    /\ UNCHANGED <<status, lifeOnly>>

-----------------------------------------------------------------------------
Init ==
    /\ world \in Worlds
    /\ status \in [Ids -> {"unused"} \cup IF world.crowded THEN {"available"} ELSE {}]
    /\ by = [i \in Ids |-> Someone]
    /\ wire = [c \in Creators |-> 0]
    /\ pc = [c \in Creators |-> "check"]
    /\ before = [c \in Creators |-> {}]
    /\ answer = [c \in Creators |-> "none"]
    /\ errs = [c \in Creators |-> 0]
    /\ expired = [c \in Creators |-> FALSE]
    /\ stateId = [c \in Creators |-> NoId]
    /\ report = [c \in Creators |-> "none"]
    /\ removed = [c \in Creators |-> "none"]
    /\ existed = [c \in Creators |-> {}]

Create(c) ==
    \/ Check(c)
    \/ Refresh(c)
    \/ Send(c)
    \/ SendCut(c)
    \/ Classify(c)
    \/ Adopt(c)
    \/ Resolve(c)
    \/ Wait(c)
    \/ Hydrate(c)

Life(c) == Read(c) \/ Delete(c) \/ DeleteWait(c)

Platform ==
    \/ \E c \in Creators : PlatformRecords(c) \/ PlatformRefuses(c)
    \/ \E i \in Ids : \/ RowShows(i) \/ CaptureEnds(i) \/ RemovalEnds(i)
                      \/ SomeoneCreates(i) \/ SomeoneDeletes(i)

Next ==
    \/ Platform
    \/ \E c \in Creators :
          Create(c) \/ Life(c) \/ AnswerLost(c) \/ Deadline(c)

Spec == Init /\ [][Next]_vars

\* A goroutine that can run does, the HTTP client's timeout ends every send,
\* and the create timeout passes.  Nothing is asked of the platform.
FairSpec ==
    /\ Spec
    /\ \A c \in Creators :
          WF_vars(Create(c)) /\ WF_vars(AnswerLost(c)) /\ WF_vars(Deadline(c))

-----------------------------------------------------------------------------
(* Properties.                                                             *)

\* A create leaves at most one snapshot, however often it was sent, and a
\* request still on its way is not a second copy.
OneSnapshotPerCreate ==
    \A c \in Creators :
       /\ wire[c] <= 1
       /\ wire[c] = 1 => Own(c) = {}
       /\ \A i, j \in Own(c) : i = j

\* Only an error that leaves the outcome open may hide a snapshot: after
\* every other one nothing was recorded, and nothing is on its way.
DefiniteErrorsRecordNothing ==
    \A c \in Creators :
       report[c] \in {"taken", "unchecked", "refused", "pending"} =>
          Own(c) = {} /\ wire[c] = 0

\* Where rows show at once, the resource never takes over a snapshot that was
\* there when it last looked before sending.
TracksOnlyNew ==
    ~world.lag => \A c \in Creators :
       pc[c] = "wait" => stateId[c] \notin existed[c]

\* With the name to itself, no snapshot is lost sight of: one that exists and
\* is not in the state was announced as possibly recorded by the create.  That
\* covers a failed wait, a destroy and a refresh as well.  (A second create of
\* the name can take the first one's snapshot for its own.)
NameToItself == ~world.crowded /\ \A c, d \in Creators : c = d
NothingStranded ==
    NameToItself => \A c \in Creators :
       pc[c] = "settled" /\ Own(c) \cap Existing # {} /\ stateId[c] = NoId =>
          report[c] \in {"inDoubt", "unresolved"}

\* Create returns whatever the platform does.
Terminates == \A c \in Creators : <>(pc[c] = "settled")

=============================================================================
