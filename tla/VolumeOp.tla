------------------------------ MODULE VolumeOp ------------------------------
(***************************************************************************)
(* Package volumeop: concurrent calls of AttachVolume, DetachVolume,       *)
(* ResizeVolume and DeleteVolume on ONE volume, each driven by the shared  *)
(* admission + completion loop `run` to a reported outcome, against the    *)
(* platform as the package and the client describe it: a mutation is       *)
(* recorded, published in active_operation, then confirmed or failed by    *)
(* the node; a completed operation starts a cooldown; an answer can be     *)
(* lost, and the request behind a lost answer can arrive late.             *)
(*                                                                         *)
(* A caller is one call of the package: of the provider, of the MCP        *)
(* server, or of a later apply.  What it wants is fixed in `req`.          *)
(***************************************************************************)
EXTENDS Integers, FiniteSets

CONSTANTS
    Callers,        \* concurrent calls on the volume
    NoCaller,       \* no pending operation
    Instances,      \* attachment targets
    NoInstance,     \* the volume is detached
    Plans,          \* volume plans
    Actions,        \* the actions the calls of this instance issue
    WithDeadline    \* do the calls carry a deadline (Options.Timeout, ctx)?

ASSUME CallersAssumption == NoCaller \notin Callers
ASSUME TargetsAssumption == NoInstance \notin Instances
ASSUME ActionsAssumption ==
    Actions \subseteq {"attach", "detach", "resize", "delete"}
ASSUME DeadlineAssumption == WithDeadline \in BOOLEAN

VARIABLES
    vol,        \* the platform's volume: exists, inst, plan
    opBy,       \* owner of the recorded, unfinished operation, or NoCaller
    published,  \* active_operation names that operation
    cooling,    \* the per-volume cooldown is running
    wire,       \* requests of a caller still travelling to the platform
    req,        \* what each call asks for: [action, target]
    pc,         \* where each call is in `run`
    answer,     \* the class of the last answer to the caller's request
    seen,       \* the marker that made the caller wait for an idle volume
    errs,       \* consecutive unreadable polls of the completion wait
    expired,    \* the caller's context has ended
    outcome,    \* the reported outcome
    recorded,   \* history: operations the platform recorded for the call
    held,       \* history: the requested state held at some time of the call
    nodeFailed  \* history: the calls whose operation failed on the node

platform == <<vol, opBy, published, cooling>>
history  == <<recorded, held, nodeFailed>>
vars == <<vol, opBy, published, cooling, wire, req, pc, answer, seen, errs,
          expired, outcome, recorded, held, nodeFailed>>

MaxReadErrors == 3      \* maxConsecutiveReadErrors

Request ==
    { r \in [action : {"attach"}, target : Instances]
       \cup [action : {"detach", "delete"}, target : {NoInstance}]
       \cup [action : {"resize"}, target : Plans] : r.action \in Actions }

GateAnswers   == {"busy", "cooldown"}
DefiniteNo    == GateAnswers \cup {"refused", "denied", "notFound"}
AnswerKinds   == DefiniteNo \cup {"none", "ok", "uncertain"}
PendingCauses == {"pendingDeadline", "pendingUnreadable", "pendingGone"}
Outcomes == {"none", "success", "refused", "failed", "unknown", "gone",
             "unreadable"} \cup PendingCauses
Positions == {"send", "sent", "answered", "readBack", "recheck", "waitIdle",
              "pause", "poll", "done"}

TypeOK ==
    /\ vol \in [exists : BOOLEAN, inst : Instances \cup {NoInstance},
                plan : Plans]
    /\ opBy \in Callers \cup {NoCaller}
    /\ published \in BOOLEAN
    /\ cooling \in BOOLEAN
    /\ wire \in [Callers -> Nat]
    /\ req \in [Callers -> Request]
    /\ pc \in [Callers -> Positions]
    /\ answer \in [Callers -> AnswerKinds]
    /\ seen \in [Callers -> Actions \cup {"none"}]
    /\ errs \in [Callers -> 0..MaxReadErrors]
    /\ expired \in [Callers -> BOOLEAN]
    /\ outcome \in [Callers -> Outcomes]
    /\ recorded \in [Callers -> Nat]
    /\ held \in [Callers -> BOOLEAN]
    /\ nodeFailed \subseteq Callers

-----------------------------------------------------------------------------
(* What a read of the volume shows.                                        *)

\* The value of active_operation.
Marker == IF opBy # NoCaller /\ published THEN req[opBy].action ELSE "none"

\* The `desired` predicate a call hands to run, on the volume v.
Desired(c, v) ==
    /\ v.exists
    /\ \/ req[c].action \in {"attach", "detach"} /\ v.inst = req[c].target
       \/ req[c].action = "resize" /\ v.plan = req[c].target

\* What the call's caller set out to obtain: for delete, that the volume reads 404.
Holds(c, v) == Desired(c, v) \/ (req[c].action = "delete" /\ ~v.exists)

\* read(): the volume, errGone on a 404, or an error (always once ctx ended).
ReadsVolume(c) == ~expired[c] /\ vol.exists
ReadsGone(c)   == ~expired[c] /\ ~vol.exists

-----------------------------------------------------------------------------
(* The platform (outside this repository).                                 *)

\* The volume after operation of caller c is applied.
Applied(c) ==
    CASE req[c].action \in {"attach", "detach"} ->
            [vol EXCEPT !.inst = req[c].target]
      [] req[c].action = "resize" -> [vol EXCEPT !.plan = req[c].target]
      [] req[c].action = "delete" -> [vol EXCEPT !.exists = FALSE]

\* An operation the volume's state rules out: a second attach, a detach of a
\* detached volume, a delete of an attached one (reason volume_attached).
RuledOut(c) ==
    \/ req[c].action \in {"attach", "delete"} /\ vol.inst # NoInstance
    \/ req[c].action = "detach" /\ vol.inst = NoInstance

\* The answer reaches the caller only while it still waits for one.
Reply(c, a) ==
    IF pc[c] = "sent"
      THEN /\ answer' = [answer EXCEPT ![c] = a]
           /\ pc' = [pc EXCEPT ![c] = "answered"]
      ELSE UNCHANGED <<answer, pc>>

Arrive(c) ==
    /\ wire[c] > 0
    /\ wire' = [wire EXCEPT ![c] = @ - 1]
    /\ UNCHANGED <<req, seen, errs, expired, outcome>>

\* A definite refusal changes nothing on the platform.  The gate's 409 and 429
\* are definite (client/volume.go:151); classify counts every other 429 with them
\* (volumeop.go:604), though one "cannot establish that work never started"
\* (client/request.go:45): that none comes from elsewhere is assumed here.
PlatformRefuses(c) ==
    /\ Arrive(c)
    /\ \/ Reply(c, "denied")
       \/ ~vol.exists /\ Reply(c, "notFound")
       \/ vol.exists /\ opBy # NoCaller /\ Reply(c, "busy")
       \/ vol.exists /\ opBy = NoCaller /\ cooling /\ Reply(c, "cooldown")
       \/ vol.exists /\ opBy = NoCaller /\ Reply(c, "refused")
    /\ UNCHANGED <<platform, history>>

Admissible(c) == vol.exists /\ opBy = NoCaller /\ ~cooling /\ ~RuledOut(c)

\* The operation's row is written before active_operation is published.
PlatformRecords(c) ==
    /\ Arrive(c)
    /\ Admissible(c)
    /\ opBy' = c
    /\ published' = FALSE
    /\ recorded' = [recorded EXCEPT ![c] = @ + 1]
    /\ UNCHANGED <<vol, cooling, pc, answer, held, nodeFailed>>

\* The marker is published and the request answered 200.
PlatformPublishes ==
    /\ opBy # NoCaller /\ ~published
    /\ published' = TRUE
    /\ Reply(opBy, "ok")
    /\ UNCHANGED <<vol, opBy, cooling, wire, req, seen, errs, expired,
                   outcome, history>>

NoteHeld(v) == held' = [c \in Callers |-> held[c] \/ Holds(c, v)]

\* Attach and detach on a stopped instance need no node command.
PlatformAppliesAtOnce(c) ==
    /\ Arrive(c)
    /\ Admissible(c)
    /\ req[c].action \in {"attach", "detach"}
    /\ vol' = Applied(c)
    /\ cooling' = TRUE
    /\ recorded' = [recorded EXCEPT ![c] = @ + 1]
    /\ NoteHeld(vol')
    /\ Reply(c, "ok")
    /\ UNCHANGED <<opBy, published, nodeFailed>>

NodeConfirms ==
    /\ opBy # NoCaller /\ published
    /\ vol' = Applied(opBy)
    /\ opBy' = NoCaller
    /\ published' = FALSE
    /\ cooling' = TRUE
    /\ NoteHeld(vol')
    /\ UNCHANGED <<wire, req, pc, answer, seen, errs, expired, outcome,
                   recorded, nodeFailed>>

\* A node failure clears the marker and keeps the volume as it was.
NodeFails ==
    /\ opBy # NoCaller /\ published
    /\ opBy' = NoCaller
    /\ published' = FALSE
    /\ cooling' \in BOOLEAN
    /\ nodeFailed' = nodeFailed \cup {opBy}
    /\ UNCHANGED <<vol, wire, req, pc, answer, seen, errs, expired, outcome,
                   recorded, held>>

CooldownEnds ==
    /\ cooling
    /\ cooling' = FALSE
    /\ UNCHANGED <<vol, opBy, published, wire, req, pc, answer, seen, errs,
                   expired, outcome, history>>

\* A 5xx or a transport error: the request may have been handled, may still
\* be on its way, or may never arrive.
AnswerLost(c) ==
    /\ pc[c] = "sent"
    /\ Reply(c, "uncertain")
    /\ UNCHANGED <<platform, wire, req, seen, errs, expired, outcome, history>>

Deadline(c) ==
    /\ WithDeadline /\ ~expired[c] /\ pc[c] # "done"
    /\ expired' = [expired EXCEPT ![c] = TRUE]
    /\ UNCHANGED <<platform, wire, req, pc, answer, seen, errs, outcome,
                   history>>

-----------------------------------------------------------------------------
(* The call: run, waitIdle and the completion wait.  A verdict is either   *)
(* the position the call goes on at or the outcome it returns.             *)

Conclude(c, verdict) ==
    IF verdict \in Positions
      THEN /\ pc' = [pc EXCEPT ![c] = verdict]
           /\ UNCHANGED outcome
      ELSE /\ pc' = [pc EXCEPT ![c] = "done"]
           /\ outcome' = [outcome EXCEPT ![c] = verdict]

\* A volume that reads 404 is a confirmed delete, and for the rest `otherwise`.
Gone(c, otherwise) == IF req[c].action = "delete" THEN "success" ELSE otherwise

Send(c) ==
    /\ pc[c] = "send"
    /\ IF expired[c]
         THEN Conclude(c, "pendingDeadline") /\ UNCHANGED wire
         ELSE /\ wire' = [wire EXCEPT ![c] = @ + 1]
              /\ Conclude(c, "sent")
    /\ UNCHANGED <<platform, req, answer, seen, errs, expired, history>>

\* The context ended while the request was out: whatever comes back, the
\* call reports PendingError.
SendCut(c) ==
    /\ pc[c] = "sent" /\ expired[c]
    /\ Conclude(c, "pendingDeadline")
    /\ UNCHANGED <<platform, wire, req, answer, seen, errs, expired, history>>

\* What the answer to the request decides.
AfterAnswer(c) ==
    CASE answer[c] = "ok"                      -> "poll"
      [] answer[c] # "ok" /\ expired[c]        -> "pendingDeadline"
      [] answer[c] = "uncertain" /\ ~expired[c] -> "readBack"
      [] answer[c] \in {"denied", "notFound"} /\ ~expired[c] -> "refused"
      [] answer[c] \in GateAnswers \cup {"refused"} /\ ~expired[c] -> "recheck"

Classify(c) ==
    /\ pc[c] = "answered"
    /\ Conclude(c, AfterAnswer(c))
    /\ UNCHANGED <<platform, wire, req, answer, seen, errs, expired, history>>

\* Mutant: a pending operation found after an uncertain answer is not awaited.
AfterUncertainGivesUp(c) ==
    IF Desired(c, vol) THEN "success" ELSE "failed"

AfterUncertain(c) ==
    IF Marker = req[c].action THEN "poll"
    ELSE IF Desired(c, vol) THEN "success" ELSE "unknown"

\* After an uncertain answer: decided from one read, never by sending again.
ReadBack(c) ==
    /\ pc[c] = "readBack"
    /\ \/ expired[c] /\ Conclude(c, "unknown")
       \/ ReadsGone(c) /\ Conclude(c, Gone(c, "unknown"))
       \/ ReadsVolume(c) /\ Conclude(c, AfterUncertain(c))
    /\ UNCHANGED <<platform, wire, req, answer, seen, errs, expired, history>>

\* After a refusal: from the state first, then by the kind of refusal.
AfterRefusal(c) ==
    IF Marker # "none" THEN "waitIdle"
    ELSE IF Desired(c, vol) THEN "success"
    ELSE IF answer[c] \in GateAnswers THEN "pause" ELSE "refused"

Recheck(c) ==
    /\ pc[c] = "recheck"
    /\ \/ expired[c] /\ Conclude(c, "refused")
       \/ ReadsGone(c) /\ Conclude(c, Gone(c, "refused"))
       \/ ReadsVolume(c) /\ Conclude(c, AfterRefusal(c))
    /\ seen' = IF ReadsVolume(c) THEN [seen EXCEPT ![c] = Marker] ELSE seen
    /\ UNCHANGED <<platform, wire, req, answer, errs, expired, history>>

\* Mutant: after an operation of the same action ended, ask again.
AfterIdleAsksAgain(c) == IF Desired(c, vol) THEN "success" ELSE "send"

AfterIdle(c) ==
    IF Desired(c, vol) THEN "success"
    ELSE IF seen[c] = req[c].action THEN "failed" ELSE "send"

\* One poll of waitIdle and, once the volume is idle, the decision after it.
WaitIdle(c) ==
    /\ pc[c] = "waitIdle"
    /\ \/ expired[c] /\ Conclude(c, "pendingDeadline")
       \/ ReadsGone(c) /\ Conclude(c, Gone(c, "pendingGone"))
       \/ ReadsVolume(c) /\ Marker = "none" /\ Conclude(c, AfterIdle(c))
    /\ UNCHANGED <<platform, wire, req, answer, seen, errs, expired, history>>

\* Wait before asking again; a wait that would outlast the deadline ends the
\* call at once.
Pause(c) ==
    /\ pc[c] = "pause"
    /\ \/ ~expired[c] /\ Conclude(c, "send")
       \/ WithDeadline /\ Conclude(c, "pendingDeadline")
    /\ UNCHANGED <<platform, wire, req, answer, seen, errs, expired, history>>

\* Mutants: a marker that is gone means success, or is not
\* looked at.
AfterPollTrustsIdle(c) == IF Marker = req[c].action THEN "poll" ELSE "success"
AfterPollUntilDesired(c) == IF Desired(c, vol) THEN "success" ELSE "poll"

AfterPoll(c) ==
    IF Marker = req[c].action THEN "poll"
    ELSE IF Desired(c, vol) THEN "success" ELSE "failed"

\* One poll of the completion wait.
Poll(c) ==
    /\ pc[c] = "poll"
    /\ \/ expired[c] /\ Conclude(c, "pendingDeadline")
       \/ ReadsGone(c) /\ Conclude(c, Gone(c, "gone"))
       \/ ReadsVolume(c) /\ Conclude(c, AfterPoll(c))
    /\ errs' = IF ReadsVolume(c) THEN [errs EXCEPT ![c] = 0] ELSE errs
    /\ UNCHANGED <<platform, wire, req, answer, seen, expired, history>>

\* Mutant: one tolerated read error too many.
TolerateOnceMore(c) == errs[c] <= MaxReadErrors

Tolerate(c) == errs[c] < MaxReadErrors

\* A read of the volume fails (5xx after the client's retries, transport).
\* Only the completion wait tolerates that, a few times in a row.
Unreadable(c) ==
    /\ ~expired[c]
    /\ \/ /\ pc[c] = "readBack" /\ Conclude(c, "unknown") /\ UNCHANGED errs
       \/ /\ pc[c] = "recheck" /\ Conclude(c, "refused") /\ UNCHANGED errs
       \/ /\ pc[c] = "waitIdle" /\ Conclude(c, "pendingUnreadable")
          /\ UNCHANGED errs
       \/ /\ pc[c] = "poll" /\ Tolerate(c) /\ Conclude(c, "poll")
          /\ errs' = [errs EXCEPT ![c] = @ + 1]
       \/ /\ pc[c] = "poll" /\ ~Tolerate(c) /\ Conclude(c, "unreadable")
          /\ UNCHANGED errs
    /\ UNCHANGED <<platform, wire, req, answer, seen, expired, history>>

-----------------------------------------------------------------------------
Init ==
    /\ vol \in [exists : {TRUE}, inst : Instances \cup {NoInstance},
                plan : Plans]
    /\ opBy = NoCaller
    /\ published = FALSE
    /\ cooling \in BOOLEAN
    /\ wire = [c \in Callers |-> 0]
    /\ req \in [Callers -> Request]
    /\ pc = [c \in Callers |-> "send"]
    /\ answer = [c \in Callers |-> "none"]
    /\ seen = [c \in Callers |-> "none"]
    /\ errs = [c \in Callers |-> 0]
    /\ expired = [c \in Callers |-> FALSE]
    /\ outcome = [c \in Callers |-> "none"]
    /\ recorded = [c \in Callers |-> 0]
    /\ held = [c \in Callers |-> Holds(c, vol)]
    /\ nodeFailed = {}

Platform ==
    \/ PlatformPublishes
    \/ NodeConfirms
    \/ NodeFails
    \/ CooldownEnds
    \/ \E c \in Callers :
          PlatformRefuses(c) \/ PlatformRecords(c) \/ PlatformAppliesAtOnce(c)

Call(c) ==
    \/ Send(c)
    \/ SendCut(c)
    \/ Classify(c)
    \/ ReadBack(c)
    \/ Recheck(c)
    \/ WaitIdle(c)
    \/ Pause(c)
    \/ Poll(c)

Next ==
    \/ Platform
    \/ \E c \in Callers :
          Call(c) \/ Unreadable(c) \/ AnswerLost(c) \/ Deadline(c)

Spec == Init /\ [][Next]_vars

\* A goroutine that can run does; the HTTP client's own timeout ends every
\* send; a deadline, once set, passes.
CallerFairness ==
    \A c \in Callers :
        WF_vars(Call(c)) /\ WF_vars(AnswerLost(c)) /\ WF_vars(Deadline(c))

\* The node ends every published operation and the cooldown is finite.
PlatformFairness ==
    /\ WF_vars(PlatformPublishes)
    /\ WF_vars(NodeConfirms \/ NodeFails)
    /\ WF_vars(CooldownEnds)

FairSpec == Spec /\ CallerFairness /\ PlatformFairness

-----------------------------------------------------------------------------
(* Properties.                                                             *)

\* A call leaves at most one operation on the platform: run sends again only
\* after a definite refusal, so a request still on its way never meets a
\* second copy of itself.
AtMostOnce == \A c \in Callers : recorded[c] + wire[c] <= 1

\* RefusedError means nothing was changed: no operation of the call was
\* recorded, and no copy of its request is left to be recorded later.
RefusedRecordsNothing ==
    \A c \in Callers : outcome[c] = "refused" => recorded[c] + wire[c] = 0

\* After an uncertain answer, a recorded operation or a waited-out operation of
\* the same action, run never sends again.
SendsInTheClear ==
    \A c \in Callers :
       wire'[c] > wire[c] =>
          /\ recorded[c] = 0 /\ wire[c] = 0
          /\ answer[c] # "uncertain"
          /\ seen[c] # req[c].action
NoResendAfterDoubt == [][SendsInTheClear]_vars

\* No other call has sent anything.
Alone(c) ==
    \A d \in Callers \ {c} :
       pc[d] = "send" /\ answer[d] = "none" /\ recorded[d] = 0 /\ wire[d] = 0

\* A call alone on the volume tells the truth for good: after success the
\* requested state holds and stays; after failure the node failed it, the volume
\* is without it and nothing of the call is left that could still bring it about.
SoloVerdictIsFinal ==
    \A c \in Callers : Alone(c) =>
       /\ outcome[c] = "success" => Holds(c, vol)
       /\ outcome[c] = "failed" =>
             c \in nodeFailed /\ opBy # c /\ wire[c] = 0 /\ ~Holds(c, vol)

\* The package implements its promise (ConfirmedOperation).
Promised(c) ==
    CASE outcome[c] = "none" -> "open"
      [] outcome[c] \in {"refused", "success"} -> outcome[c]
      [] OTHER -> "other"
reported == [c \in Callers |-> Promised(c)]
Promise == INSTANCE ConfirmedOperation WITH report <- reported
KeepsPromise == Promise!Spec

\* Every call returns.
Terminates == \A c \in Callers : <>(pc[c] = "done")

-----------------------------------------------------------------------------
(* What the package's documentation says, where the code does otherwise.   *)

\* "FailedError means the API accepted the operation but it ended without the
\* requested change: the node reported a failure": some node failed an operation.
FailedMeansNodeFailure ==
    \A c \in Callers : outcome[c] = "failed" => nodeFailed # {}
=============================================================================
